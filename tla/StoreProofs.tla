------------------------------ MODULE StoreProofs ------------------------------
(***************************************************************************)
(* What the readers of the log are told, for any jobs, workloads, keys and    *)
(* limits: walks over pages, searches over ranked legs, bootstraps; and the   *)
(* types of the whole store.                                                 *)
(*                                                                          *)
(* What a reader holds are positions of the log and lengths it had, so what   *)
(* is claimed of it is stated of the log as a value, and stays true of every  *)
(* log that goes on from it.                                                 *)
(***************************************************************************)
EXTENDS KnowledgeProofs, DataLemmas

-----------------------------------------------------------------------------
(* Logs as values.                                                          *)

Grown(l, m) ==
    /\ Len(l) \in Nat /\ Len(m) \in Nat /\ Len(l) <= Len(m)
    /\ \A i \in 1..Len(l) : m[i] = l[i]

LatestIn(l, k, n) == Max({0} \cup {i \in 1..n : l[i].key = k})

LEMMA LatestInIs ==
  ASSUME NEW l, NEW n \in Nat, NEW k
  PROVE  /\ LatestIn(l, k, n) \in 0..n
         /\ LatestIn(l, k, n) # 0 => l[LatestIn(l, k, n)].key = k
         /\ \A i \in 1..n : l[i].key = k => i <= LatestIn(l, k, n)
<1> DEFINE S == {0} \cup {i \in 1..n : l[i].key = k}
<1>1. S \in SUBSET (0..n) /\ S # {}
  OBVIOUS
<1>2. \A i \in S : i # 0 => l[i].key = k
  OBVIOUS
<1>3. \A i \in 1..n : l[i].key = k => i \in S
  OBVIOUS
<1>4. LatestIn(l, k, n) = Max(S)
  BY DEF LatestIn
<1> HIDE DEF S
<1>5. Max(S) \in S /\ \A i \in S : i <= Max(S)
  <2>1. 0 \in Int /\ n \in Int
    OBVIOUS
  <2> QED
    BY <1>1, <2>1, MaxIs
<1> QED
  BY <1>1, <1>2, <1>3, <1>4, <1>5

LEMMA LatestAtIsIn == \A k, n : LatestAt(k, n) = LatestIn(log, k, n)
BY DEF LatestAt, LatestIn

LEMMA LatestInStays ==
  ASSUME NEW l, NEW m, Grown(l, m), NEW n \in 0..Len(l), NEW k
  PROVE  LatestIn(m, k, n) = LatestIn(l, k, n)
<1>1. {i \in 1..n : m[i].key = k} = {i \in 1..n : l[i].key = k}
  BY DEF Grown
<1> QED
  BY <1>1 DEF LatestIn

LEMMA LogIsGrown ==
  ASSUME PointsOK, RowsInv, [Next]_vars
  PROVE  Grown(log, log')
BY LogGrows DEF Grown, RowsInv

LEMMA LogIsList ==
  ASSUME RowsInv
  PROVE  Len(log) \in Nat /\ DOMAIN log = 1..Len(log)
BY DEF RowsInv, LogOK

\* A step is a reader's, or leaves the readers alone.
LEMMA ReadingFrame ==
  ASSUME PointsOK, [Next]_vars
  PROVE  \/ \E j \in Jobs : ReadingStep(j)
         \/ UNCHANGED readVars /\ Elsewhere(ReadingOps)
<1> DEFINE Goal == \/ \E j \in Jobs : ReadingStep(j)
                   \/ UNCHANGED readVars /\ Elsewhere(ReadingOps)
<1> USE DEF knowledgeVars
<1>1. ASSUME NEW j \in Jobs, KnowledgeStep(j)
      PROVE  Goal
  <2>1. CASE Writing(j) /\ UNCHANGED readVars
    BY <2>1, WritingMoves, MovesElsewhere DEF WritingOps, ReadingOps
  <2>2. CASE ReadingStep(j)
    BY <2>2
  <2>3. CASE CurationStep(j) /\ UNCHANGED readVars
    BY <2>3, CurationMoves, MovesElsewhere DEF CurationOps, ReadingOps
  <2>4. CASE ClaimsStep(j) /\ UNCHANGED readVars
    BY <2>4, ClaimsMoves, MovesElsewhere DEF ClaimsOps, ReadingOps
  <2> QED
    BY <1>1, <2>1, <2>2, <2>3, <2>4 DEF KnowledgeStep
<1>2. ASSUME NEW j \in Jobs, ServiceStep(j), UNCHANGED knowledgeVars
      PROVE  Goal
  <2>1. CASE SessionsStep(j)
    BY <1>2, <2>1, SessionsMoves, MovesElsewhere DEF SessionsOps, ReadingOps
  <2>2. CASE NamespacesStep(j)
    BY <1>2, <2>2, NamespacesMoves, MovesElsewhere DEF NamespacesOps, ReadingOps
  <2>3. CASE TokensStep(j)
    BY <1>2, <2>3, TokensMoves, MovesElsewhere DEF TokenOps, ReadingOps
  <2>4. CASE ArtifactsStep(j)
    BY <1>2, <2>4, ArtifactsMoves, MovesElsewhere DEF ArtifactsOps, ReadingOps
  <2> QED
    BY <1>2, <2>1, <2>2, <2>3, <2>4 DEF ServiceStep
<1>3. CASE (Tick \/ Push) /\ UNCHANGED knowledgeVars
  BY <1>3 DEF Tick, Push, Elsewhere
<1>4. CASE UNCHANGED vars
  BY <1>4 DEF vars, entryVars, Elsewhere
<1> QED
  BY <1>1, <1>2, <1>3, <1>4 DEF Next

\* The first items of a list.
LEMMA FirstOfAList ==
  ASSUME NEW S, NEW s \in Seq(S), NEW n \in Nat, n <= Len(s)
  PROVE  /\ SubSeq(s, 1, n) \in Seq(S) /\ Len(SubSeq(s, 1, n)) = n
         /\ DOMAIN SubSeq(s, 1, n) = 1..n
         /\ \A p \in 1..n : SubSeq(s, 1, n)[p] = s[p]
<1>1. 1 \in 1..Len(s) + 1 /\ n \in (1 - 1)..Len(s)
  OBVIOUS
<1>2. /\ SubSeq(s, 1, n) \in Seq(S)
      /\ Len(SubSeq(s, 1, n)) = n
      /\ \A i \in 1..n : SubSeq(s, 1, n)[i] = s[i]
  BY <1>1, SubSeqProperties
<1> QED
  BY <1>2

-----------------------------------------------------------------------------
(* A page.                                                                  *)

\* A position is listed at moment n: of the revisions that match, the newest.
Shows(l, q, after, i, n) ==
    /\ i \in 1..n /\ Matches(q, l[i]) /\ IsLive(l[i]) /\ ~l[i].quarantined
    /\ l[i].key > after
    /\ \A m \in 1..n : Matches(q, l[m]) /\ l[m].key = l[i].key => m <= i

\* The key's latest revision at moment n is one to show.
Wanted(l, q, k, n) ==
    LET i == LatestIn(l, k, n) IN
    i # 0 /\ Matches(q, l[i]) /\ IsLive(l[i]) /\ ~l[i].quarantined

\* A page that begins after a key: it is in key order, it shows what is listed,
\* and all that is wanted up to its cursor.
PageOK(l, q, after, page) ==
    /\ page.at \in 0..Len(l)
    /\ page.shown \in Seq(1..page.at) /\ Len(page.shown) <= q.limit
    /\ \A s \in DOMAIN page.shown : Shows(l, q, after, page.shown[s], page.at)
    /\ \A s, t \in DOMAIN page.shown :
         s < t => l[page.shown[s]].key < l[page.shown[t]].key
    /\ \/ page.next = BeforeAll
       \/ /\ page.next \in Nat /\ page.next > after
          /\ \A s \in DOMAIN page.shown : l[page.shown[s]].key <= page.next
    /\ \A k \in Keys :
         /\ q.limit > 0
         /\ k > after /\ (page.next = BeforeAll \/ k <= page.next)
         /\ Wanted(l, q, k, page.at)
         => \E s \in DOMAIN page.shown : l[page.shown[s]].key = k

LEMMA WantedIsMatch == \A q, k, n : MatchesAt(q, k, n) = Wanted(log, q, k, n)
BY LatestAtIsIn DEF MatchesAt, Wanted

LEMMA PageStays ==
  ASSUME NEW l, NEW m, Grown(l, m), NEW q, NEW after, NEW page, PageOK(l, q, after, page)
  PROVE  PageOK(m, q, after, page)
<1>1. /\ page.at \in 0..Len(l) /\ page.at \in 0..Len(m)
      /\ \A i \in 1..page.at : m[i] = l[i]
  BY DEF PageOK, Grown
<1>2. \A s \in DOMAIN page.shown : page.shown[s] \in 1..page.at
  BY DEF PageOK, Shows
<1>3. \A s \in DOMAIN page.shown : m[page.shown[s]] = l[page.shown[s]]
  BY <1>1, <1>2
<1>4. ASSUME NEW s \in DOMAIN page.shown
      PROVE  Shows(m, q, after, page.shown[s], page.at)
  <2>1. Shows(l, q, after, page.shown[s], page.at)
    BY DEF PageOK
  <2> QED
    BY <2>1, <1>1, <1>3 DEF Shows
<1>5. ASSUME NEW k \in Keys
      PROVE  Wanted(m, q, k, page.at) => Wanted(l, q, k, page.at)
  <2>1. LatestIn(m, k, page.at) = LatestIn(l, k, page.at)
    BY <1>1, LatestInStays
  <2>2. LatestIn(l, k, page.at) \in 0..page.at
    BY <1>1, LatestInIs
  <2>3. LatestIn(l, k, page.at) # 0 =>
          m[LatestIn(l, k, page.at)] = l[LatestIn(l, k, page.at)]
    BY <1>1, <2>2
  <2> QED
    BY <2>1, <2>3 DEF Wanted
<1>6. \A k \in Keys : Wanted(m, q, k, page.at) => Wanted(l, q, k, page.at)
  BY <1>5
<1>7. \A s \in DOMAIN page.shown : Shows(m, q, after, page.shown[s], page.at)
  BY <1>4
<1>8. /\ page.shown \in Seq(1..page.at) /\ Len(page.shown) <= q.limit
      /\ \A s, t \in DOMAIN page.shown :
           s < t => m[page.shown[s]].key < m[page.shown[t]].key
  BY <1>3 DEF PageOK
<1>9. \/ page.next = BeforeAll
      \/ /\ page.next \in Nat /\ page.next > after
         /\ \A s \in DOMAIN page.shown : m[page.shown[s]].key <= page.next
  BY <1>3 DEF PageOK
<1>10. ASSUME q.limit > 0, NEW k \in Keys, k > after, page.next = BeforeAll \/ k <= page.next,
              Wanted(m, q, k, page.at)
       PROVE  \E s \in DOMAIN page.shown : m[page.shown[s]].key = k
  <2>1. PICK s \in DOMAIN page.shown : l[page.shown[s]].key = k
    BY <1>6, <1>10 DEF PageOK
  <2> QED
    BY <2>1, <1>3
<1> QED
  BY <1>1, <1>7, <1>8, <1>9, <1>10 DEF PageOK

\* Revisions of different keys, in key order.
LEMMA KeyOrder ==
  ASSUME RowsInv, NEW S, S \subseteq DOMAIN log,
         \A a, b \in S : log[a].key = log[b].key => a = b
  PROVE  /\ InKeyOrder(S) \in Seq(S)
         /\ \A x \in S : \E p \in DOMAIN InKeyOrder(S) : InKeyOrder(S)[p] = x
         /\ \A p, q \in DOMAIN InKeyOrder(S) :
              p < q => log[InKeyOrder(S)[p]].key < log[InKeyOrder(S)[q]].key
<1> DEFINE R == {e \in S \X S : log[e[1]].key < log[e[2]].key}
<1>1. IsFiniteSet(S)
  <2>1. IsFiniteSet(1..Len(log)) /\ S \subseteq 1..Len(log)
    BY LogIsList, FS_Interval
  <2> QED
    BY <2>1, FS_Subset
<1>2. \A x \in S : log[x].key \in Nat
  BY DEF RowsInv, RowShape
<1>3. \A x, y \in S : <<x, y>> \in R <=> log[x].key < log[y].key
  OBVIOUS
<1> HIDE DEF R
<1>4. /\ \A x \in S : <<x, x>> \notin R
      /\ \A x, y \in S : x # y => <<x, y>> \in R \/ <<y, x>> \in R
      /\ \A x, y, z \in S : <<x, y>> \in R /\ <<y, z>> \in R => <<x, z>> \in R
  BY <1>2, <1>3
<1>5. PICK s \in SetToSeqs(S) : \A p, q \in DOMAIN s : p < q => <<s[p], s[q]>> \in R
  BY <1>1, <1>4, OrderLists
<1>6. \A p \in DOMAIN s : s[p] \in S
  BY <1>1, ListOfSet
<1>7. \A p, q \in DOMAIN s : p < q => log[s[p]].key < log[s[q]].key
  BY <1>3, <1>5, <1>6
<1>8. /\ InKeyOrder(S) \in SetToSeqs(S)
      /\ \A p, q \in DOMAIN InKeyOrder(S) :
           p < q => log[InKeyOrder(S)[p]].key < log[InKeyOrder(S)[q]].key
  BY <1>7 DEF InKeyOrder, InOrder
<1>9. /\ InKeyOrder(S) \in Seq(S)
      /\ \A x \in S : \E p \in DOMAIN InKeyOrder(S) : InKeyOrder(S)[p] = x
  BY <1>1, <1>8, ListOfSet
<1> QED
  BY <1>8, <1>9

LEMMA ListTasks ==
  ASSUME RowsInv, NEW j \in Jobs
  PROVE  task[j].op \in {"list", "search", "recall"} => task[j].limit \in Nat
BY ReadingAssumption DEF RowsInv

\* What is read as one page.
LEMMA PageIsOK ==
  ASSUME RowsInv, NEW j \in Jobs, task[j].op = "list", NEW after \in Nat \cup {BeforeAll}
  PROVE  /\ PageOK(log, task[j], after, Page(task[j], after))
         /\ Page(task[j], after).at = Len(log)
<1> DEFINE q == task[j]
           S == Listed(q, after)
           live == InKeyOrder(S)
           size == Min({q.limit, Len(live)})
           shown == SubSeq(live, 1, size)
           page == Page(q, after)
<1>1. q.limit \in Nat
  BY ListTasks
<1>2. Len(log) \in Nat /\ DOMAIN log = 1..Len(log)
  BY LogIsList
<1>3. \A i \in DOMAIN log : log[i].key \in Nat
  BY DEF RowsInv, RowShape
<1>4. \A i \in S : i \in DOMAIN log /\ Shows(log, q, after, i, Len(log))
  BY <1>2 DEF Listed, DistinctOn, Shows
<1>5. \A i \in DOMAIN log : Shows(log, q, after, i, Len(log)) => i \in S
  BY <1>2 DEF Listed, DistinctOn, Shows
<1> HIDE DEF q, S, size, shown, page
<1>6. \A a, b \in S : log[a].key = log[b].key => a = b
  <2> SUFFICES ASSUME NEW a \in S, NEW b \in S, log[a].key = log[b].key
               PROVE  a = b
    OBVIOUS
  <2>1. a <= b /\ b <= a /\ a \in Nat /\ b \in Nat
    BY <1>2, <1>4 DEF Shows
  <2> QED
    BY <2>1
<1>7. /\ live \in Seq(S) /\ \A x \in S : \E p \in DOMAIN live : live[p] = x
      /\ \A p, r \in DOMAIN live : p < r => log[live[p]].key < log[live[r]].key
  BY <1>4, <1>6, KeyOrder
<1> HIDE DEF live
<1>8. Len(live) \in Nat /\ DOMAIN live = 1..Len(live)
  BY <1>7
<1>9. /\ size \in Nat /\ size <= q.limit /\ size <= Len(live)
      /\ size = q.limit \/ size = Len(live)
  <2>1. {q.limit, Len(live)} \in SUBSET Nat /\ {q.limit, Len(live)} # {}
    BY <1>1, <1>8
  <2> QED
    BY <2>1, <1>1, <1>8, MinIs DEF size
<1>10. /\ shown \in Seq(S) /\ Len(shown) = size /\ DOMAIN shown = 1..size
       /\ \A p \in 1..size : shown[p] = live[p]
  BY <1>7, <1>9, FirstOfAList DEF shown
<1>11. /\ page.at = Len(log) /\ page.shown = shown
       /\ page.next = IF Len(live) > q.limit /\ shown # <<>>
                      THEN log[Last(shown)].key ELSE BeforeAll
  BY DEF Page, page, shown, size, live, S
<1>12. S \subseteq 1..Len(log)
  BY <1>2, <1>4
<1>13. shown \in Seq(1..Len(log))
  BY <1>10, <1>12, SeqMonotonic
<1>14. /\ Len(live) > q.limit => size = q.limit
       /\ shown # <<>> <=> size # 0
       /\ Len(live) > q.limit /\ shown # <<>> =>
            Last(shown) = live[q.limit] /\ q.limit # 0
  <2>1. Len(live) > q.limit => size = q.limit
    <3>1. \A x, y, z \in Nat : x <= y /\ (x = y \/ x = z) /\ z > y => x = y
      OBVIOUS
    <3> QED
      BY <3>1, <1>1, <1>8, <1>9
  <2>2. shown # <<>> <=> size # 0
    BY <1>10, EmptySeq
  <2> QED
    BY <2>1, <2>2, <1>1, <1>9, <1>10 DEF Last
<1>15. \A p \in 1..size : shown[p] \in S
  BY <1>10
<1>16. \A s, t \in 1..size : s < t => log[shown[s]].key < log[shown[t]].key
  BY <1>7, <1>8, <1>9, <1>10
<1>17. \/ page.next = BeforeAll
       \/ /\ page.next \in Nat /\ page.next > after
          /\ \A s \in DOMAIN shown : log[shown[s]].key <= page.next
  <2> SUFFICES ASSUME Len(live) > q.limit, shown # <<>>
               PROVE  /\ page.next \in Nat /\ page.next > after
                      /\ \A s \in DOMAIN shown : log[shown[s]].key <= page.next
    BY <1>11
  <2>1. /\ page.next = log[live[q.limit]].key /\ live[q.limit] \in S
        /\ q.limit \in DOMAIN live
    BY <1>1, <1>7, <1>8, <1>11, <1>14
  <2>2. page.next \in Nat /\ page.next > after
    BY <2>1, <1>3, <1>4 DEF Shows
  <2>3. ASSUME NEW s \in DOMAIN shown
        PROVE  log[shown[s]].key <= page.next
    <3>1. s \in DOMAIN live /\ s \in Nat /\ s <= q.limit /\ shown[s] = live[s]
      <4>1. s \in 1..size /\ shown[s] = live[s]
        BY <1>10
      <4>2. \A x, y : x \in Nat /\ y \in Nat /\ s \in 1..size /\ size <= x /\ size <= y
                       => s \in Nat /\ s <= x /\ s \in 1..y
        BY <1>9
      <4>3. s \in Nat /\ s <= q.limit /\ s \in 1..Len(live)
        BY <4>1, <4>2, <1>1, <1>8, <1>9
      <4> QED
        BY <4>1, <4>3, <1>8
    <3>2. s = q.limit \/ s < q.limit
      BY <1>1, <3>1
    <3>3. log[live[s]].key \in Nat
      BY <1>3, <1>4, <1>7, <3>1
    <3>4. s < q.limit => log[live[s]].key < log[live[q.limit]].key
      BY <2>1, <3>1, <1>7
    <3>5. log[live[s]].key <= page.next
      BY <2>1, <2>2, <3>2, <3>3, <3>4
    <3> QED
      BY <3>1, <3>5
  <2> QED
    BY <2>2, <2>3
<1>18. ASSUME q.limit > 0, NEW k \in Keys, k > after, page.next = BeforeAll \/ k <= page.next,
              Wanted(log, q, k, Len(log))
       PROVE  \E s \in DOMAIN shown : log[shown[s]].key = k
  <2> DEFINE i == LatestIn(log, k, Len(log))
  <2>1. /\ i \in 0..Len(log) /\ i # 0 /\ log[i].key = k
        /\ \A m \in 1..Len(log) : log[m].key = k => m <= i
    BY <1>2, <1>18, LatestInIs DEF Wanted
  <2>2. i \in S
    BY <1>2, <1>5, <1>18, <2>1 DEF Wanted, Shows
  <2> HIDE DEF i
  <2>3. PICK p \in DOMAIN live : live[p] = i
    BY <1>7, <2>2
  <2>4. CASE Len(live) <= q.limit
    <3>2. \A x, y, z \in Nat : x <= z /\ (x = y \/ x = z) /\ z <= y => x = z
      OBVIOUS
    <3>1. size = Len(live)
      BY <2>4, <3>2, <1>1, <1>8, <1>9
    <3> QED
      BY <3>1, <2>1, <2>3, <1>8, <1>10
  <2>5. CASE ~(Len(live) <= q.limit)
    <3>7. Len(live) > q.limit
      BY <2>5, <1>1, <1>8
    <3>8. size = q.limit /\ size # 0 /\ shown # <<>>
      BY <3>7, <1>1, <1>14, <1>18
    <3>9. q.limit \in DOMAIN live /\ p \in Nat
      BY <3>7, <1>1, <1>8, <1>18, <2>3
    <3>1. /\ page.next = log[live[q.limit]].key /\ size = q.limit /\ q.limit \in DOMAIN live
          /\ q.limit \in Nat /\ p \in Nat /\ live[q.limit] \in S
      BY <3>7, <3>8, <3>9, <1>1, <1>7, <1>11, <1>14
    <3>5. live[q.limit] \in DOMAIN log /\ i \in DOMAIN log
      BY <3>1, <1>4, <2>2
    <3>6. page.next \in Nat /\ k \in Nat
      BY <3>1, <3>5, <1>3, <2>1
    <3>2. page.next \in Nat /\ k <= page.next /\ k \in Nat
      BY <3>6, <1>18 DEF BeforeAll
    <3>3. ~(q.limit < p)
      <4>1. q.limit < p => page.next < k
        BY <3>1, <1>7, <2>1, <2>3
      <4> QED
        BY <4>1, <3>2
    <3>4. p \in 1..size
      BY <3>1, <3>3, <1>8
    <3> QED
      BY <3>4, <2>1, <2>3, <1>10
  <2> QED
    BY <2>4, <2>5
<1>19. \A s \in DOMAIN shown : Shows(log, q, after, shown[s], Len(log))
  BY <1>4, <1>10, <1>15
<1>20. PageOK(log, q, after, page)
  <2>1. page.at \in 0..Len(log)
    BY <1>2, <1>11
  <2>2. page.at = Len(log) /\ page.shown = shown /\ DOMAIN page.shown = 1..size
    BY <1>10, <1>11
  <2>3. page.shown \in Seq(1..page.at) /\ Len(page.shown) <= q.limit
    BY <1>9, <1>10, <1>13, <2>2
  <2>4. \A s \in DOMAIN page.shown : Shows(log, q, after, page.shown[s], page.at)
    BY <1>19, <2>2
  <2>5. \A s, t \in DOMAIN page.shown :
           s < t => log[page.shown[s]].key < log[page.shown[t]].key
    BY <1>16, <2>2
  <2>6. \/ page.next = BeforeAll
        \/ /\ page.next \in Nat /\ page.next > after
           /\ \A s \in DOMAIN page.shown : log[page.shown[s]].key <= page.next
    BY <1>17, <2>2
  <2>7. \A k \in Keys :
           /\ q.limit > 0
           /\ k > after /\ (page.next = BeforeAll \/ k <= page.next)
           /\ Wanted(log, q, k, page.at)
           => \E s \in DOMAIN page.shown : log[page.shown[s]].key = k
    BY <1>18, <2>2
  <2> QED
    BY <2>1, <2>3, <2>4, <2>5, <2>6, <2>7 DEF PageOK
<1> QED
  BY <1>11, <1>20 DEF page, q

-----------------------------------------------------------------------------
(* A walk.                                                                  *)

\* Where a page of a walk begins.
After(pages, p) == IF p = 1 THEN BeforeAll ELSE pages[p - 1].next

\* The pages of a walk lie one behind the other, in time and in key order, and
\* leave nothing out between them.
PagesOK(l, q, pages) ==
    /\ \E S : pages \in Seq(S)
    /\ \A p \in DOMAIN pages : PageOK(l, q, After(pages, p), pages[p])
    /\ \A p, r \in DOMAIN pages : p < r =>
         /\ pages[p].at <= pages[r].at
         /\ pages[p].next # BeforeAll /\ pages[p].next <= After(pages, r)

WalkOK(j) ==
    /\ PagesOK(log, task[j], walk[j])
    /\ pc[j] = "idle" => walk[j] = <<>>
    /\ pc[j] = "page" => walk[j] # <<>> /\ Last(walk[j]).next # BeforeAll
    /\ pc[j] = "done" => walk[j] # <<>> /\ Last(walk[j]).next = BeforeAll

WalksInv ==
    /\ walk = [j \in Jobs |-> walk[j]]
    /\ \A j \in Jobs : task[j].op = "list" => WalkOK(j)
    /\ \A j \in Jobs : task[j].op # "list" => walk[j] = <<>>

LEMMA InitWalks == Init => WalksInv
<1> SUFFICES ASSUME Init
             PROVE  WalksInv
  OBVIOUS
<1>1. /\ walk = [j \in Jobs |-> <<>>] /\ pc = [j \in Jobs |-> "idle"]
  BY DEF Init, ReadingInit, EntriesInit
<1>2. \A l, q : PagesOK(l, q, <<>>)
  <2>1. <<>> \in Seq({}) /\ DOMAIN <<>> = {}
    OBVIOUS
  <2> QED
    BY <2>1 DEF PagesOK
<1> QED
  BY <1>1, <1>2 DEF WalksInv, WalkOK

LEMMA PagesStay ==
  ASSUME NEW l, NEW m, Grown(l, m), NEW q, NEW pages, PagesOK(l, q, pages)
  PROVE  PagesOK(m, q, pages)
BY PageStays DEF PagesOK

\* The next page is read.
LEMMA PagesGoOn ==
  ASSUME NEW l, NEW q, NEW pages, PagesOK(l, q, pages), NEW page,
         pages # <<>> => Last(pages).next # BeforeAll,
         PageOK(l, q, IF pages = <<>> THEN BeforeAll ELSE Last(pages).next, page),
         page.at = Len(l), Len(l) \in Nat
  PROVE  PagesOK(l, q, Append(pages, page)) /\ Last(Append(pages, page)) = page
<1> DEFINE n == Len(pages)
           all == Append(pages, page)
<1>1. PICK S : pages \in Seq(S)
  BY DEF PagesOK
<1>2. pages \in Seq(S \cup {page}) /\ page \in S \cup {page}
  BY <1>1, SeqMonotonic
<1>3. n \in Nat /\ DOMAIN pages = 1..n /\ (pages = <<>> <=> n = 0)
  BY <1>1, EmptySeq
<1>5. n # 0 => Last(pages) = pages[n]
  BY <1>3 DEF Last
<1>4. /\ all \in Seq(S \cup {page}) /\ DOMAIN all = 1..(n + 1) /\ Len(all) = n + 1
      /\ \A p \in 1..n : all[p] = pages[p]
      /\ all[n + 1] = page
  BY <1>2, AppendProperties
<1> HIDE DEF n
<1>6. After(all, n + 1) = IF pages = <<>> THEN BeforeAll ELSE Last(pages).next
  BY <1>3, <1>4, <1>5 DEF After
<1>7. \A p \in 1..n : After(all, p) = After(pages, p)
  BY <1>3, <1>4 DEF After
<1> HIDE DEF all
<1>8. \A p \in 1..n : PageOK(l, q, After(pages, p), pages[p])
  BY <1>3 DEF PagesOK
<1>9. ASSUME NEW p \in DOMAIN all
      PROVE  PageOK(l, q, After(all, p), all[p])
  <2>1. p \in 1..n \/ p = n + 1
    BY <1>3, <1>4
  <2> QED
    BY <2>1, <1>4, <1>6, <1>7, <1>8
<1>10. ASSUME NEW p \in 1..n
       PROVE  /\ pages[p].at <= page.at
              /\ pages[p].next # BeforeAll /\ pages[p].next <= After(all, n + 1)
  <2>1. pages # <<>> /\ After(all, n + 1) = pages[n].next /\ pages[n].next # BeforeAll
    BY <1>3, <1>5, <1>6
  <2>2. pages[p].at <= page.at
    BY <1>8 DEF PageOK
  <2>3. CASE p = n
    <3>1. pages[n].next \in Nat
      BY <1>3, <1>8, <2>1 DEF PageOK
    <3> QED
      BY <2>1, <2>2, <2>3, <3>1
  <2>4. CASE p # n
    <3>1. p \in DOMAIN pages /\ n \in DOMAIN pages /\ p < n
      BY <1>3, <2>4
    <3>2. pages[p].next # BeforeAll /\ pages[p].next <= After(pages, n)
      BY <3>1 DEF PagesOK
    <3>3. pages[n].next \in Nat /\ pages[n].next > After(pages, n)
      BY <1>3, <1>8, <2>1 DEF PageOK
    <3>4. pages[p].next \in Nat
      BY <1>8, <3>2 DEF PageOK
    <3>5. After(pages, n) \in Int
      <4>1. n # 1 /\ n - 1 \in 1..n
        BY <3>1, <1>3
      <4>2. After(pages, n) = pages[n - 1].next
        BY <4>1 DEF After
      <4>3. pages[n - 1].next = BeforeAll \/ pages[n - 1].next \in Nat
        BY <4>1, <1>8 DEF PageOK
      <4> QED
        BY <4>2, <4>3 DEF BeforeAll
    <3> QED
      BY <2>1, <2>2, <3>2, <3>3, <3>4, <3>5
  <2> QED
    BY <2>3, <2>4
<1>11. ASSUME NEW p \in DOMAIN all, NEW r \in DOMAIN all, p < r
       PROVE  /\ all[p].at <= all[r].at
              /\ all[p].next # BeforeAll /\ all[p].next <= After(all, r)
  <2>1. p \in 1..n
    BY <1>3, <1>4, <1>11
  <2>2. CASE r = n + 1
    BY <2>1, <2>2, <1>4, <1>10
  <2>3. CASE r # n + 1
    <3>1. r \in 1..n
      BY <2>3, <1>3, <1>4
    <3>2. /\ pages[p].at <= pages[r].at
          /\ pages[p].next # BeforeAll /\ pages[p].next <= After(pages, r)
      BY <1>3, <1>11, <2>1, <3>1 DEF PagesOK
    <3> QED
      BY <2>1, <3>1, <3>2, <1>4, <1>7
  <2> QED
    BY <2>2, <2>3
<1>12. PagesOK(l, q, all)
  BY <1>4, <1>9, <1>11 DEF PagesOK
<1>13. Last(all) = page
  BY <1>4 DEF Last
<1> QED
  BY <1>12, <1>13 DEF all

LEMMA ListPageReads ==
  ASSUME NEW j \in Jobs, PointsOK, RowsInv, WalksInv, ListPage(j)
  PROVE  WalkOK(j)' /\ walk' = [walk EXCEPT ![j] = walk'[j]] /\ log' = log
<1> DEFINE q == task[j]
           page == Page(q, Cursor(j))
<1>1. /\ q.op = "list" /\ pc[j] \in {"idle", "page"} /\ task' = task /\ log' = log
      /\ walk' = [walk EXCEPT ![j] = Append(walk[j], page)]
      /\ pc' = [pc EXCEPT ![j] = IF page.next = BeforeAll THEN "done" ELSE "page"]
  BY DEF ListPage, Goto
<1>2. /\ walk = [i \in Jobs |-> walk[i]] /\ PagesOK(log, q, walk[j])
      /\ pc[j] = "idle" => walk[j] = <<>>
      /\ pc[j] = "page" => Last(walk[j]).next # BeforeAll
  BY <1>1 DEF WalksInv, WalkOK
<1>3. walk[j] # <<>> => Last(walk[j]).next # BeforeAll
  BY <1>1, <1>2
<1>4. Cursor(j) \in Nat \cup {BeforeAll}
  <2>1. CASE walk[j] = <<>>
    BY <2>1 DEF Cursor
  <2>2. CASE walk[j] # <<>>
    <3> DEFINE n == Len(walk[j])
    <3>1. PICK S : walk[j] \in Seq(S)
      BY <1>2 DEF PagesOK
    <3>2. n \in DOMAIN walk[j] /\ Last(walk[j]) = walk[j][n]
      BY <2>2, <3>1, EmptySeq DEF Last
    <3>3. PageOK(log, q, After(walk[j], n), walk[j][n])
      BY <1>2, <3>2 DEF PagesOK
    <3> QED
      BY <2>2, <3>2, <3>3 DEF Cursor, PageOK
  <2> QED
    BY <2>1, <2>2
<1>5. PageOK(log, q, Cursor(j), page) /\ page.at = Len(log) /\ Len(log) \in Nat
  BY <1>1, <1>4, PageIsOK, LogIsList
<1>6. Cursor(j) = IF walk[j] = <<>> THEN BeforeAll ELSE Last(walk[j]).next
  BY DEF Cursor
<1> HIDE DEF page, q
<1>7. /\ PagesOK(log, q, Append(walk[j], page))
      /\ Last(Append(walk[j], page)) = page
  <2>1. PageOK(log, q, IF walk[j] = <<>> THEN BeforeAll ELSE Last(walk[j]).next, page)
    BY <1>5, <1>6
  <2> QED
    BY <1>2, <1>3, <1>5, <2>1, PagesGoOn
<1>8. walk'[j] = Append(walk[j], page) /\ walk' = [walk EXCEPT ![j] = walk'[j]]
  BY <1>1, <1>2
<1>9. pc'[j] = IF page.next = BeforeAll THEN "done" ELSE "page"
  BY <1>1 DEF PointsOK
<1>10. Append(walk[j], page) # <<>>
  <2>1. PICK S : walk[j] \in Seq(S)
    BY <1>2 DEF PagesOK
  <2>2. walk[j] \in Seq(S \cup {page}) /\ page \in S \cup {page}
    BY <2>1, SeqMonotonic
  <2>3. Len(Append(walk[j], page)) = Len(walk[j]) + 1 /\ Len(walk[j]) \in Nat
    BY <2>2, AppendProperties
  <2> DEFINE all == Append(walk[j], page)
  <2>4. Len(all) # 0
    BY <2>3
  <2> HIDE DEF all
  <2>5. all # <<>>
    BY <2>4
  <2> QED
    BY <2>5 DEF all
<1>11. PagesOK(log', task'[j], walk'[j])
  BY <1>1, <1>7, <1>8 DEF q
<1> QED
  BY <1>1, <1>7, <1>8, <1>9, <1>10, <1>11 DEF WalkOK

LEMMA WalksStep ==
  ASSUME PointsOK, RowsInv, WalksInv, [Next]_vars
  PROVE  WalksInv'
<1>1. Grown(log, log') /\ task' = task
  BY LogIsGrown, TaskStays
<1>2. walk = [j \in Jobs |-> walk[j]]
  BY DEF WalksInv
<1>3. ASSUME NEW j \in Jobs, task[j].op = "list", walk'[j] = walk[j], pc'[j] = pc[j]
      PROVE  WalkOK(j)'
  <2>1. WalkOK(j) /\ PagesOK(log', task[j], walk[j])
    BY <1>1, <1>3, PagesStay DEF WalksInv, WalkOK
  <2> QED
    BY <1>1, <1>3, <2>1 DEF WalkOK
<1>4. CASE UNCHANGED readVars /\ Elsewhere(ReadingOps)
  <2>1. \A j \in Jobs : task[j].op = "list" => walk'[j] = walk[j] /\ pc'[j] = pc[j]
    BY <1>4 DEF readVars, Elsewhere, ReadingOps
  <2> QED
    BY <1>1, <1>3, <1>4, <2>1 DEF WalksInv, readVars
<1>5. ASSUME NEW j \in Jobs, ReadingStep(j)
      PROVE  WalksInv'
  <2>1. \A i \in Jobs \ {j} : pc'[i] = pc[i]
    BY <1>5, ReadingMoves DEF Moves, PointsOK
  <2>2. CASE ListPage(j)
    <3>1. WalkOK(j)' /\ walk' = [walk EXCEPT ![j] = walk'[j]] /\ task[j].op = "list"
      BY <2>2, ListPageReads DEF ListPage
    <3>2. walk' = [i \in Jobs |-> walk'[i]] /\ \A i \in Jobs \ {j} : walk'[i] = walk[i]
      BY <1>2, <3>1
    <3>3. \A i \in Jobs : task[i].op = "list" => WalkOK(i)'
      BY <1>3, <2>1, <3>1, <3>2
    <3> QED
      BY <1>1, <3>1, <3>2, <3>3 DEF WalksInv
  <2>3. CASE ~ListPage(j)
    <3>1. walk' = walk /\ task[j].op # "list"
      BY <1>5, <2>3 DEF ReadingStep, ReadVectorLeg, ReadKeywordLeg, IsSearch
    <3>2. \A i \in Jobs : task[i].op = "list" => WalkOK(i)'
      BY <1>3, <2>1, <3>1
    <3> QED
      BY <1>1, <3>1, <3>2 DEF WalksInv
  <2> QED
    BY <2>2, <2>3
<1> QED
  BY <1>4, <1>5, ReadingFrame

\* The page a key belongs to.
LEMMA KeyHasItsPage ==
  ASSUME NEW l, NEW q, NEW pages, PagesOK(l, q, pages), pages # <<>>,
         Last(pages).next = BeforeAll, NEW k \in Nat
  PROVE  \E p \in DOMAIN pages :
           k > After(pages, p) /\ (pages[p].next = BeforeAll \/ k <= pages[p].next)
<1> DEFINE n == Len(pages)
           P == {p \in DOMAIN pages : pages[p].next = BeforeAll \/ k <= pages[p].next}
<1>1. PICK S : pages \in Seq(S)
  BY DEF PagesOK
<1>2. n \in Nat \ {0} /\ DOMAIN pages = 1..n /\ Last(pages) = pages[n]
  BY <1>1, EmptySeq DEF Last
<1> HIDE DEF n
<1>3. P \in SUBSET Nat /\ n \in P
  BY <1>2
<1>4. \A p \in DOMAIN pages : p \in P <=> pages[p].next = BeforeAll \/ k <= pages[p].next
  OBVIOUS
<1>5. P \subseteq DOMAIN pages
  OBVIOUS
<1> DEFINE p == Min(P)
<1> HIDE DEF P
<1>6. p \in P /\ \A x \in P : p <= x
  BY <1>3, MinIs
<1> HIDE DEF p
<1>7. k > After(pages, p)
  <2>1. CASE p = 1
    BY <2>1 DEF After, BeforeAll
  <2>2. CASE p # 1
    <3>1. p - 1 \in DOMAIN pages /\ ~(p <= p - 1) /\ After(pages, p) = pages[p - 1].next
      BY <2>2, <1>2, <1>5, <1>6 DEF After
    <3>2. pages[p - 1].next # BeforeAll /\ ~(k <= pages[p - 1].next)
      BY <3>1, <1>4, <1>6
    <3>3. pages[p - 1].next \in Nat
      BY <3>1, <3>2 DEF PagesOK, PageOK
    <3> QED
      BY <3>1, <3>2, <3>3
  <2> QED
    BY <2>1, <2>2
<1> QED
  BY <1>4, <1>5, <1>6, <1>7

\* No key lies on two pages, nor twice on one.
LEMMA KeysLieOnce ==
  ASSUME NEW l, NEW q, NEW pages, PagesOK(l, q, pages),
         \A i \in DOMAIN l : l[i].key \in Nat, DOMAIN l = 1..Len(l), Len(l) \in Nat,
         NEW p \in DOMAIN pages, NEW s \in DOMAIN pages[p].shown,
         NEW r \in DOMAIN pages, NEW t \in DOMAIN pages[r].shown,
         l[pages[p].shown[s]].key = l[pages[r].shown[t]].key
  PROVE  p = r /\ s = t
<1>1. ASSUME NEW x \in DOMAIN pages, NEW u \in DOMAIN pages[x].shown
      PROVE  /\ l[pages[x].shown[u]].key \in Nat /\ x \in Nat /\ u \in Nat
             /\ l[pages[x].shown[u]].key > After(pages, x)
             /\ pages[x].next # BeforeAll => l[pages[x].shown[u]].key <= pages[x].next
  <2>1. PageOK(l, q, After(pages, x), pages[x]) /\ \E S : pages \in Seq(S)
    BY DEF PagesOK
  <2>2. /\ Shows(l, q, After(pages, x), pages[x].shown[u], pages[x].at)
        /\ pages[x].at \in 0..Len(l) /\ pages[x].shown \in Seq(1..pages[x].at)
        /\ pages[x].next # BeforeAll => l[pages[x].shown[u]].key <= pages[x].next
    BY <2>1 DEF PageOK
  <2>3. pages[x].shown[u] \in DOMAIN l
    BY <2>2 DEF Shows
  <2>4. x \in Nat
    <3>1. PICK S : pages \in Seq(S)
      BY <2>1
    <3> QED
      BY <3>1
  <2>5. u \in Nat
    BY <2>2
  <2> QED
    BY <2>2, <2>3, <2>4, <2>5 DEF Shows
<1>2. ASSUME NEW x \in DOMAIN pages, NEW y \in DOMAIN pages, x < y,
             NEW u \in DOMAIN pages[x].shown, NEW v \in DOMAIN pages[y].shown
      PROVE  l[pages[x].shown[u]].key # l[pages[y].shown[v]].key
  <2> DEFINE a == l[pages[x].shown[u]].key
             b == l[pages[y].shown[v]].key
  <2>1. pages[x].next # BeforeAll /\ pages[x].next <= After(pages, y)
    BY <1>2 DEF PagesOK
  <2>2. a \in Nat /\ b \in Nat /\ a <= pages[x].next /\ b > After(pages, y)
    BY <1>1, <2>1
  <2>3. pages[x].next \in Nat
    BY <2>1 DEF PagesOK, PageOK
  <2>4. After(pages, y) \in Int
    <3>1. PICK S : pages \in Seq(S)
      BY DEF PagesOK
    <3>2. y # 1 /\ y - 1 \in DOMAIN pages
      BY <3>1, <1>2
    <3>3. After(pages, y) = pages[y - 1].next
      BY <3>2 DEF After
    <3> QED
      BY <3>2, <3>3 DEF PagesOK, PageOK, BeforeAll
  <2> HIDE DEF a, b
  <2>5. a # b
    BY <2>1, <2>2, <2>3, <2>4
  <2> QED
    BY <2>5 DEF a, b
<1>3. p \in Nat /\ r \in Nat /\ s \in Nat /\ t \in Nat
  BY <1>1
<1>4. p = r
  <2>1. ~(p < r) /\ ~(r < p)
    BY <1>2
  <2> QED
    BY <1>3, <2>1
<1>5. s = t
  <2>1. \A u, v \in DOMAIN pages[p].shown :
          u < v => l[pages[p].shown[u]].key < l[pages[p].shown[v]].key
    BY DEF PagesOK, PageOK
  <2>2. l[pages[p].shown[s]].key \in Nat /\ l[pages[p].shown[t]].key \in Nat
    BY <1>1, <1>4
  <2>3. ~(s < t) /\ ~(t < s)
    BY <1>4, <2>1, <2>2
  <2> QED
    BY <1>3, <2>3
<1> QED
  BY <1>4, <1>5

LEMMA PagesMakeAWalk ==
  ASSUME RowsInv, NEW j \in Jobs, task[j].op = "list", pc[j] = "done", WalkOK(j)
  PROVE  LET pages == walk[j]
             slots(k) == {s \in (DOMAIN pages) \X (1..task[j].limit) :
                            s[2] \in DOMAIN pages[s[1]].shown
                              /\ log[pages[s[1]].shown[s[2]]].key = k}
         IN \A k \in Keys :
              /\ Cardinality(slots(k)) <= 1
              /\ task[j].limit > 0
                   /\ (\A n \in pages[1].at..Last(pages).at : MatchesAt(task[j], k, n))
                   => slots(k) # {}
              /\ \A s \in slots(k) :
                   LET newest == LatestAt(k, pages[s[1]].at) IN
                   \/ pages[s[1]].shown[s[2]] = newest /\ MatchesAt(task[j], k, pages[s[1]].at)
                   \/ ~Matches(task[j], log[newest])
<1> DEFINE q == task[j]
           pages == walk[j]
           slots(k) == {s \in (DOMAIN pages) \X (1..q.limit) :
                          s[2] \in DOMAIN pages[s[1]].shown
                            /\ log[pages[s[1]].shown[s[2]]].key = k}
<1>1. PagesOK(log, q, pages) /\ pages # <<>> /\ Last(pages).next = BeforeAll
  BY DEF WalkOK
<1>2. Len(log) \in Nat /\ DOMAIN log = 1..Len(log) /\ q.limit \in Nat
  BY LogIsList, ListTasks
<1>3. \A i \in DOMAIN log : log[i].key \in Nat
  BY DEF RowsInv, RowShape
<1> HIDE DEF q, pages
<1>4. \A p \in DOMAIN pages : PageOK(log, q, After(pages, p), pages[p])
  BY <1>1 DEF PagesOK
<1> SUFFICES ASSUME NEW k \in Keys
             PROVE  /\ Cardinality(slots(k)) <= 1
                    /\ q.limit > 0
                         /\ (\A n \in pages[1].at..Last(pages).at : MatchesAt(q, k, n))
                         => slots(k) # {}
                    /\ \A s \in slots(k) :
                         LET newest == LatestAt(k, pages[s[1]].at) IN
                         \/ /\ pages[s[1]].shown[s[2]] = newest
                            /\ MatchesAt(q, k, pages[s[1]].at)
                         \/ ~Matches(q, log[newest])
  BY DEF q, pages
<1>5. \A s \in slots(k) :
        /\ s = <<s[1], s[2]>> /\ s[1] \in DOMAIN pages /\ s[2] \in DOMAIN pages[s[1]].shown
        /\ log[pages[s[1]].shown[s[2]]].key = k
  OBVIOUS
<1>6. \A p \in DOMAIN pages : \A s \in DOMAIN pages[p].shown :
        log[pages[p].shown[s]].key = k => <<p, s>> \in slots(k)
  <2> SUFFICES ASSUME NEW p \in DOMAIN pages, NEW s \in DOMAIN pages[p].shown,
                      log[pages[p].shown[s]].key = k
               PROVE  <<p, s>> \in slots(k)
    OBVIOUS
  <2>1. pages[p].shown \in Seq(1..pages[p].at) /\ Len(pages[p].shown) <= q.limit
    BY <1>4 DEF PageOK
  <2>2. s \in 1..Len(pages[p].shown) /\ Len(pages[p].shown) \in Nat
    BY <2>1
  <2>3. s \in 1..q.limit
    BY <1>2, <2>1, <2>2
  <2> QED
    BY <2>3
<1> HIDE DEF slots
<1>7. \A s, t \in slots(k) : s = t
  <2> SUFFICES ASSUME NEW s \in slots(k), NEW t \in slots(k)
               PROVE  s = t
    OBVIOUS
  <2>1. s[1] = t[1] /\ s[2] = t[2]
    BY <1>1, <1>2, <1>3, <1>5, KeysLieOnce
  <2> QED
    BY <1>5, <2>1
<1>8. Cardinality(slots(k)) <= 1
  <2>1. CASE slots(k) = {}
    BY <2>1, FS_EmptySet
  <2>2. CASE slots(k) # {}
    <3>1. PICK s : slots(k) = {s}
      BY <1>7, <2>2
    <3>2. Cardinality({s}) = 1
      BY FS_Singleton
    <3>3. Cardinality(slots(k)) = 1
      BY <3>1, <3>2
    <3> QED
      BY <3>3
  <2> QED
    BY <2>1, <2>2
<1>9. PICK S : pages \in Seq(S)
  BY <1>1 DEF PagesOK
<1> DEFINE n == Len(pages)
<1>10. n \in Nat \ {0} /\ DOMAIN pages = 1..n /\ Last(pages) = pages[n]
  BY <1>1, <1>9, EmptySeq DEF Last
<1> HIDE DEF n
<1>11. ASSUME q.limit > 0, \A m \in pages[1].at..Last(pages).at : MatchesAt(q, k, m)
       PROVE  slots(k) # {}
  <2>1. k \in Nat
    BY EntriesAssumption DEF Keys, MetaKey, Plain, VerdictOf
  <2>2. PICK p \in DOMAIN pages :
          k > After(pages, p) /\ (pages[p].next = BeforeAll \/ k <= pages[p].next)
    BY <1>1, <2>1, KeyHasItsPage
  <2>3. \A x \in DOMAIN pages : pages[x].at \in Nat
    BY <1>2, <1>4 DEF PageOK
  <2>4. \A x, y \in DOMAIN pages : x < y => pages[x].at <= pages[y].at
    BY <1>1 DEF PagesOK
  <2>5. pages[p].at \in pages[1].at..pages[n].at
    <3>1. 1 \in DOMAIN pages /\ n \in DOMAIN pages /\ p \in Nat
      BY <1>10
    <3>2. p = 1 \/ 1 < p
      BY <1>10
    <3>3. p = n \/ p < n
      BY <1>10
    <3> QED
      BY <2>3, <2>4, <3>1, <3>2, <3>3
  <2>6. Wanted(log, q, k, pages[p].at)
    BY <1>10, <1>11, <2>5, WantedIsMatch
  <2>7. PICK s \in DOMAIN pages[p].shown : log[pages[p].shown[s]].key = k
    BY <1>4, <1>11, <2>2, <2>6 DEF PageOK
  <2> QED
    BY <1>6, <2>7
<1>12. ASSUME NEW s \in slots(k), NEW newest, newest = LatestAt(k, pages[s[1]].at),
              Matches(q, log[newest])
       PROVE  pages[s[1]].shown[s[2]] = newest /\ MatchesAt(q, k, pages[s[1]].at)
  <2> DEFINE i == pages[s[1]].shown[s[2]]
             m == pages[s[1]].at
  <2>1. Shows(log, q, After(pages, s[1]), i, m) /\ m \in Nat /\ log[i].key = k
    BY <1>2, <1>4, <1>5 DEF PageOK
  <2>2. /\ newest \in 0..m /\ (newest # 0 => log[newest].key = k)
        /\ \A x \in 1..m : log[x].key = k => x <= newest
    BY <1>12, <2>1, LatestAtIs
  <2> HIDE DEF i, m
  <2>3. i \in 1..m /\ i <= newest /\ newest # 0
    BY <2>1, <2>2 DEF Shows
  <2>4. newest <= i
    BY <1>12, <2>1, <2>2, <2>3 DEF Shows
  <2>5. i = newest
    BY <2>2, <2>3, <2>4
  <2> QED
    BY <1>12, <2>1, <2>3, <2>5 DEF MatchesAt, Shows, i, m
<1>13. \A s \in slots(k) :
         LET newest == LatestAt(k, pages[s[1]].at) IN
         \/ pages[s[1]].shown[s[2]] = newest /\ MatchesAt(q, k, pages[s[1]].at)
         \/ ~Matches(q, log[newest])
  BY <1>12
<1> QED
  BY <1>8, <1>11, <1>13

LEMMA WalksInvariant == Spec => []WalksInv
<1>1. PointsOK /\ KnowledgeInv /\ WalksInv /\ [Next]_vars => WalksInv'
  BY WalksStep DEF KnowledgeInv
<1> QED
  BY <1>1, InitWalks, KnowledgeInvariant, PTL DEF Spec

\* memory_list_page: a walk over the pages shows no key twice, misses none that
\* matched all the while, and shows of each what was its newest match.
THEOREM WalksAreFaithful == Spec => []WalkIsFaithful
<1>1. KnowledgeInv /\ WalksInv => WalkIsFaithful
  <2> SUFFICES ASSUME RowsInv, WalksInv
               PROVE  WalkIsFaithful
    BY DEF KnowledgeInv
  <2> QED
    BY PagesMakeAWalk DEF WalksInv, WalkIsFaithful
<1> QED
  BY <1>1, KnowledgeInvariant, WalksInvariant, PTL

-----------------------------------------------------------------------------
(* Bootstraps.                                                              *)

\* What session_bootstrap claims, of the log as it was when it looked.
RowIn(l, k, n) == l[LatestIn(l, k, n)]
LiveIn(l, k, n) == LatestIn(l, k, n) # 0 /\ IsLive(RowIn(l, k, n))
SourcesIn(l, k, n) == IF LiveIn(l, k, n) THEN RowIn(l, k, n).derived_from ELSE {}
TaintedIn(l, k, n) ==
    \/ LiveIn(l, k, n) /\ RowIn(l, k, n).quarantined
    \/ LiveIn(l, VerdictOf(k), n) /\ RowIn(l, VerdictOf(k), n).val = "stale"
VerifiedIn(l, t, k, n, time) ==
    /\ LiveIn(l, VerdictOf(k), n)
    /\ t[RowIn(l, VerdictOf(k), n).by].enabled
    /\ RowIn(l, VerdictOf(k), n).val # "unverifiable"
    /\ time <= RowIn(l, VerdictOf(k), n).at + Staleness
DescendsIn(l, k, n) ==
    \A T \in SUBSET Plain :
        SourcesIn(l, k, n) \subseteq T /\ (\A b \in T : SourcesIn(l, b, n) \subseteq T)
        => \E a \in T : TaintedIn(l, a, n)
UnverifiedIn(l, t, n, time) ==
    {k \in Plain : /\ LiveIn(l, k, n) /\ RowIn(l, k, n).kind = "claim"
                   /\ ~VerifiedIn(l, t, k, n, time)}
DescendantsIn(l, n) == {k \in Plain : LiveIn(l, k, n) /\ DescendsIn(l, k, n)}
HealthOK(l, t, r) ==
    /\ r.needs = Cut(UnverifiedIn(l, t, r.at, r.time))
    /\ r.tainted = Cut(DescendantsIn(l, r.at))

HandoffIn(l, i) == l[i].kind = "handoff" /\ IsLive(l[i]) /\ ~l[i].quarantined
BeforeIn(l, k, n) ==
    {k2 \in Keys : k2 < k /\ \E i \in 1..n : l[i].key = k2 /\ HandoffIn(l, i)}
BatonsOK(l, r) ==
    /\ \A k \in Plain :
         LET i == LatestIn(l, k, r.looked) IN
         i # 0 /\ HandoffIn(l, i) /\ ~l[i].meta.consumed
         => i \in r.batons \/ Cardinality(BeforeIn(l, k, r.looked)) >= BatonLimit
    /\ \A i \in r.batons :
         /\ i \in 1..r.looked /\ HandoffIn(l, i) /\ ~l[i].meta.consumed
         /\ \A i2 \in 1..r.looked :
              i2 > i /\ l[i2].key = l[i].key => l[i2].kind # "handoff"

LEMMA LivesStay ==
  ASSUME NEW l, NEW m, Grown(l, m), NEW n \in 0..Len(l), NEW k
  PROVE  /\ LatestIn(m, k, n) = LatestIn(l, k, n)
         /\ LiveIn(m, k, n) = LiveIn(l, k, n)
         /\ LiveIn(l, k, n) => RowIn(m, k, n) = RowIn(l, k, n)
<1>1. LatestIn(m, k, n) = LatestIn(l, k, n)
  BY LatestInStays
<1>2. LatestIn(l, k, n) \in 0..n /\ n \in Nat
  BY LatestInIs DEF Grown
<1>3. LatestIn(l, k, n) # 0 => m[LatestIn(l, k, n)] = l[LatestIn(l, k, n)]
  BY <1>2 DEF Grown
<1> QED
  BY <1>1, <1>3 DEF LiveIn, RowIn

LEMMA HealthStays ==
  ASSUME NEW l, NEW m, Grown(l, m), NEW t, NEW r, r.at \in 0..Len(l), HealthOK(l, t, r)
  PROVE  HealthOK(m, t, r)
<1> DEFINE n == r.at
<1>1. \A k : /\ LiveIn(m, k, n) = LiveIn(l, k, n)
             /\ LiveIn(l, k, n) => RowIn(m, k, n) = RowIn(l, k, n)
  BY LivesStay
<1> HIDE DEF n
<1>2. \A k : SourcesIn(m, k, n) = SourcesIn(l, k, n)
  BY <1>1 DEF SourcesIn
<1>3. \A k : TaintedIn(m, k, n) <=> TaintedIn(l, k, n)
  BY <1>1 DEF TaintedIn
<1>4. \A k : DescendsIn(m, k, n) <=> DescendsIn(l, k, n)
  BY <1>2, <1>3 DEF DescendsIn
<1>5. \A k : VerifiedIn(m, t, k, n, r.time) <=> VerifiedIn(l, t, k, n, r.time)
  BY <1>1 DEF VerifiedIn
<1>6. UnverifiedIn(m, t, n, r.time) = UnverifiedIn(l, t, n, r.time)
  BY <1>1, <1>5 DEF UnverifiedIn
<1>7. DescendantsIn(m, n) = DescendantsIn(l, n)
  BY <1>1, <1>4 DEF DescendantsIn
<1> QED
  BY <1>6, <1>7 DEF HealthOK, n

LEMMA BatonsStay ==
  ASSUME NEW l, NEW m, Grown(l, m), NEW r, r.looked \in 0..Len(l), BatonsOK(l, r)
  PROVE  BatonsOK(m, r)
<1> DEFINE n == r.looked
<1>1. n \in 0..Len(l) /\ Len(l) \in Nat
  BY DEF Grown
<1>2. \A k : LatestIn(m, k, n) = LatestIn(l, k, n) /\ LatestIn(l, k, n) \in 0..n
  BY <1>1, LivesStay, LatestInIs
<1>3. \A i \in 1..n : m[i] = l[i]
  BY <1>1 DEF Grown
<1> HIDE DEF n
<1>4. \A i \in 1..n : HandoffIn(m, i) <=> HandoffIn(l, i)
  BY <1>3 DEF HandoffIn
<1>5. \A k : BeforeIn(m, k, n) = BeforeIn(l, k, n)
  BY <1>3, <1>4 DEF BeforeIn
<1>6. ASSUME NEW k \in Plain, NEW i, i = LatestIn(m, k, n), i # 0,
             HandoffIn(m, i), ~m[i].meta.consumed
      PROVE  i \in r.batons \/ Cardinality(BeforeIn(m, k, n)) >= BatonLimit
  <2>1. i \in 1..n /\ i = LatestIn(l, k, n)
    BY <1>1, <1>2, <1>6
  <2>2. HandoffIn(l, i) /\ ~l[i].meta.consumed
    BY <1>3, <1>4, <1>6, <2>1
  <2> QED
    BY <1>5, <1>6, <2>1, <2>2 DEF BatonsOK, n
<1>7. ASSUME NEW i \in r.batons
      PROVE  /\ i \in 1..n /\ HandoffIn(m, i) /\ ~m[i].meta.consumed
             /\ \A i2 \in 1..n : i2 > i /\ m[i2].key = m[i].key => m[i2].kind # "handoff"
  <2>1. /\ i \in 1..n /\ HandoffIn(l, i) /\ ~l[i].meta.consumed
        /\ \A i2 \in 1..n : i2 > i /\ l[i2].key = l[i].key => l[i2].kind # "handoff"
    BY DEF BatonsOK, n
  <2> QED
    BY <1>3, <1>4, <2>1
<1> QED
  BY <1>6, <1>7 DEF BatonsOK, n

\* The search up from a key stops after as many rounds as there are keys: what
\* it has found by then holds the sources of all it holds, and nothing else does
\* that is less.
LEMMA AncestorsAre ==
  ASSUME NEW k \in Plain, \A p \in Plain : Parents(p) \in SUBSET Plain
  PROVE  /\ Ancestors(k) \in SUBSET Plain /\ Parents(k) \subseteq Ancestors(k)
         /\ \A b \in Ancestors(k) : Parents(b) \subseteq Ancestors(k)
         /\ \A T \in SUBSET Plain :
              Parents(k) \subseteq T /\ (\A b \in T : Parents(b) \subseteq T)
              => Ancestors(k) \subseteq T
<1> DEFINE F == [s \in SUBSET Plain |-> s \cup UNION {Parents(p) : p \in s}]
<1>1. \A s \in SUBSET Plain : F[s] \in SUBSET Plain
  OBVIOUS
<1>2. \A s \in SUBSET Plain : F[s] = s \cup UNION {Parents(p) : p \in s}
  OBVIOUS
<1> HIDE DEF F
<1>3. PICK g \in [Nat -> SUBSET Plain] : g[0] = Parents(k) /\ \A n \in Nat : g[n + 1] = F[g[n]]
  <2> DEFINE T == SUBSET Plain
             b == Parents(k)
  <2>1. b \in T /\ \A t \in T : F[t] \in T
    BY <1>1
  <2> HIDE DEF T, b
  <2>2. \E g \in [Nat -> T] : g[0] = b /\ \A n \in Nat : g[n + 1] = F[g[n]]
    BY <2>1, NatRecursion
  <2> QED
    BY <2>2 DEF T, b
<1>4. g = [n \in Nat |-> IF n = 0 THEN Parents(k)
                         ELSE g[n - 1] \cup UNION {Parents(p) : p \in g[n - 1]}]
  <2>1. ASSUME NEW n \in Nat, n # 0
        PROVE  g[n] = g[n - 1] \cup UNION {Parents(p) : p \in g[n - 1]}
    <3>1. n - 1 \in Nat /\ (n - 1) + 1 = n
      BY <2>1
    <3>2. g[n] = F[g[n - 1]] /\ g[n - 1] \in SUBSET Plain
      BY <1>3, <3>1
    <3> QED
      BY <1>2, <3>2
  <2> QED
    BY <1>3, <2>1
<1>5. \E up : /\ up = [n \in Nat |-> IF n = 0 THEN Parents(k)
                         ELSE up[n - 1] \cup UNION {Parents(p) : p \in up[n - 1]}]
              /\ Ancestors(k) = up[PlainKeys]
  BY <1>4 DEF Ancestors
<1>6. PICK up : /\ up = [n \in Nat |-> IF n = 0 THEN Parents(k)
                         ELSE up[n - 1] \cup UNION {Parents(p) : p \in up[n - 1]}]
                /\ Ancestors(k) = up[PlainKeys]
  BY <1>5
<1>7. up[0] = Parents(k) /\ \A n \in Nat : up[n + 1] = up[n] \cup UNION {Parents(p) : p \in up[n]}
  <2>1. up[0] = Parents(k)
    BY <1>6
  <2>2. ASSUME NEW n \in Nat
        PROVE  up[n + 1] = up[n] \cup UNION {Parents(p) : p \in up[n]}
    <3>1. n + 1 \in Nat /\ n + 1 # 0 /\ (n + 1) - 1 = n
      OBVIOUS
    <3>2. up[n + 1] = up[(n + 1) - 1] \cup UNION {Parents(p) : p \in up[(n + 1) - 1]}
      BY <1>6, <3>1
    <3> QED
      BY <3>1, <3>2
  <2> QED
    BY <2>1, <2>2
<1>8. PlainKeys \in Nat /\ IsFiniteSet(Plain) /\ Cardinality(Plain) = PlainKeys
  BY EntriesAssumption, FS_Interval DEF Plain
<1>9. \A n \in Nat : up[n] \in SUBSET Plain /\ Parents(k) \subseteq up[n]
  <2> DEFINE G == {n \in Nat : up[n] \in SUBSET Plain /\ Parents(k) \subseteq up[n]}
  <2>1. 0 \in G
    BY <1>7
  <2>2. \A n \in Nat : n \in G => n + 1 \in G
    BY <1>7
  <2>3. Nat \subseteq G
    <3> HIDE DEF G
    <3> QED
      BY <2>1, <2>2, NatsAreIn
  <2> QED
    BY <2>3
<1> DEFINE Closed(T) == \A b \in T : Parents(b) \subseteq T
<1>10. \A n \in Nat : Closed(up[n]) \/ Cardinality(up[n]) >= n
  <2> DEFINE G == {n \in Nat : Closed(up[n]) \/ Cardinality(up[n]) >= n}
  <2>0. \A n \in Nat : IsFiniteSet(up[n]) /\ Cardinality(up[n]) \in Nat
    BY <1>8, <1>9, FS_Subset, FS_CardinalityType
  <2>1. 0 \in G
    BY <2>0
  <2>2. ASSUME NEW n \in Nat, n \in G
        PROVE  n + 1 \in G
    <3>1. CASE Closed(up[n])
      <4>1. UNION {Parents(p) : p \in up[n]} \subseteq up[n]
        BY <3>1
      <4>2. up[n + 1] = up[n] \cup UNION {Parents(p) : p \in up[n]} /\ n + 1 \in Nat
        BY <1>7
      <4>3. up[n + 1] = up[n]
        BY <4>1, <4>2
      <4> QED
        BY <3>1, <4>2, <4>3
    <3>2. CASE ~Closed(up[n])
      <4>1. Cardinality(up[n]) >= n
        BY <2>2, <3>2
      <4>2. up[n] \subseteq up[n + 1] /\ up[n] # up[n + 1]
        BY <1>7, <3>2
      <4>3. n + 1 \in Nat
        OBVIOUS
      <4>4. /\ Cardinality(up[n]) <= Cardinality(up[n + 1])
            /\ Cardinality(up[n]) # Cardinality(up[n + 1])
        BY <2>0, <4>2, <4>3, FS_Subset
      <4>5. Cardinality(up[n + 1]) >= n + 1
        BY <2>0, <4>1, <4>3, <4>4
      <4> QED
        BY <4>3, <4>5
    <3> QED
      BY <3>1, <3>2
  <2>3. Nat \subseteq G
    <3> HIDE DEF G
    <3> QED
      BY <2>1, <2>2, NatsAreIn
  <2> QED
    BY <2>3
<1>11. Closed(up[PlainKeys])
  <2>1. CASE Cardinality(up[PlainKeys]) >= PlainKeys
    <3>1. /\ up[PlainKeys] \subseteq Plain
          /\ Cardinality(up[PlainKeys]) <= Cardinality(Plain)
          /\ Cardinality(up[PlainKeys]) = Cardinality(Plain) => up[PlainKeys] = Plain
      BY <1>8, <1>9, FS_Subset
    <3>2. Cardinality(up[PlainKeys]) \in Nat
      BY <1>8, <1>9, FS_Subset, FS_CardinalityType
    <3>3. up[PlainKeys] = Plain
      BY <1>8, <2>1, <3>1, <3>2
    <3> QED
      BY <3>3
  <2> QED
    BY <1>8, <1>10, <2>1
<1>12. ASSUME NEW T \in SUBSET Plain, Parents(k) \subseteq T, Closed(T)
       PROVE  up[PlainKeys] \subseteq T
  <2> DEFINE G == {n \in Nat : up[n] \subseteq T}
  <2>1. 0 \in G
    BY <1>7, <1>12
  <2>2. \A n \in Nat : n \in G => n + 1 \in G
    BY <1>7, <1>12
  <2>3. Nat \subseteq G
    <3> HIDE DEF G
    <3> QED
      BY <2>1, <2>2, NatsAreIn
  <2> QED
    BY <1>8, <2>3
<1> QED
  BY <1>6, <1>8, <1>9, <1>11, <1>12

\* The entries coord_health reads are those that are live when it reads.
LEMMA LiveKeysAre ==
  ASSUME RowsInv, NEW k \in Nat \ {MetaKey}
  PROVE  /\ RowOf(k) = RowIn(log, k, Len(log))
         /\ k \in LiveKeys <=> LiveIn(log, k, Len(log))
<1> DEFINE i == LatestIn(log, k, Len(log))
<1>1. Len(log) \in Nat /\ DOMAIN log = 1..Len(log)
  BY LogIsList
<1>2. /\ i \in 0..Len(log) /\ (i # 0 => log[i].key = k)
      /\ \A n \in 1..Len(log) : log[n].key = k => n <= i
  BY <1>1, LatestInIs
<1>3. RowOf(k) = log[i]
  BY LatestAtIsIn DEF RowOf, Latest
<1> HIDE DEF i
<1>4. ASSUME i # 0, IsLive(log[i])
      PROVE  k \in LiveKeys
  <2>1. i \in DOMAIN log /\ log[i].key = k /\ log[i].key # MetaKey
    BY <1>1, <1>2, <1>4
  <2>2. i \in DistinctOn(DOMAIN log)
    BY <1>1, <1>2, <2>1 DEF DistinctOn
  <2>3. i \in LiveRows
    BY <1>4, <2>1, <2>2 DEF LiveRows
  <2> QED
    BY <2>1, <2>3 DEF LiveKeys
<1>5. ASSUME k \in LiveKeys
      PROVE  i # 0 /\ IsLive(log[i])
  <2>1. PICK n \in LiveRows : log[n].key = k
    BY <1>5 DEF LiveKeys
  <2>2. /\ n \in DOMAIN log /\ IsLive(log[n])
        /\ \A x \in DOMAIN log : log[x].key = log[n].key => x <= n
    BY <2>1 DEF LiveRows, DistinctOn
  <2>3. n <= i /\ n \in Nat /\ n # 0
    BY <1>1, <1>2, <2>1, <2>2
  <2>4. i # 0 /\ i \in DOMAIN log /\ log[i].key = k
    BY <1>1, <1>2, <2>3
  <2>5. i <= n
    BY <2>1, <2>2, <2>4
  <2>6. i = n
    BY <1>1, <1>2, <2>3, <2>5
  <2> QED
    BY <2>2, <2>4, <2>6
<1> QED
  BY <1>3, <1>4, <1>5 DEF RowIn, LiveIn, i

LEMMA VerdictKeys ==
  ASSUME NEW k \in Plain
  PROVE  /\ k \in Nat \ {MetaKey} /\ VerdictOf(k) \in Nat \ {MetaKey}
         /\ VerdictOf(k) > PlainKeys
BY EntriesAssumption DEF Plain, MetaKey, VerdictOf

\* An entry descends from a tainted one as the search finds it.
LEMMA LineageIsRead ==
  ASSUME RowsInv, NEW k \in Plain
  PROVE  k \in TaintedLineage <=>
           LiveIn(log, k, Len(log)) /\ DescendsIn(log, k, Len(log))
<1> DEFINE n == Len(log)
<1>1. \A p \in Plain : /\ RowOf(p) = RowIn(log, p, n)
                       /\ p \in LiveKeys <=> LiveIn(log, p, n)
                       /\ RowOf(VerdictOf(p)) = RowIn(log, VerdictOf(p), n)
                       /\ VerdictOf(p) \in LiveKeys <=> LiveIn(log, VerdictOf(p), n)
  BY LiveKeysAre, VerdictKeys
<1>2. n \in Nat /\ DOMAIN log = 1..n
  BY LogIsList
<1> HIDE DEF n
<1>3. \A p \in Plain : Parents(p) = SourcesIn(log, p, n)
  BY <1>1 DEF Parents, SourcesIn
<1>4. \A p \in Plain : p \in TaintedRoots <=> TaintedIn(log, p, n)
  BY <1>1 DEF TaintedRoots, TaintedIn
<1>5. \A p \in Plain : Parents(p) \in SUBSET Plain
  <2> SUFFICES ASSUME NEW p \in Plain, LiveIn(log, p, n)
               PROVE  RowIn(log, p, n).derived_from \subseteq Plain
    BY <1>3 DEF SourcesIn
  <2>1. LatestIn(log, p, n) \in 0..n /\ LatestIn(log, p, n) # 0
    BY <1>2, LatestInIs DEF LiveIn
  <2>2. LatestIn(log, p, n) \in DOMAIN log
    BY <1>2, <2>1
  <2> QED
    BY <2>2 DEF RowsInv, RowShape, RowIn
<1>6. /\ Ancestors(k) \in SUBSET Plain /\ Parents(k) \subseteq Ancestors(k)
      /\ \A b \in Ancestors(k) : Parents(b) \subseteq Ancestors(k)
      /\ \A T \in SUBSET Plain :
           Parents(k) \subseteq T /\ (\A b \in T : Parents(b) \subseteq T)
           => Ancestors(k) \subseteq T
  BY <1>5, AncestorsAre
<1>7. ASSUME NEW a \in Ancestors(k) \cap TaintedRoots
      PROVE  DescendsIn(log, k, n)
  <2> SUFFICES ASSUME NEW T \in SUBSET Plain, SourcesIn(log, k, n) \subseteq T,
                      \A b \in T : SourcesIn(log, b, n) \subseteq T
               PROVE  a \in T /\ TaintedIn(log, a, n)
    BY DEF DescendsIn
  <2>1. \A b \in T : Parents(b) \subseteq T
    BY <1>3
  <2>2. Parents(k) \subseteq T
    BY <1>3
  <2>3. Ancestors(k) \subseteq T
    BY <1>6, <2>1, <2>2
  <2> QED
    BY <1>4, <1>6, <1>7, <2>3
<1>8. ASSUME DescendsIn(log, k, n)
      PROVE  Ancestors(k) \cap TaintedRoots # {}
  <2>1. SourcesIn(log, k, n) \subseteq Ancestors(k)
    BY <1>3, <1>6
  <2>2. \A b \in Ancestors(k) : SourcesIn(log, b, n) \subseteq Ancestors(k)
    BY <1>3, <1>6
  <2>3. \E a \in Ancestors(k) : TaintedIn(log, a, n)
    BY <1>6, <1>8, <2>1, <2>2 DEF DescendsIn
  <2> QED
    BY <1>4, <1>6, <2>3
<1>9. k \in TaintedLineage <=> k \in LiveKeys /\ Ancestors(k) \cap TaintedRoots # {}
  BY DEF TaintedLineage
<1> QED
  BY <1>1, <1>7, <1>8, <1>9 DEF n

LEMMA HealthIsRead ==
  ASSUME RowsInv, VerdictsInv, NEW r, r.at = Len(log), r.time = now,
         r.needs = Cut(NeedsReverification), r.tainted = Cut(TaintedLineage)
  PROVE  HealthOK(log, task, r)
<1> DEFINE n == Len(log)
<1>1. ASSUME NEW k \in Plain
      PROVE  k \in NeedsReverification <=> k \in UnverifiedIn(log, task, n, now)
  <2> DEFINE v == VerdictOf(k)
             b == LatestIn(log, v, n)
  <2>1. (k \in LiveKeys <=> LiveIn(log, k, n)) /\ RowOf(k) = RowIn(log, k, n)
    BY VerdictKeys, LiveKeysAre
  <2>2. /\ v \in LiveKeys <=> LiveIn(log, v, n)
        /\ RowOf(v) = RowIn(log, v, n) /\ v > PlainKeys
    BY VerdictKeys, LiveKeysAre
  <2>3. n \in Nat /\ DOMAIN log = 1..n
    BY LogIsList
  <2>4. b \in 0..n /\ (b # 0 => log[b].key = v)
    BY <2>3, LatestInIs
  <2> HIDE DEF n, v, b
  <2>5. ASSUME v \in LiveKeys
        PROVE  /\ RowOf(v).val # "unverifiable" => task[RowOf(v).by].enabled
               /\ now - RowOf(v).at > Staleness <=> ~(now <= RowOf(v).at + Staleness)
    <3>1. b # 0 /\ RowOf(v) = log[b]
      BY <2>2, <2>5 DEF LiveIn, RowIn, b
    <3>2. b \in DOMAIN log /\ log[b].key > PlainKeys
      BY <2>2, <2>3, <2>4, <3>1
    <3>3. log[b].at \in Nat /\ now \in Nat /\ Staleness \in Nat
      BY <3>2, ClaimsAssumption DEF RowsInv
    <3> QED
      BY <3>1, <3>2, <3>3 DEF VerdictsInv, VerdictOK
  <2>6. VerifiedIn(log, task, k, n, now) <=>
          /\ v \in LiveKeys
          /\ task[RowOf(v).by].enabled
          /\ RowOf(v).val # "unverifiable"
          /\ now <= RowOf(v).at + Staleness
    BY <2>2 DEF VerifiedIn, v
  <2>7. k \in NeedsReverification <=>
          /\ k \in LiveKeys /\ RowOf(k).kind = "claim"
          /\ \/ v \notin LiveKeys
             \/ RowOf(v).val = "unverifiable"
             \/ now - RowOf(v).at > Staleness
    BY DEF NeedsReverification, LiveClaims, v
  <2> QED
    BY <2>1, <2>5, <2>6, <2>7 DEF UnverifiedIn
<1>2. NeedsReverification = UnverifiedIn(log, task, n, now)
  BY <1>1 DEF NeedsReverification, LiveClaims, UnverifiedIn
<1>3. TaintedLineage = DescendantsIn(log, n)
  BY LineageIsRead DEF TaintedLineage, DescendantsIn
<1> QED
  BY <1>2, <1>3 DEF HealthOK

\* What the limit leaves of the handoffs misses those only that have as many
\* keys of handoffs before their own.
LEMMA BatonsAreRead ==
  ASSUME RowsInv, NEW r, r.looked = Len(log), r.batons = PendingBatons
  PROVE  BatonsOK(log, r)
<1> DEFINE n == Len(log)
           H == {i \in DistinctOn({x \in DOMAIN log : log[x].kind = "handoff"}) :
                   IsLive(log[i]) /\ ~log[i].quarantined}
           Ahead(k) == {k2 \in {log[x].key : x \in H} : k2 < k}
<1>1. n \in Nat /\ DOMAIN log = 1..n
  BY LogIsList
<1>2. \A i : i \in PendingBatons <=>
        i \in H /\ Cardinality(Ahead(log[i].key)) < BatonLimit /\ ~log[i].meta.consumed
  BY DEF PendingBatons, FirstByKey
<1>3. \A i : i \in H <=>
        /\ i \in 1..n /\ HandoffIn(log, i)
        /\ \A i2 \in 1..n : log[i2].kind = "handoff" /\ log[i2].key = log[i].key => i2 <= i
  BY <1>1 DEF DistinctOn, HandoffIn
<1> HIDE DEF n, H
<1>4. ASSUME NEW i \in r.batons
      PROVE  /\ i \in 1..n /\ HandoffIn(log, i) /\ ~log[i].meta.consumed
             /\ \A i2 \in 1..n : i2 > i /\ log[i2].key = log[i].key => log[i2].kind # "handoff"
  <2>1. i \in H /\ ~log[i].meta.consumed
    BY <1>2
  <2> QED
    BY <1>1, <1>3, <2>1
<1>5. ASSUME NEW k \in Plain, NEW i, i = LatestIn(log, k, n), i # 0,
             HandoffIn(log, i), ~log[i].meta.consumed, i \notin r.batons
      PROVE  Cardinality(BeforeIn(log, k, n)) >= BatonLimit
  <2>1. /\ i \in 1..n /\ log[i].key = k
        /\ \A i2 \in 1..n : log[i2].key = k => i2 <= i
    BY <1>1, <1>5, LatestInIs DEF n
  <2>2. i \in H
    BY <1>3, <1>5, <2>1
  <2>3. ~(Cardinality(Ahead(k)) < BatonLimit)
    BY <1>2, <1>5, <2>1, <2>2
  <2>4. Ahead(k) \subseteq BeforeIn(log, k, n)
    <3> SUFFICES ASSUME NEW x \in H, log[x].key < k
                 PROVE  log[x].key \in BeforeIn(log, k, n)
      OBVIOUS
    <3>1. x \in 1..n /\ HandoffIn(log, x)
      BY <1>3
    <3>2. x \in DOMAIN log
      BY <1>1, <3>1
    <3>3. log[x].key \in Keys
      BY <3>2 DEF RowsInv, RowShape
    <3> QED
      BY <3>1, <3>3 DEF BeforeIn
  <2>5. IsFiniteSet(BeforeIn(log, k, n))
    <3>1. Keys \subseteq Nat /\ k \in Nat
      BY EntriesAssumption DEF Keys, MetaKey, Plain, VerdictOf
    <3>2. IsFiniteSet(0..k)
      BY <3>1, FS_Interval
    <3>3. \A k2 \in BeforeIn(log, k, n) : k2 \in Nat /\ k2 < k
      BY <3>1 DEF BeforeIn
    <3>4. BeforeIn(log, k, n) \subseteq 0..k
      BY <3>1, <3>3
    <3> QED
      BY <3>2, <3>4, FS_Subset
  <2>6. /\ Cardinality(Ahead(k)) \in Nat /\ Cardinality(BeforeIn(log, k, n)) \in Nat
        /\ Cardinality(Ahead(k)) <= Cardinality(BeforeIn(log, k, n))
    BY <2>4, <2>5, FS_Subset, FS_CardinalityType
  <2> QED
    BY <2>3, <2>6, ClaimsAssumption
<1> QED
  BY <1>4, <1>5 DEF BatonsOK, n

\* What a bootstrap holds at each of its points.
ReportOK(j) ==
    LET r == report[j]
        looked == "coord_health" \in r.degraded \/ HealthOK(log, task, r)
        listed == "pending_batons" \in r.degraded \/ BatonsOK(log, r)
    IN /\ pc[j] \in {"batons", "session"} => looked
       /\ pc[j] = "session" => listed
       /\ pc[j] = "done" => "session_create" \in r.degraded \/ (looked /\ listed)

ReportsInv ==
    /\ report = [j \in Jobs |-> report[j]]
    /\ \A j \in Jobs :
         /\ DOMAIN report[j] = DOMAIN NoReport
         /\ report[j].at \in 0..Len(log) /\ report[j].looked \in 0..Len(log)
    /\ \A j \in Jobs : task[j].op = "bootstrap" => ReportOK(j)

LEMMA ReportFields ==
  DOMAIN NoReport = {"at", "time", "degraded", "entries", "quarantined", "needs", "tainted",
                     "stale", "duplicates", "batons", "looked"}
BY DEF NoReport

LEMMA InitReports == Init => ReportsInv
<1> SUFFICES ASSUME Init
             PROVE  ReportsInv
  OBVIOUS
<1>1. LogOK
  BY InitNamespaces
<1>2. Len(log) \in Nat
  BY <1>1 DEF LogOK
<1>3. report = [j \in Jobs |-> NoReport] /\ pc = [j \in Jobs |-> "idle"]
  BY DEF Init, ClaimsInit, EntriesInit
<1>4. NoReport.at = 0 /\ NoReport.looked = 0
  BY DEF NoReport
<1>5. \A j \in Jobs : ReportOK(j)
  BY <1>3 DEF ReportOK
<1> QED
  BY <1>2, <1>3, <1>4, <1>5 DEF ReportsInv

\* A report that is not touched stays what it was.
LEMMA ReportStays ==
  ASSUME PointsOK, RowsInv, ReportsInv, [Next]_vars, NEW j \in Jobs, report'[j] = report[j]
  PROVE  /\ DOMAIN report'[j] = DOMAIN NoReport
         /\ report'[j].at \in 0..Len(log') /\ report'[j].looked \in 0..Len(log')
         /\ HealthOK(log, task, report[j]) => HealthOK(log', task', report'[j])
         /\ BatonsOK(log, report[j]) => BatonsOK(log', report'[j])
         /\ pc'[j] = pc[j] /\ task[j].op = "bootstrap" => ReportOK(j)'
<1> DEFINE r == report[j]
<1>1. Grown(log, log') /\ task' = task
  BY LogIsGrown, TaskStays
<1>2. DOMAIN r = DOMAIN NoReport /\ r.at \in 0..Len(log) /\ r.looked \in 0..Len(log)
  BY DEF ReportsInv
<1>3. r.at \in 0..Len(log') /\ r.looked \in 0..Len(log')
  BY <1>1, <1>2 DEF Grown
<1>4. HealthOK(log, task, r) => HealthOK(log', task, r)
  BY <1>1, <1>2, HealthStays
<1>5. BatonsOK(log, r) => BatonsOK(log', r)
  BY <1>1, <1>2, BatonsStay
<1>6. pc'[j] = pc[j] /\ task[j].op = "bootstrap" => ReportOK(j)'
  BY <1>1, <1>4, <1>5 DEF ReportsInv, ReportOK
<1> QED
  BY <1>1, <1>2, <1>3, <1>4, <1>5, <1>6

LEMMA HealthReports ==
  ASSUME NEW j \in Jobs, PointsOK, RowsInv, VerdictsInv, ReportsInv, BootstrapHealth(j)
  PROVE  /\ report' = [report EXCEPT ![j] = report'[j]]
         /\ DOMAIN report'[j] = DOMAIN NoReport
         /\ report'[j].at \in 0..Len(log') /\ report'[j].looked \in 0..Len(log')
         /\ ReportOK(j)'
<1> DEFINE r == report[j]
<1>1. /\ report = [i \in Jobs |-> report[i]] /\ DOMAIN r = DOMAIN NoReport
      /\ r.at \in 0..Len(log) /\ r.looked \in 0..Len(log)
  BY DEF ReportsInv
<1>2. log' = log /\ task' = task /\ pc'[j] = "batons" /\ Len(log) \in Nat
  BY LogIsList DEF BootstrapHealth, Degrade, Goto, PointsOK
<1>3. CASE report' = [report EXCEPT ![j].degraded = @ \cup {"coord_health"}]
  <2>1. /\ report'[j] = [r EXCEPT !.degraded = r.degraded \cup {"coord_health"}]
        /\ report' = [report EXCEPT ![j] = report'[j]]
    BY <1>1, <1>3
  <2> HIDE DEF r
  <2>2. /\ DOMAIN report'[j] = DOMAIN NoReport /\ report'[j].at = r.at
        /\ report'[j].looked = r.looked /\ "coord_health" \in report'[j].degraded
    BY <1>1, <2>1, ReportFields
  <2> QED
    BY <1>1, <1>2, <2>1, <2>2 DEF ReportOK
<1>4. CASE report' = [report EXCEPT ![j] =
               [@ EXCEPT !.at = Len(log), !.time = now,
                  !.entries = Cardinality(LiveRows),
                  !.quarantined = Cardinality({i \in LiveRows : log[i].quarantined}),
                  !.needs = Cut(NeedsReverification), !.tainted = Cut(TaintedLineage),
                  !.stale = Cut(StaleEntries), !.duplicates = Cut(Duplicates)]]
  <2>1. /\ report'[j] = [r EXCEPT !.at = Len(log), !.time = now,
                  !.entries = Cardinality(LiveRows),
                  !.quarantined = Cardinality({i \in LiveRows : log[i].quarantined}),
                  !.needs = Cut(NeedsReverification), !.tainted = Cut(TaintedLineage),
                  !.stale = Cut(StaleEntries), !.duplicates = Cut(Duplicates)]
        /\ report' = [report EXCEPT ![j] = report'[j]]
    BY <1>1, <1>4
  <2> HIDE DEF r
  <2>2. /\ DOMAIN report'[j] = DOMAIN NoReport /\ report'[j].at = Len(log)
        /\ report'[j].time = now /\ report'[j].looked = r.looked
        /\ report'[j].needs = Cut(NeedsReverification)
        /\ report'[j].tainted = Cut(TaintedLineage)
    BY <1>1, <2>1, ReportFields
  <2>3. HealthOK(log, task, report'[j])
    BY <2>2, HealthIsRead
  <2> QED
    BY <1>1, <1>2, <2>1, <2>2, <2>3 DEF ReportOK
<1> QED
  BY <1>3, <1>4 DEF BootstrapHealth, Degrade

LEMMA BatonsReport ==
  ASSUME NEW j \in Jobs, PointsOK, RowsInv, ReportsInv, BootstrapBatons(j)
  PROVE  /\ report' = [report EXCEPT ![j] = report'[j]]
         /\ DOMAIN report'[j] = DOMAIN NoReport
         /\ report'[j].at \in 0..Len(log') /\ report'[j].looked \in 0..Len(log')
         /\ task[j].op = "bootstrap" => ReportOK(j)'
<1> DEFINE r == report[j]
<1>1. /\ report = [i \in Jobs |-> report[i]] /\ DOMAIN r = DOMAIN NoReport
      /\ r.at \in 0..Len(log) /\ r.looked \in 0..Len(log)
      /\ task[j].op = "bootstrap" => "coord_health" \in r.degraded \/ HealthOK(log, task, r)
  BY DEF ReportsInv, ReportOK, BootstrapBatons
<1>2. log' = log /\ task' = task /\ pc'[j] = "session" /\ Len(log) \in Nat
  BY LogIsList DEF BootstrapBatons, Degrade, Goto, PointsOK
<1>3. CASE report' = [report EXCEPT ![j].degraded = @ \cup {"pending_batons"}]
  <2>1. /\ report'[j] = [r EXCEPT !.degraded = r.degraded \cup {"pending_batons"}]
        /\ report' = [report EXCEPT ![j] = report'[j]]
    BY <1>1, <1>3
  <2> HIDE DEF r
  <2>2. /\ DOMAIN report'[j] = DOMAIN NoReport /\ report'[j].at = r.at
        /\ report'[j].time = r.time /\ report'[j].needs = r.needs
        /\ report'[j].tainted = r.tainted /\ report'[j].looked = r.looked
        /\ report'[j].degraded = r.degraded \cup {"pending_batons"}
    BY <1>1, <2>1, ReportFields
  <2>3. HealthOK(log, task, r) => HealthOK(log, task, report'[j])
    BY <2>2 DEF HealthOK
  <2> QED
    BY <1>1, <1>2, <2>1, <2>2, <2>3 DEF ReportOK
<1>4. CASE report' = [report EXCEPT ![j].batons = PendingBatons, ![j].looked = Len(log)]
  <2>1. /\ report'[j] = [r EXCEPT !.batons = PendingBatons, !.looked = Len(log)]
        /\ report' = [report EXCEPT ![j] = report'[j]]
    BY <1>1, <1>4
  <2> HIDE DEF r
  <2>2. /\ DOMAIN report'[j] = DOMAIN NoReport /\ report'[j].at = r.at
        /\ report'[j].time = r.time /\ report'[j].needs = r.needs
        /\ report'[j].tainted = r.tainted /\ report'[j].degraded = r.degraded
        /\ report'[j].looked = Len(log) /\ report'[j].batons = PendingBatons
    BY <1>1, <2>1, ReportFields
  <2>3. HealthOK(log, task, r) => HealthOK(log, task, report'[j])
    BY <2>2 DEF HealthOK
  <2>4. BatonsOK(log, report'[j])
    BY <2>2, BatonsAreRead
  <2> QED
    BY <1>1, <1>2, <2>1, <2>2, <2>3, <2>4 DEF ReportOK
<1> QED
  BY <1>3, <1>4 DEF BootstrapBatons, Degrade

LEMMA SessionReports ==
  ASSUME NEW j \in Jobs, PointsOK, RowsInv, ReportsInv, BootstrapSession(j)
  PROVE  /\ report' = [report EXCEPT ![j] = report'[j]]
         /\ DOMAIN report'[j] = DOMAIN NoReport
         /\ report'[j].at \in 0..Len(log') /\ report'[j].looked \in 0..Len(log')
         /\ task[j].op = "bootstrap" => ReportOK(j)'
<1> DEFINE r == report[j]
<1>1. /\ report = [i \in Jobs |-> report[i]] /\ DOMAIN r = DOMAIN NoReport
      /\ r.at \in 0..Len(log) /\ r.looked \in 0..Len(log)
      /\ task[j].op = "bootstrap" =>
           /\ "coord_health" \in r.degraded \/ HealthOK(log, task, r)
           /\ "pending_batons" \in r.degraded \/ BatonsOK(log, r)
  BY DEF ReportsInv, ReportOK, BootstrapSession
<1>2. log' = log /\ task' = task /\ pc'[j] = "done" /\ Len(log) \in Nat
  BY LogIsList DEF BootstrapSession, Goto, PointsOK
<1>3. CASE UNCHANGED report
  BY <1>1, <1>2, <1>3 DEF ReportOK
<1>4. CASE report' = [report EXCEPT ![j] = [NoReport EXCEPT !.degraded = {"session_create"}]]
  <2> DEFINE s == [NoReport EXCEPT !.degraded = {"session_create"}]
  <2>1. /\ DOMAIN s = DOMAIN NoReport /\ s.at = 0 /\ s.looked = 0
        /\ "session_create" \in s.degraded
    BY ReportFields DEF NoReport
  <2> HIDE DEF s
  <2>2. report'[j] = s /\ report' = [report EXCEPT ![j] = report'[j]]
    BY <1>1, <1>4 DEF s
  <2> QED
    BY <1>2, <2>1, <2>2 DEF ReportOK
<1> QED
  BY <1>3, <1>4 DEF BootstrapSession

LEMMA ReportsStep ==
  ASSUME PointsOK, RowsInv, VerdictsInv, ReportsInv, [Next]_vars
  PROVE  ReportsInv'
<1>1. task' = task /\ report = [j \in Jobs |-> report[j]]
  BY TaskStays DEF ReportsInv
<1>2. CASE UNCHANGED claimVars /\ Elsewhere(ClaimsOps)
  <2>1. \A j \in Jobs : /\ report'[j] = report[j]
                        /\ task[j].op = "bootstrap" => pc'[j] = pc[j]
    BY <1>2 DEF claimVars, Elsewhere, ClaimsOps
  <2>2. report' = [j \in Jobs |-> report'[j]]
    BY <1>1, <1>2 DEF claimVars
  <2> QED
    BY <1>1, <2>1, <2>2, ReportStays DEF ReportsInv
<1>3. ASSUME NEW j \in Jobs, ClaimsStep(j)
      PROVE  ReportsInv'
  <2>1. \A i \in Jobs \ {j} : pc'[i] = pc[i]
    BY <1>3, ClaimsMoves DEF Moves, PointsOK
  <2>2. CASE BootstrapHealth(j) \/ BootstrapBatons(j) \/ BootstrapSession(j)
    <3>1. /\ report' = [report EXCEPT ![j] = report'[j]]
          /\ DOMAIN report'[j] = DOMAIN NoReport
          /\ report'[j].at \in 0..Len(log') /\ report'[j].looked \in 0..Len(log')
          /\ task[j].op = "bootstrap" => ReportOK(j)'
      BY <2>2, HealthReports, BatonsReport, SessionReports
    <3>2. report' = [i \in Jobs |-> report'[i]] /\ \A i \in Jobs \ {j} : report'[i] = report[i]
      BY <1>1, <3>1
    <3>3. ASSUME NEW i \in Jobs \ {j}
          PROVE  /\ DOMAIN report'[i] = DOMAIN NoReport
                 /\ report'[i].at \in 0..Len(log') /\ report'[i].looked \in 0..Len(log')
                 /\ task[i].op = "bootstrap" => ReportOK(i)'
      BY <2>1, <3>2, ReportStays
    <3> QED
      BY <1>1, <3>1, <3>2, <3>3 DEF ReportsInv
  <2>3. CASE ReadClaims(j) \/ Attest(j) \/ ResolveSubject(j) \/ SaveVerdict(j) \/ BreakPass(j)
    <3>1. report' = report
      BY <2>3 DEF ReadClaims, Attest, ResolveSubject, SaveVerdict, BreakPass
    <3>2. task[j].op # "bootstrap"
      BY <2>3 DEF ReadClaims, Attest, ResolveSubject, SaveVerdict, BreakPass, PointsOK, At
    <3> QED
      BY <1>1, <2>1, <3>1, <3>2, ReportStays DEF ReportsInv
  <2> QED
    BY <1>3, <2>2, <2>3 DEF ClaimsStep
<1> QED
  BY <1>2, <1>3, ClaimsFrame

\* session_bootstrap: a session that was opened is told how many claims are not
\* verified and how many entries tainted, as the log had it when it was looked at
\* and up to a limit, and the batons that are waiting among the handoffs a list is
\* cut to; or what was not looked at.
THEOREM BootstrapsAreCandid == Spec => []BootstrapIsCandid
<1>1. KnowledgeInv /\ ReportsInv => BootstrapIsCandid
  <2> SUFFICES ASSUME RowsInv, ReportsInv, NEW j \in Jobs,
                      task[j].op = "bootstrap", pc[j] = "done",
                      "session_create" \notin report[j].degraded
               PROVE  LET r == report[j]
                          row(k) == log[LatestAt(k, r.at)]
                          live(k) == LatestAt(k, r.at) # 0 /\ IsLive(row(k))
                          sources(k) == IF live(k) THEN row(k).derived_from ELSE {}
                          closed(T) == \A b \in T : sources(b) \subseteq T
                          tainted(k) == \/ live(k) /\ row(k).quarantined
                                        \/ live(VerdictOf(k)) /\ row(VerdictOf(k)).val = "stale"
                          verified(k) == /\ live(VerdictOf(k))
                                         /\ task[row(VerdictOf(k)).by].enabled
                                         /\ row(VerdictOf(k)).val # "unverifiable"
                                         /\ r.time <= row(VerdictOf(k)).at + Staleness
                          unverified == {k \in Plain : live(k) /\ row(k).kind = "claim" /\ ~verified(k)}
                          descendants == {k \in Plain : live(k) /\
                                            \A T \in SUBSET Plain :
                                              sources(k) \subseteq T /\ closed(T) => \E a \in T : tainted(a)}
                          handoff(i) == log[i].kind = "handoff" /\ IsLive(log[i]) /\ ~log[i].quarantined
                          before(k) == {k2 \in Keys : k2 < k /\
                                          \E i \in 1..r.looked : log[i].key = k2 /\ handoff(i)}
                      IN /\ \/ "coord_health" \in r.degraded
                            \/ /\ r.needs = Min({HealthLimit, Cardinality(unverified)})
                               /\ r.tainted = Min({HealthLimit, Cardinality(descendants)})
                         /\ \/ "pending_batons" \in r.degraded
                            \/ /\ \A k \in Plain :
                                    LET i == LatestAt(k, r.looked) IN
                                    i # 0 /\ handoff(i) /\ ~log[i].meta.consumed
                                    => i \in r.batons \/ Cardinality(before(k)) >= BatonLimit
                               /\ \A i \in r.batons :
                                    /\ i \in 1..r.looked /\ handoff(i) /\ ~log[i].meta.consumed
                                    /\ \A i2 \in 1..r.looked :
                                         i2 > i /\ log[i2].key = log[i].key
                                           => log[i2].kind # "handoff"
    BY DEF KnowledgeInv, BootstrapIsCandid
  <2> DEFINE r == report[j]
             row(k) == log[LatestAt(k, r.at)]
             live(k) == LatestAt(k, r.at) # 0 /\ IsLive(row(k))
             sources(k) == IF live(k) THEN row(k).derived_from ELSE {}
             closed(T) == \A b \in T : sources(b) \subseteq T
             tainted(k) == \/ live(k) /\ row(k).quarantined
                           \/ live(VerdictOf(k)) /\ row(VerdictOf(k)).val = "stale"
             verified(k) == /\ live(VerdictOf(k))
                            /\ task[row(VerdictOf(k)).by].enabled
                            /\ row(VerdictOf(k)).val # "unverifiable"
                            /\ r.time <= row(VerdictOf(k)).at + Staleness
             unverified == {k \in Plain : live(k) /\ row(k).kind = "claim" /\ ~verified(k)}
             descendants == {k \in Plain : live(k) /\
                               \A T \in SUBSET Plain :
                                 sources(k) \subseteq T /\ closed(T) => \E a \in T : tainted(a)}
             handoff(i) == log[i].kind = "handoff" /\ IsLive(log[i]) /\ ~log[i].quarantined
             before(k) == {k2 \in Keys : k2 < k /\
                             \E i \in 1..r.looked : log[i].key = k2 /\ handoff(i)}
  <2>1. /\ "coord_health" \in r.degraded \/ HealthOK(log, task, r)
        /\ "pending_batons" \in r.degraded \/ BatonsOK(log, r)
    BY DEF ReportsInv, ReportOK
  <2>2. \A k : row(k) = RowIn(log, k, r.at) /\ (live(k) <=> LiveIn(log, k, r.at))
    BY LatestAtIsIn DEF RowIn, LiveIn
  <2>3. \A k : LatestAt(k, r.looked) = LatestIn(log, k, r.looked)
    BY LatestAtIsIn
  <2>4. \A i : handoff(i) <=> HandoffIn(log, i)
    BY DEF HandoffIn
  <2>5. \A k : before(k) = BeforeIn(log, k, r.looked)
    BY DEF BeforeIn, HandoffIn
  <2> HIDE DEF r, row, live, handoff, before
  <2>6. \A k : /\ sources(k) = SourcesIn(log, k, r.at)
               /\ tainted(k) <=> TaintedIn(log, k, r.at)
               /\ verified(k) <=> VerifiedIn(log, task, k, r.at, r.time)
    BY <2>2 DEF SourcesIn, TaintedIn, VerifiedIn
  <2> HIDE DEF sources, tainted, verified
  <2>7. unverified = UnverifiedIn(log, task, r.at, r.time)
    BY <2>2, <2>6 DEF UnverifiedIn
  <2>8. \A k : DescendsIn(log, k, r.at) <=>
                 \A T \in SUBSET Plain :
                   sources(k) \subseteq T /\ closed(T) => \E a \in T : tainted(a)
    BY <2>6 DEF DescendsIn
  <2>9. descendants = DescendantsIn(log, r.at)
    <3> HIDE DEF closed
    <3> QED
      BY <2>2, <2>8 DEF DescendantsIn
  <2> HIDE DEF closed, unverified, descendants
  <2>10. HealthOK(log, task, r) =>
           /\ r.needs = Min({HealthLimit, Cardinality(unverified)})
           /\ r.tainted = Min({HealthLimit, Cardinality(descendants)})
    BY <2>7, <2>9 DEF HealthOK, Cut
  <2>11. BatonsOK(log, r) =>
           /\ \A k \in Plain :
                LET i == LatestAt(k, r.looked) IN
                i # 0 /\ handoff(i) /\ ~log[i].meta.consumed
                => i \in r.batons \/ Cardinality(before(k)) >= BatonLimit
           /\ \A i \in r.batons :
                /\ i \in 1..r.looked /\ handoff(i) /\ ~log[i].meta.consumed
                /\ \A i2 \in 1..r.looked :
                     i2 > i /\ log[i2].key = log[i].key => log[i2].kind # "handoff"
    BY <2>3, <2>4, <2>5 DEF BatonsOK
  <2>12. /\ \/ "coord_health" \in r.degraded
            \/ /\ r.needs = Min({HealthLimit, Cardinality(unverified)})
               /\ r.tainted = Min({HealthLimit, Cardinality(descendants)})
         /\ \/ "pending_batons" \in r.degraded
            \/ /\ \A k \in Plain :
                    LET i == LatestAt(k, r.looked) IN
                    i # 0 /\ handoff(i) /\ ~log[i].meta.consumed
                    => i \in r.batons \/ Cardinality(before(k)) >= BatonLimit
               /\ \A i \in r.batons :
                    /\ i \in 1..r.looked /\ handoff(i) /\ ~log[i].meta.consumed
                    /\ \A i2 \in 1..r.looked :
                         i2 > i /\ log[i2].key = log[i].key
                           => log[i2].kind # "handoff"
    BY <2>1, <2>10, <2>11
  <2> QED
    BY <2>12 DEF r, row, live, sources, closed, tainted, verified, unverified, descendants,
                 handoff, before
<1>2. PointsOK /\ KnowledgeInv /\ ReportsInv /\ [Next]_vars => ReportsInv'
  BY ReportsStep DEF KnowledgeInv
<1> QED
  BY <1>1, <1>2, InitReports, KnowledgeInvariant, PTL DEF Spec

-----------------------------------------------------------------------------
(* Legs.                                                                    *)

RankOf(l, rows, k) ==
    LET P == {p \in DOMAIN rows : l[rows[p]].key = k} IN
    IF P = {} THEN 0 ELSE Min(P)

\* A leg shows latest revisions, as of its moment, one to a key.
LegOK(l, leg) ==
    /\ leg.by \in {"text", "hyde", "keyword"} /\ leg.at \in 0..Len(l)
    /\ leg.rows \in Seq(1..leg.at)
    /\ \A p \in DOMAIN leg.rows :
         LET r == l[leg.rows[p]] IN
         /\ r.key \in Plain /\ leg.rows[p] = LatestIn(l, r.key, leg.at)
         /\ IsLive(r) /\ ~r.quarantined
         /\ leg.by # "keyword" => r.val \in Values
    /\ \A p, p2 \in DOMAIN leg.rows : l[leg.rows[p]].key = l[leg.rows[p2]].key => p = p2

\* The legs of a search, one after the other.
LegsOK(l, ls) ==
    /\ \E S : ls \in Seq(S)
    /\ \A n \in DOMAIN ls : LegOK(l, ls[n])
    /\ \A m, n \in DOMAIN ls : m < n => ls[m].at <= ls[n].at

LEMMA RankInIs == \A rows, k : RankIn(rows, k) = RankOf(log, rows, k)
BY DEF RankIn, RankOf

LEMMA LegStays ==
  ASSUME NEW l, NEW m, Grown(l, m), NEW leg, LegOK(l, leg)
  PROVE  LegOK(m, leg) /\ \A p \in DOMAIN leg.rows : m[leg.rows[p]] = l[leg.rows[p]]
<1>1. leg.at \in 0..Len(l) /\ leg.at \in 0..Len(m)
  BY DEF LegOK, Grown
<1>2. \A p \in DOMAIN leg.rows : leg.rows[p] \in 1..leg.at
  BY DEF LegOK
<1>3. \A p \in DOMAIN leg.rows : m[leg.rows[p]] = l[leg.rows[p]]
  BY <1>1, <1>2 DEF Grown
<1>4. \A k : LatestIn(m, k, leg.at) = LatestIn(l, k, leg.at)
  BY <1>1, LatestInStays
<1> QED
  BY <1>1, <1>3, <1>4 DEF LegOK

LEMMA LegsStay ==
  ASSUME NEW l, NEW m, Grown(l, m), NEW ls, LegsOK(l, ls)
  PROVE  LegsOK(m, ls)
BY LegStays DEF LegsOK

\* The entries a leg starts from.
LEMMA SearchableIs ==
  ASSUME RowsInv, NEW i \in Searchable
  PROVE  /\ i \in DOMAIN log /\ log[i].key \in Plain /\ i = LatestIn(log, log[i].key, Len(log))
         /\ IsLive(log[i]) /\ ~log[i].quarantined
         /\ log[i].vectors # {} => log[i].val \in Values
<1>1. Len(log) \in Nat /\ DOMAIN log = 1..Len(log)
  BY LogIsList
<1>2. /\ i \in DOMAIN log /\ log[i].key \in Plain /\ IsLive(log[i]) /\ ~log[i].quarantined
      /\ \A n \in DOMAIN log : log[n].key = log[i].key => n <= i
  BY DEF Searchable, DistinctOn
<1> DEFINE x == LatestIn(log, log[i].key, Len(log))
<1>3. /\ x \in 0..Len(log) /\ (x # 0 => log[x].key = log[i].key)
      /\ \A n \in 1..Len(log) : log[n].key = log[i].key => n <= x
  BY <1>1, LatestInIs
<1> HIDE DEF x
<1>4. i <= x
  BY <1>1, <1>2, <1>3
<1>5. x <= i
  BY <1>1, <1>2, <1>3, <1>4
<1>6. i = x
  BY <1>1, <1>2, <1>3, <1>4, <1>5
<1>7. log[i].vectors # {} => log[i].val \in Values
  BY <1>2 DEF RowsInv, RowShape
<1> QED
  BY <1>2, <1>6, <1>7 DEF x

LEMMA SearchableIsFinite ==
  ASSUME RowsInv, NEW S \in SUBSET Searchable
  PROVE  IsFiniteSet(S) /\ S \subseteq 1..Len(log)
<1>1. Len(log) \in Nat /\ S \subseteq 1..Len(log)
  BY LogIsList, SearchableIs
<1>2. IsFiniteSet(1..Len(log))
  BY <1>1, FS_Interval
<1> QED
  BY <1>1, <1>2, FS_Subset

\* The first of some of them, whatever their order.
LEMMA LegIsOK ==
  ASSUME RowsInv, NEW v \in {"text", "hyde", "keyword"}, NEW S \in SUBSET Searchable,
         v # "keyword" => \A i \in S : v \in log[i].vectors,
         NEW s \in SetToSeqs(S), NEW limit \in Nat
  PROVE  LegOK(log, [by |-> v, at |-> Len(log), rows |-> SubSeq(s, 1, Min({limit, Len(s)}))])
<1> DEFINE size == Min({limit, Len(s)})
           rows == SubSeq(s, 1, size)
<1>1. /\ s \in Seq(S) /\ Len(s) \in Nat /\ \A p \in DOMAIN s : s[p] \in S
      /\ DOMAIN s = 1..Len(s)
      /\ \A p, q \in DOMAIN s : s[p] = s[q] => p = q
  BY SearchableIsFinite, ListOfSet
<1>2. size \in Nat /\ size <= Len(s)
  <2>1. {limit, Len(s)} \in SUBSET Nat /\ {limit, Len(s)} # {}
    BY <1>1
  <2> QED
    BY <2>1, <1>1, MinIs
<1> HIDE DEF size
<1>3. /\ rows \in Seq(S) /\ DOMAIN rows = 1..size /\ \A p \in 1..size : rows[p] = s[p]
  BY <1>1, <1>2, FirstOfAList
<1> HIDE DEF rows
<1>4. Len(log) \in Nat /\ S \subseteq 1..Len(log)
  BY LogIsList, SearchableIsFinite
<1>5. rows \in Seq(1..Len(log))
  BY <1>3, <1>4, SeqMonotonic
<1>6. ASSUME NEW p \in DOMAIN rows
      PROVE  LET r == log[rows[p]] IN
             /\ r.key \in Plain /\ rows[p] = LatestIn(log, r.key, Len(log))
             /\ IsLive(r) /\ ~r.quarantined
             /\ v # "keyword" => r.val \in Values
  <2>1. rows[p] \in S
    <3>1. p \in 1..size /\ p \in DOMAIN s
      BY <1>1, <1>2, <1>3
    <3> QED
      BY <1>1, <1>3, <3>1
  <2> QED
    BY <2>1, SearchableIs
<1>7. ASSUME NEW p \in DOMAIN rows, NEW p2 \in DOMAIN rows,
             log[rows[p]].key = log[rows[p2]].key
      PROVE  p = p2
  <2>1. rows[p] = rows[p2]
    BY <1>6, <1>7
  <2>2. p \in DOMAIN s /\ p2 \in DOMAIN s /\ s[p] = s[p2]
    BY <2>1, <1>1, <1>2, <1>3
  <2> QED
    BY <2>2, <1>1
<1> DEFINE leg == [by |-> v, at |-> Len(log), rows |-> rows]
<1>8. leg.by = v /\ leg.at = Len(log) /\ leg.rows = rows
  OBVIOUS
<1> HIDE DEF leg
<1>9. LegOK(log, leg)
  BY <1>4, <1>5, <1>6, <1>7, <1>8 DEF LegOK
<1> QED
  BY <1>9 DEF leg, rows, size

\* A semantic leg is ordered by closeness, then by position.
LEMMA VectorLegIsOK ==
  ASSUME RowsInv, NEW v \in {"text", "hyde"}, NEW limit \in Nat
  PROVE  LegOK(log, [by |-> v, at |-> Len(log), rows |-> VectorLeg(v, limit)])
<1> DEFINE S == {i \in Searchable : v \in log[i].vectors}
           near(i) == Closeness(v, i)
           R == {e \in S \X S : \/ near(e[1]) > near(e[2])
                                \/ near(e[1]) = near(e[2]) /\ e[1] < e[2]}
           all == InOrder(S, LAMBDA a, b : \/ Closeness(v, a) > Closeness(v, b)
                                           \/ Closeness(v, a) = Closeness(v, b) /\ a < b)
<1>1. S \in SUBSET Searchable
  OBVIOUS
<1>2. IsFiniteSet(S) /\ S \subseteq 1..Len(log) /\ Len(log) \in Nat
  BY <1>1, SearchableIsFinite, LogIsList
<1>3. \A i \in S : near(i) \in 0..100 /\ i \in Nat
  <2> SUFFICES ASSUME NEW i \in S
               PROVE  Cosine[v][log[i].val] \in 0..100
    BY <1>2 DEF Closeness
  <2>1. log[i].val \in Values
    BY <1>1, SearchableIs
  <2>2. Cosine \in [{"text", "hyde"} -> [Values -> 0..100]]
    BY ReadingAssumption
  <2>3. Cosine[v] \in [Values -> 0..100]
    BY <2>2
  <2> QED
    BY <2>1, <2>3
<1>4. \A a, b \in S : <<a, b>> \in R <=> near(a) > near(b) \/ (near(a) = near(b) /\ a < b)
  OBVIOUS
<1> HIDE DEF S, R, near
<1>5. /\ \A x \in S : <<x, x>> \notin R
      /\ \A x, y \in S : x # y => <<x, y>> \in R \/ <<y, x>> \in R
      /\ \A x, y, z \in S : <<x, y>> \in R /\ <<y, z>> \in R => <<x, z>> \in R
  <2>1. \A x \in S : <<x, x>> \notin R
    BY <1>3, <1>4
  <2>2. ASSUME NEW x \in S, NEW y \in S, x # y
        PROVE  <<x, y>> \in R \/ <<y, x>> \in R
    <3>1. near(x) \in Nat /\ near(y) \in Nat /\ x \in Nat /\ y \in Nat
      BY <1>3
    <3> QED
      BY <2>2, <3>1, <1>4
  <2>3. ASSUME NEW x \in S, NEW y \in S, NEW z \in S, <<x, y>> \in R, <<y, z>> \in R
        PROVE  <<x, z>> \in R
    <3>1. /\ near(x) \in Nat /\ near(y) \in Nat /\ near(z) \in Nat
          /\ x \in Nat /\ y \in Nat /\ z \in Nat
      BY <1>3
    <3>2. /\ near(x) > near(y) \/ (near(x) = near(y) /\ x < y)
          /\ near(y) > near(z) \/ (near(y) = near(z) /\ y < z)
      BY <2>3, <1>4
    <3>3. near(x) > near(z) \/ (near(x) = near(z) /\ x < z)
      BY <3>1, <3>2
    <3> QED
      BY <3>3, <1>4
  <2> QED
    BY <2>1, <2>2, <2>3
<1>6. PICK s \in SetToSeqs(S) : \A p, q \in DOMAIN s : p < q => <<s[p], s[q]>> \in R
  BY <1>2, <1>5, OrderLists
<1>7. \A p \in DOMAIN s : s[p] \in S
  BY <1>2, ListOfSet
<1>8. \A p, q \in DOMAIN s : p < q =>
        \/ Closeness(v, s[p]) > Closeness(v, s[q])
        \/ Closeness(v, s[p]) = Closeness(v, s[q]) /\ s[p] < s[q]
  BY <1>4, <1>6, <1>7 DEF near
<1>9. all \in SetToSeqs(S)
  BY <1>8 DEF InOrder
<1> HIDE DEF all
<1>10. \A i \in S : v \in log[i].vectors
  BY DEF S
<1>11. LegOK(log, [by |-> v, at |-> Len(log), rows |-> SubSeq(all, 1, Min({limit, Len(all)}))])
  BY <1>1, <1>9, <1>10, LegIsOK DEF S
<1>12. VectorLeg(v, limit) = SubSeq(all, 1, Min({limit, Len(all)}))
  BY DEF VectorLeg, all, S
<1> QED
  BY <1>11, <1>12

LEMMA KeywordLegIsOK ==
  ASSUME RowsInv, NEW limit \in Nat, NEW rows \in KeywordLegs(limit)
  PROVE  LegOK(log, [by |-> "keyword", at |-> Len(log), rows |-> rows])
<1> DEFINE S == {i \in Searchable : log[i].val \in Hits}
<1>1. S \in SUBSET Searchable
  OBVIOUS
<1>2. PICK s \in SetToSeqs(S) : rows = SubSeq(s, 1, Min({limit, Len(s)}))
  BY DEF KeywordLegs
<1> HIDE DEF S
<1> QED
  BY <1>1, <1>2, LegIsOK

\* Where a leg ranks a key.
LEMMA RankIs ==
  ASSUME NEW l, NEW leg, LegOK(l, leg), NEW k
  PROVE  LET n == RankOf(l, leg.rows, k) IN
         /\ n \in 0..Len(leg.rows)
         /\ n # 0 => n \in DOMAIN leg.rows /\ l[leg.rows[n]].key = k
         /\ \A p \in DOMAIN leg.rows : l[leg.rows[p]].key = k => n = p
<1> DEFINE P == {p \in DOMAIN leg.rows : l[leg.rows[p]].key = k}
<1>1. DOMAIN leg.rows = 1..Len(leg.rows) /\ Len(leg.rows) \in Nat
  BY DEF LegOK
<1>2. /\ P \in SUBSET Nat
      /\ \A p \in P : p \in DOMAIN leg.rows /\ l[leg.rows[p]].key = k
      /\ \A p \in DOMAIN leg.rows : l[leg.rows[p]].key = k => p \in P
  BY <1>1
<1>3. \A p, p2 \in DOMAIN leg.rows : l[leg.rows[p]].key = l[leg.rows[p2]].key => p = p2
  BY DEF LegOK
<1>4. RankOf(l, leg.rows, k) = IF P = {} THEN 0 ELSE Min(P)
  BY DEF RankOf
<1> HIDE DEF P
<1>5. P # {} => Min(P) \in P
  BY <1>2, MinIs
<1> QED
  BY <1>1, <1>2, <1>3, <1>4, <1>5

-----------------------------------------------------------------------------
(* Scores.                                                                  *)

\* How scores are folded from shares, and shares from the other ranks.
FoldsScore(h, ls, k, most) ==
    /\ h[{}] = 0
    /\ \A s \in SUBSET DOMAIN ls : s # {} =>
         h[s] = h[s \ {Max(s)}] + Share(RankIn(ls[Max(s)], k), most)
    /\ Score(ls, k, most) = h[DOMAIN ls]
FoldsShare(h, a, most) ==
    /\ h[{}] = 1
    /\ \A s \in SUBSET (1..most) : s # {} =>
         LET x == CHOOSE x \in s : TRUE IN
         h[s] = IF x = a THEN h[s \ {x}] ELSE h[s \ {x}] * (K + x)
    /\ Share(a, most) = h[1..most]

LEMMA ScoreAdds ==
  ASSUME NEW T, NEW ls \in Seq(T), NEW k, NEW most,
         \A n \in DOMAIN ls : Share(RankIn(ls[n], k), most) \in Nat
  PROVE  \E h \in [SUBSET DOMAIN ls -> Nat] : FoldsScore(h, ls, k, most)
<1> DEFINE D == DOMAIN ls
           f == [n \in D |-> Share(RankIn(ls[n], k), most)]
           F == [e \in D \X Nat |-> e[2] + f[e[1]]]
           c == [s \in SUBSET D |-> Max(s)]
<1>1. D = 1..Len(ls) /\ Len(ls) \in Nat /\ IsFiniteSet(D)
  <2>1. D = 1..Len(ls) /\ Len(ls) \in Nat
    OBVIOUS
  <2> QED
    BY <2>1, FS_Interval
<1>2. \A n \in D : f[n] = Share(RankIn(ls[n], k), most) /\ f[n] \in Nat
  OBVIOUS
<1>3. \A s \in SUBSET D : s # {} => c[s] = Max(s) /\ Max(s) \in s
  <2> SUFFICES ASSUME NEW s \in SUBSET D, s # {}
               PROVE  Max(s) \in s
    OBVIOUS
  <2>1. 1 \in Int /\ Len(ls) \in Int /\ s \in SUBSET (1..Len(ls))
    BY <1>1
  <2> QED
    BY <2>1, MaxIs
<1>4. \A x \in D, t \in Nat : F[<<x, t>>] = t + f[x] /\ F[<<x, t>>] \in Nat
  BY <1>2
<1> HIDE DEF f, F, c
<1>5. PICK g \in [SUBSET D -> Nat] :
        g = [s \in SUBSET D |-> IF s = {} THEN 0 ELSE F[<<c[s], g[s \ {c[s]}]>>]]
  <2> DEFINE T0 == Nat
             b == 0
  <2> HIDE DEF D
  <2>1. b \in T0 /\ \A s \in SUBSET D : s # {} => c[s] \in s
    BY <1>3
  <2>2. \A x \in D, t \in T0 : F[<<x, t>>] \in T0
    BY <1>4
  <2> HIDE DEF T0, b
  <2>3. \E g \in [SUBSET D -> T0] : IsFold(g, D, c, b, F)
    <3>1. FoldsOver(D, c, T0, b, F)
      BY <1>1, <2>1, <2>2 DEF FoldsOver
    <3> QED
      BY <3>1, FoldIsDefined
  <2> QED
    BY <2>3 DEF IsFold, T0, b
<1>6. \A s \in SUBSET D : s # {} => g[s] = g[s \ {Max(s)}] + f[Max(s)]
  <2> SUFFICES ASSUME NEW s \in SUBSET D, s # {}
               PROVE  g[s] = g[s \ {Max(s)}] + f[Max(s)]
    OBVIOUS
  <2>1. g[s] = F[<<c[s], g[s \ {c[s]}]>>] /\ c[s] = Max(s) /\ Max(s) \in D
    BY <1>3, <1>5
  <2>2. g[s \ {Max(s)}] \in Nat
    BY <1>5
  <2> QED
    BY <1>4, <2>1, <2>2
<1>7. g = [s \in SUBSET DOMAIN ls |->
             IF s = {} THEN 0
             ELSE g[s \ {Max(s)}] + Share(RankIn(ls[Max(s)], k), most)]
  <2>1. \A s \in SUBSET D :
          g[s] = IF s = {} THEN 0
                 ELSE g[s \ {Max(s)}] + Share(RankIn(ls[Max(s)], k), most)
    <3> SUFFICES ASSUME NEW s \in SUBSET D
                 PROVE  g[s] = IF s = {} THEN 0
                               ELSE g[s \ {Max(s)}] + Share(RankIn(ls[Max(s)], k), most)
      OBVIOUS
    <3>1. CASE s = {}
      BY <1>5, <3>1
    <3>2. CASE s # {}
      <4>1. Max(s) \in D
        BY <1>3, <3>2
      <4> QED
        BY <1>2, <1>6, <3>2, <4>1
    <3> QED
      BY <3>1, <3>2
  <2>2. g \in [SUBSET D -> Nat]
    BY <1>5
  <2> QED
    BY <2>1, <2>2
<1> HIDE DEF D
<1>8. \E h : /\ h = [s \in SUBSET DOMAIN ls |->
                       IF s = {} THEN 0
                       ELSE h[s \ {Max(s)}] + Share(RankIn(ls[Max(s)], k), most)]
             /\ Score(ls, k, most) = h[DOMAIN ls]
  BY <1>7 DEF Score, FoldLeft, MapThenFoldSet
<1>9. PICK h : /\ h = [s \in SUBSET DOMAIN ls |->
                       IF s = {} THEN 0
                       ELSE h[s \ {Max(s)}] + Share(RankIn(ls[Max(s)], k), most)]
               /\ Score(ls, k, most) = h[DOMAIN ls]
  BY <1>8
<1>10. /\ h[{}] = 0
       /\ \A s \in SUBSET D : s # {} => h[s] = h[s \ {Max(s)}] + f[Max(s)]
  <2>1. h[{}] = 0
    BY <1>9
  <2>2. ASSUME NEW s \in SUBSET D, s # {}
        PROVE  h[s] = h[s \ {Max(s)}] + f[Max(s)]
    <3>1. h[s] = h[s \ {Max(s)}] + Share(RankIn(ls[Max(s)], k), most)
      BY <1>9, <2>2 DEF D
    <3>2. Max(s) \in D
      BY <1>3, <2>2
    <3> QED
      BY <1>2, <3>1, <3>2
  <2> QED
    BY <2>1, <2>2
<1>11. \A s \in SUBSET D : h[s] \in Nat
  <2> DEFINE G == {s \in SUBSET D : h[s] \in Nat}
  <2>1. {} \in G
    BY <1>10
  <2>2. ASSUME NEW s \in SUBSET D, s # {}, \A x \in s : s \ {x} \in G
        PROVE  s \in G
    <3>1. Max(s) \in s /\ Max(s) \in D
      BY <1>3, <2>2
    <3>2. h[s \ {Max(s)}] \in Nat /\ f[Max(s)] \in Nat
      BY <1>2, <2>2, <3>1
    <3>3. h[s] = h[s \ {Max(s)}] + f[Max(s)]
      BY <1>10, <2>2
    <3>4. h[s] \in Nat
      BY <3>2, <3>3
    <3> QED
      BY <3>4
  <2>3. SUBSET D \subseteq G
    <3> HIDE DEF G
    <3> QED
      BY <1>1, <2>1, <2>2, SubsetsAreIn
  <2> QED
    BY <2>3
<1>12. h \in [SUBSET DOMAIN ls -> Nat]
  <2>1. h = [s \in SUBSET D |-> h[s]]
    BY <1>9 DEF D
  <2> QED
    BY <1>11, <2>1 DEF D
<1>13. \A s \in SUBSET D : s # {} => f[Max(s)] = Share(RankIn(ls[Max(s)], k), most)
  BY <1>2, <1>3
<1> QED
  BY <1>9, <1>10, <1>12, <1>13 DEF D, FoldsScore

LEMMA ShareMultiplies ==
  ASSUME NEW most \in Nat, NEW a \in 1..most
  PROVE  \E h \in [SUBSET (1..most) -> Nat \ {0}] : FoldsShare(h, a, most)
<1> DEFINE D == 1..most
           F == [e \in D \X (Nat \ {0}) |-> IF e[1] = a THEN e[2] ELSE e[2] * (K + e[1])]
           c == [s \in SUBSET D |-> CHOOSE x \in s : TRUE]
<1>1. IsFiniteSet(D)
  BY FS_Interval
<1>2. \A s \in SUBSET D : s # {} => c[s] = (CHOOSE x \in s : TRUE) /\ c[s] \in s
  OBVIOUS
<1>3. \A x \in D, t \in Nat \ {0} :
        /\ F[<<x, t>>] = IF x = a THEN t ELSE t * (K + x)
        /\ F[<<x, t>>] \in Nat \ {0}
  <2>1. \A y, t \in Nat \ {0} : y * t \in Nat \ {0}
    OBVIOUS
  <2>2. \A x \in D : K + x \in Nat \ {0}
    BY DEF K
  <2> QED
    BY <2>1, <2>2
<1> HIDE DEF D, F, c
<1>4. PICK g \in [SUBSET D -> Nat \ {0}] :
        g = [s \in SUBSET D |-> IF s = {} THEN 1 ELSE F[<<c[s], g[s \ {c[s]}]>>]]
  <2> DEFINE T == Nat \ {0}
             b == 1
  <2>1. b \in T /\ \A s \in SUBSET D : s # {} => c[s] \in s
    BY <1>2
  <2>2. \A x \in D, t \in T : F[<<x, t>>] \in T
    BY <1>3
  <2> HIDE DEF T, b
  <2>3. \E g \in [SUBSET D -> T] : IsFold(g, D, c, b, F)
    <3>1. FoldsOver(D, c, T, b, F)
      BY <1>1, <2>1, <2>2 DEF FoldsOver
    <3> QED
      BY <3>1, FoldIsDefined
  <2> QED
    BY <2>3 DEF IsFold, T, b
<1>5. \A s \in SUBSET D : s # {} =>
        g[s] = LET x == CHOOSE x \in s : TRUE IN
               IF x = a THEN g[s \ {x}] ELSE g[s \ {x}] * (K + x)
  <2> SUFFICES ASSUME NEW s \in SUBSET D, s # {}
               PROVE  g[s] = IF c[s] = a THEN g[s \ {c[s]}] ELSE g[s \ {c[s]}] * (K + c[s])
    BY <1>2
  <2>1. g[s] = F[<<c[s], g[s \ {c[s]}]>>] /\ c[s] \in D
    BY <1>2, <1>4
  <2>2. g[s \ {c[s]}] \in Nat \ {0}
    BY <1>4
  <2> QED
    BY <1>3, <2>1, <2>2
<1>6. g = [s \in SUBSET (1..most) |->
             IF s = {} THEN 1
             ELSE LET x == CHOOSE x \in s : TRUE IN
                  IF x = a THEN g[s \ {x}] ELSE g[s \ {x}] * (K + x)]
  <2>1. \A s \in SUBSET D :
          g[s] = IF s = {} THEN 1
                 ELSE LET x == CHOOSE x \in s : TRUE IN
                      IF x = a THEN g[s \ {x}] ELSE g[s \ {x}] * (K + x)
    BY <1>4, <1>5
  <2> QED
    BY <1>4, <2>1 DEF D
<1>7. \E h : /\ h = [s \in SUBSET (1..most) |->
                       IF s = {} THEN 1
                       ELSE LET x == CHOOSE x \in s : TRUE IN
                            IF x = a THEN h[s \ {x}] ELSE h[s \ {x}] * (K + x)]
             /\ Share(a, most) = h[1..most]
  <2>1. a # 0
    OBVIOUS
  <2> QED
    BY <1>6, <2>1 DEF Share, FoldSet, MapThenFoldSet
<1>8. PICK h : /\ h = [s \in SUBSET (1..most) |->
                       IF s = {} THEN 1
                       ELSE LET x == CHOOSE x \in s : TRUE IN
                            IF x = a THEN h[s \ {x}] ELSE h[s \ {x}] * (K + x)]
               /\ Share(a, most) = h[1..most]
  BY <1>7
<1>9. /\ h[{}] = 1
      /\ \A s \in SUBSET D : s # {} =>
           h[s] = IF c[s] = a THEN h[s \ {c[s]}] ELSE h[s \ {c[s]}] * (K + c[s])
  <2>1. h[{}] = 1
    BY <1>8
  <2>2. ASSUME NEW s \in SUBSET D, s # {}
        PROVE  h[s] = IF c[s] = a THEN h[s \ {c[s]}] ELSE h[s \ {c[s]}] * (K + c[s])
    <3>1. h[s] = LET x == CHOOSE x \in s : TRUE IN
                 IF x = a THEN h[s \ {x}] ELSE h[s \ {x}] * (K + x)
      BY <1>8, <2>2 DEF D
    <3> QED
      BY <1>2, <2>2, <3>1
  <2> QED
    BY <2>1, <2>2
<1>10. \A s \in SUBSET D : h[s] \in Nat \ {0}
  <2> DEFINE G == {s \in SUBSET D : h[s] \in Nat \ {0}}
  <2>1. {} \in G
    BY <1>9
  <2>2. ASSUME NEW s \in SUBSET D, s # {}, \A x \in s : s \ {x} \in G
        PROVE  s \in G
    <3>1. c[s] \in s /\ c[s] \in D
      BY <1>2, <2>2
    <3>2. h[s \ {c[s]}] \in Nat \ {0}
      BY <2>2, <3>1
    <3>3. h[s] = F[<<c[s], h[s \ {c[s]}]>>]
      BY <1>3, <1>9, <2>2, <3>1, <3>2
    <3> QED
      BY <1>3, <3>1, <3>2, <3>3
  <2>3. SUBSET D \subseteq G
    <3> HIDE DEF G
    <3> QED
      BY <1>1, <2>1, <2>2, SubsetsAreIn
  <2> QED
    BY <2>3
<1>11. h \in [SUBSET (1..most) -> Nat \ {0}]
  <2>1. h = [s \in SUBSET D |-> h[s]]
    BY <1>8 DEF D
  <2> QED
    BY <1>10, <2>1 DEF D
<1>12. \A s \in SUBSET D : s # {} =>
         h[s] = LET x == CHOOSE x \in s : TRUE IN
                IF x = a THEN h[s \ {x}] ELSE h[s \ {x}] * (K + x)
  BY <1>2, <1>9
<1> QED
  BY <1>8, <1>9, <1>11, <1>12 DEF D, FoldsShare

LEMMA Products ==
  ASSUME NEW x \in Nat \ {0}, NEW y \in Nat \ {0}, NEW u \in Nat, NEW v \in Nat,
         x * u = y * v, u < v
  PROVE  x > y
<1> DEFINE d == y - x
           e == v - u
<1> SUFFICES ASSUME x <= y
             PROVE  FALSE
  OBVIOUS
<1>1. d \in Nat /\ e \in Nat \ {0} /\ y = x + d /\ v = u + e
  OBVIOUS
<1> HIDE DEF d, e
<1>2. y * v = x * u + x * e + d * u + d * e
  BY <1>1
<1>3. x * e > 0 /\ d * u >= 0 /\ d * e >= 0 /\ x * u \in Nat /\ x * e \in Nat
      /\ d * u \in Nat /\ d * e \in Nat
  BY <1>1
<1> QED
  BY <1>2, <1>3

\* A better rank has a greater share, no rank has none.
LEMMA ShareIs ==
  ASSUME NEW most \in Nat, NEW a \in 1..most, NEW b \in 1..most, a < b
  PROVE  Share(a, most) > Share(b, most)
<1> DEFINE D == 1..most
<1>1. PICK g \in [SUBSET D -> Nat \ {0}] : FoldsShare(g, a, most)
  BY ShareMultiplies
<1>2. PICK h \in [SUBSET D -> Nat \ {0}] : FoldsShare(h, b, most)
  BY ShareMultiplies
<1>3. IsFiniteSet(D) /\ a \in D /\ b \in D
  BY FS_Interval
<1>4. \A x \in D : K + x \in Nat \ {0}
  BY DEF K
<1>5. K + a < K + b
  BY DEF K
<1> HIDE DEF D
\* Without its own factor, a share is a part of the same product.
<1> DEFINE leaves(f, r, s, x) ==
             f[s] = IF x = r THEN f[s \ {x}] ELSE f[s \ {x}] * (K + x)
           of(f, r, s) == f[s] * (IF r \in s THEN K + r ELSE 1)
           G == {s \in SUBSET D : of(g, a, s) = of(h, b, s)}
<1>6. {} \in G
  BY <1>1, <1>2 DEF FoldsShare
<1>7. ASSUME NEW f \in [SUBSET D -> Nat \ {0}], NEW r \in D, NEW s \in SUBSET D,
             NEW x \in s, leaves(f, r, s, x)
      PROVE  of(f, r, s) = of(f, r, s \ {x}) * (K + x)
  <2>1. f[s \ {x}] \in Nat \ {0} /\ K + x \in Nat \ {0} /\ K + r \in Nat \ {0}
    BY <1>4
  <2> DEFINE p == f[s \ {x}]
  <2>2. CASE x = r
    <3>1. of(f, r, s) = p * (K + x) /\ of(f, r, s \ {x}) = p * 1
      BY <1>7, <2>2
    <3> QED
      BY <2>1, <3>1
  <2>3. CASE x # r /\ r \in s
    <3>1. of(f, r, s) = (p * (K + x)) * (K + r) /\ of(f, r, s \ {x}) = p * (K + r)
      BY <1>7, <2>3
    <3>2. \A i, m, n \in Nat \ {0} : (i * m) * n = (i * n) * m
      OBVIOUS
    <3> QED
      BY <2>1, <3>1, <3>2
  <2>4. CASE x # r /\ r \notin s
    <3>1. of(f, r, s) = (p * (K + x)) * 1 /\ of(f, r, s \ {x}) = p * 1
      BY <1>7, <2>4
    <3>2. \A i, m \in Nat \ {0} : (i * m) * 1 = (i * 1) * m
      OBVIOUS
    <3> QED
      BY <2>1, <3>1, <3>2
  <2> QED
    BY <2>2, <2>3, <2>4
<1> HIDE DEF of, leaves
<1>13. \A s \in SUBSET D : \A x \in s : leaves(g, a, s, x) =>
         of(g, a, s) = of(g, a, s \ {x}) * (K + x)
  BY <1>1, <1>3, <1>7
<1>14. \A s \in SUBSET D : \A x \in s : leaves(h, b, s, x) =>
         of(h, b, s) = of(h, b, s \ {x}) * (K + x)
  BY <1>2, <1>3, <1>7
<1>8. ASSUME NEW s \in SUBSET D, s # {}, \A x \in s : s \ {x} \in G
      PROVE  s \in G
  <2> DEFINE x == CHOOSE x \in s : TRUE
  <2>1. x \in s /\ s \ {x} \in G
    BY <1>8
  <2>2. leaves(g, a, s, x)
    BY <1>1, <1>8 DEF FoldsShare, leaves, D
  <2>3. leaves(h, b, s, x)
    BY <1>2, <1>8 DEF FoldsShare, leaves, D
  <2> HIDE DEF x
  <2>4. of(g, a, s) = of(g, a, s \ {x}) * (K + x)
    BY <1>13, <2>1, <2>2
  <2>5. of(h, b, s) = of(h, b, s \ {x}) * (K + x)
    BY <1>14, <2>1, <2>3
  <2> QED
    BY <2>1, <2>4, <2>5
<1>9. D \in G
  <2> HIDE DEF G
  <2>1. SUBSET D \subseteq G
    BY <1>3, <1>6, <1>8, SubsetsAreIn
  <2> QED
    BY <2>1
<1>10. g[D] * (K + a) = h[D] * (K + b)
  BY <1>3, <1>9 DEF of
<1>12. Share(a, most) = g[D] /\ Share(b, most) = h[D]
  BY <1>1, <1>2 DEF FoldsShare, D
<1>11. g[D] \in Nat \ {0} /\ h[D] \in Nat \ {0} /\ K + a \in Nat /\ K + b \in Nat
  BY <1>1, <1>2, <1>3, <1>4
<1> QED
  BY <1>5, <1>10, <1>11, <1>12, Products

LEMMA ShareIsNat ==
  ASSUME NEW most \in Nat, NEW a \in 0..most
  PROVE  Share(a, most) \in Nat /\ (Share(a, most) = 0 <=> a = 0)
<1>1. CASE a = 0
  BY <1>1 DEF Share
<1>2. CASE a # 0
  <2>1. a \in 1..most
    BY <1>2
  <2>2. PICK h \in [SUBSET (1..most) -> Nat \ {0}] : FoldsShare(h, a, most)
    BY <2>1, ShareMultiplies
  <2>3. h[1..most] \in Nat \ {0} /\ Share(a, most) = h[1..most]
    BY <2>2 DEF FoldsShare
  <2> QED
    BY <1>2, <2>2, <2>3
<1> QED
  BY <1>1, <1>2

LEMMA ScoreIsNat ==
  ASSUME NEW T, NEW ls \in Seq(T), NEW k, NEW most \in Nat,
         \A n \in DOMAIN ls : RankIn(ls[n], k) \in 0..most
  PROVE  Score(ls, k, most) \in Nat
<1>1. \A n \in DOMAIN ls : Share(RankIn(ls[n], k), most) \in Nat
  BY ShareIsNat
<1>2. PICK h \in [SUBSET DOMAIN ls -> Nat] : FoldsScore(h, ls, k, most)
  BY <1>1, ScoreAdds
<1> QED
  BY <1>2 DEF FoldsScore

\* A key that every leg which found another ranks ahead of it scores more.
LEMMA DominantScores ==
  ASSUME NEW T, NEW ls \in Seq(T), NEW a, NEW b, NEW most \in Nat,
         \A n \in DOMAIN ls : RankIn(ls[n], a) \in 0..most /\ RankIn(ls[n], b) \in 0..most,
         \A n \in DOMAIN ls : RankIn(ls[n], b) # 0 =>
           RankIn(ls[n], a) # 0 /\ RankIn(ls[n], a) < RankIn(ls[n], b),
         NEW best \in DOMAIN ls, RankIn(ls[best], b) # 0
  PROVE  Score(ls, a, most) > Score(ls, b, most)
<1> DEFINE D == DOMAIN ls
           sa(n) == Share(RankIn(ls[n], a), most)
           sb(n) == Share(RankIn(ls[n], b), most)
<1>1. \A n \in D : sa(n) \in Nat /\ sb(n) \in Nat
  BY ShareIsNat
<1>2. ASSUME NEW n \in D, RankIn(ls[n], b) # 0
      PROVE  sa(n) > sb(n)
  <2>1. RankIn(ls[n], a) \in 1..most /\ RankIn(ls[n], b) \in 1..most
    BY <1>2
  <2>2. RankIn(ls[n], a) < RankIn(ls[n], b)
    BY <1>2
  <2> QED
    BY <2>1, <2>2, ShareIs
<1>3. \A n \in D : sa(n) >= sb(n)
  <2> SUFFICES ASSUME NEW n \in D, RankIn(ls[n], b) = 0
               PROVE  sa(n) >= sb(n)
    BY <1>1, <1>2
  <2>1. sb(n) = 0
    BY ShareIsNat
  <2> QED
    BY <1>1, <2>1
<1>4. PICK g \in [SUBSET D -> Nat] :
        /\ g[{}] = 0
        /\ \A s \in SUBSET D : s # {} => g[s] = g[s \ {Max(s)}] + sa(Max(s))
        /\ Score(ls, a, most) = g[D]
  <2>1. \E h \in [SUBSET DOMAIN ls -> Nat] : FoldsScore(h, ls, a, most)
    <3> HIDE DEF D
    <3>1. \A n \in DOMAIN ls : Share(RankIn(ls[n], a), most) \in Nat
      BY <1>1 DEF D
    <3> QED
      BY <3>1, ScoreAdds
  <2> QED
    BY <2>1 DEF FoldsScore
<1>5. PICK h \in [SUBSET D -> Nat] :
        /\ h[{}] = 0
        /\ \A s \in SUBSET D : s # {} => h[s] = h[s \ {Max(s)}] + sb(Max(s))
        /\ Score(ls, b, most) = h[D]
  <2>1. \E h \in [SUBSET DOMAIN ls -> Nat] : FoldsScore(h, ls, b, most)
    <3> HIDE DEF D
    <3>1. \A n \in DOMAIN ls : Share(RankIn(ls[n], b), most) \in Nat
      BY <1>1 DEF D
    <3> QED
      BY <3>1, ScoreAdds
  <2> QED
    BY <2>1 DEF FoldsScore
<1>6. D = 1..Len(ls) /\ Len(ls) \in Nat /\ IsFiniteSet(D) /\ sa(best) > sb(best)
  <2>1. D = 1..Len(ls) /\ Len(ls) \in Nat
    OBVIOUS
  <2> QED
    BY <1>2, <2>1, FS_Interval
<1>7. \A s \in SUBSET D : s # {} => Max(s) \in s
  <2> SUFFICES ASSUME NEW s \in SUBSET D, s # {}
               PROVE  Max(s) \in s
    OBVIOUS
  <2>1. 1 \in Int /\ Len(ls) \in Int /\ s \in SUBSET (1..Len(ls))
    BY <1>6
  <2> QED
    BY <2>1, MaxIs
<1> DEFINE G == {s \in SUBSET D : g[s] >= h[s] /\ (best \in s => g[s] > h[s])}
<1> HIDE DEF sa, sb, D
<1>8. {} \in G
  BY <1>4, <1>5
<1>9. ASSUME NEW s \in SUBSET D, s # {}, \A x \in s : s \ {x} \in G
      PROVE  s \in G
  <2> DEFINE x == Max(s)
  <2>1. x \in s /\ s \ {x} \in G /\ x \in D
    BY <1>7, <1>9
  <2>2. g[s] = g[s \ {x}] + sa(x) /\ h[s] = h[s \ {x}] + sb(x)
    BY <1>4, <1>5, <1>9
  <2> HIDE DEF x
  <2>3. /\ g[s \ {x}] \in Nat /\ h[s \ {x}] \in Nat /\ sa(x) \in Nat /\ sb(x) \in Nat
        /\ sa(x) >= sb(x) /\ (x = best => sa(x) > sb(x))
    BY <1>1, <1>3, <1>4, <1>5, <1>6, <2>1
  <2>4. g[s \ {x}] >= h[s \ {x}] /\ (best \in s \ {x} => g[s \ {x}] > h[s \ {x}])
    BY <2>1
  <2>5. g[s] >= h[s]
    BY <2>2, <2>3, <2>4
  <2>6. best \in s => g[s] > h[s]
    <3>1. best \in s => best = x \/ best \in s \ {x}
      OBVIOUS
    <3> QED
      BY <2>2, <2>3, <2>4, <3>1
  <2> QED
    BY <2>5, <2>6
<1>10. D \in G
  <2> HIDE DEF G
  <2>1. SUBSET D \subseteq G
    BY <1>6, <1>8, <1>9, SubsetsAreIn
  <2> QED
    BY <2>1
<1>11. best \in D
  BY DEF D
<1> QED
  BY <1>4, <1>5, <1>10, <1>11

-----------------------------------------------------------------------------
(* Fusion.                                                                  *)

LEMMA GreatestIs ==
  ASSUME NEW S \in SUBSET Int, IsFiniteSet(S), S # {}
  PROVE  Max(S) \in S /\ \A x \in S : x <= Max(S)
<1> DEFINE G == {s \in SUBSET S : s # {} => \E m \in s : \A x \in s : x <= m}
<1>1. {} \in G
  OBVIOUS
<1>2. ASSUME NEW s \in SUBSET S, s # {}, \A x \in s : s \ {x} \in G
      PROVE  s \in G
  <2>1. PICK y \in s : TRUE
    BY <1>2
  <2>2. CASE s \ {y} = {}
    <3>1. \A x \in s : x = y
      BY <2>2
    <3>2. y \in Int
      BY <1>2
    <3>3. \E m \in s : \A x \in s : x <= m
      BY <3>1, <3>2
    <3> QED
      BY <3>3
  <2>3. CASE s \ {y} # {}
    <3>1. PICK m \in s \ {y} : \A x \in s \ {y} : x <= m
      BY <1>2, <2>3
    <3>2. m \in Int /\ y \in Int
      BY <1>2
    <3>3. \E z \in s : \A x \in s : x <= z
      <4>1. CASE y <= m
        BY <3>1, <4>1
      <4>2. CASE m <= y
        <5>1. \A x \in s : x = y \/ (x <= m /\ x \in Int)
          BY <1>2, <3>1
        <5>2. \A x \in s : x <= y
          BY <3>2, <4>2, <5>1
        <5> QED
          BY <5>2
      <4> QED
        BY <3>2, <4>1, <4>2
    <3> QED
      BY <3>3
  <2> QED
    BY <2>2, <2>3
<1>3. S \in G
  <2> HIDE DEF G
  <2>1. SUBSET S \subseteq G
    BY <1>1, <1>2, SubsetsAreIn
  <2> QED
    BY <2>1
<1>4. \E m \in S : \A x \in S : m >= x
  BY <1>3
<1>5. Max(S) \in S /\ \A x \in S : Max(S) >= x
  BY <1>4 DEF Max
<1> QED
  BY <1>5

\* The keys of the legs, and how they rank.
KeysOf(rl) == {log[i].key : i \in UNION {ToSet(rl[n]) : n \in DOMAIN rl}}
MostOf(rl) == Max({0} \cup {Len(rl[n]) : n \in DOMAIN rl})
BestOf(rl, k) == Min({RankIn(rl[n], k) : n \in DOMAIN rl} \ {0})
RowFor(rl, k) ==
    LET n == Min({m \in DOMAIN rl : RankIn(rl[m], k) # 0}) IN rl[n][RankIn(rl[n], k)]

\* Rows of legs.
LegRows(ls) == [n \in DOMAIN ls |-> ls[n].rows]

LEMMA RanksAre ==
  ASSUME RowsInv, NEW ls, LegsOK(log, ls), NEW rl, rl = LegRows(ls)
  PROVE  /\ rl \in Seq(Seq(Nat)) /\ DOMAIN rl = DOMAIN ls /\ DOMAIN rl \subseteq Nat
         /\ MostOf(rl) \in Nat
         /\ \A n \in DOMAIN rl : \A k :
              /\ RankIn(rl[n], k) \in 0..MostOf(rl)
              /\ RankIn(rl[n], k) # 0 =>
                   /\ RankIn(rl[n], k) \in DOMAIN rl[n]
                   /\ log[rl[n][RankIn(rl[n], k)]].key = k
              /\ \A p \in DOMAIN rl[n] : log[rl[n][p]].key = k => RankIn(rl[n], k) = p
         /\ \A n \in DOMAIN rl : \A p \in DOMAIN rl[n] :
              rl[n][p] \in 1..Len(log) /\ log[rl[n][p]].key \in Plain
         /\ KeysOf(rl) \subseteq Plain
         /\ \A k : k \in KeysOf(rl) <=> \E n \in DOMAIN rl : RankIn(rl[n], k) # 0
<1>1. PICK T : ls \in Seq(T)
  BY DEF LegsOK
<1>2. /\ DOMAIN ls = 1..Len(ls) /\ Len(ls) \in Nat
      /\ DOMAIN rl = DOMAIN ls /\ \A n \in DOMAIN ls : rl[n] = ls[n].rows
  BY <1>1 DEF LegRows
<1>3. ASSUME NEW n \in DOMAIN rl
      PROVE  /\ LegOK(log, ls[n]) /\ rl[n] = ls[n].rows
             /\ rl[n] \in Seq(Nat) /\ rl[n] \in Seq(1..Len(log))
  <2>1. LegOK(log, ls[n]) /\ rl[n] = ls[n].rows
    BY <1>2 DEF LegsOK
  <2>2. Len(log) \in Nat /\ ls[n].at \in 0..Len(log) /\ ls[n].rows \in Seq(1..ls[n].at)
    BY <2>1, LogIsList DEF LegOK
  <2>3. 1..ls[n].at \subseteq Nat /\ 1..ls[n].at \subseteq 1..Len(log)
    BY <2>2
  <2> QED
    BY <2>1, <2>2, <2>3, SeqMonotonic
<1>4. rl \in Seq(Seq(Nat))
  <2>1. rl = [n \in 1..Len(ls) |-> rl[n]]
    BY <1>2 DEF LegRows
  <2>2. \A n \in 1..Len(ls) : rl[n] \in Seq(Nat)
    BY <1>2, <1>3
  <2> QED
    BY <1>2, <2>1, <2>2
<1>5. \A n \in DOMAIN rl : \A p \in DOMAIN rl[n] :
        /\ rl[n][p] \in 1..Len(log) /\ log[rl[n][p]].key \in Plain
  BY <1>3 DEF LegOK
<1> DEFINE sizes == {0} \cup {Len(rl[n]) : n \in DOMAIN rl}
           most == MostOf(rl)
<1>6. IsFiniteSet(sizes) /\ sizes \in SUBSET Nat
  <2> DEFINE f == [n \in DOMAIN rl |-> Len(rl[n])]
             im == {Len(rl[n]) : n \in DOMAIN rl}
  <2>1. IsFiniteSet(DOMAIN rl)
    <3> HIDE DEF f, im
    <3>1. IsFiniteSet(1..Len(ls))
      <4>1. 1 \in Int /\ Len(ls) \in Int
        BY <1>2
      <4> QED
        BY <4>1, FS_Interval
    <3>2. DOMAIN rl = 1..Len(ls)
      BY <1>2
    <3> QED
      BY <3>1, <3>2
  <2>2. f \in Surjection(DOMAIN rl, im)
    BY DEF Surjection
  <2>3. IsFiniteSet(im)
    <3> HIDE DEF f, im
    <3> QED
      BY <2>1, <2>2, FS_Surjection
  <2>4. IsFiniteSet(im \cup {0})
    <3> HIDE DEF im
    <3> QED
      BY <2>3, FS_AddElement
  <2>5. sizes = im \cup {0}
    OBVIOUS
  <2>6. \A n \in DOMAIN rl : Len(rl[n]) \in Nat
    BY <1>3
  <2>7. sizes \in SUBSET Nat
    BY <2>6
  <2> HIDE DEF sizes, im
  <2> QED
    BY <2>4, <2>5, <2>7
<1>7. most \in Nat /\ \A n \in DOMAIN rl : Len(rl[n]) <= most
  <2>1. 0 \in sizes /\ \A n \in DOMAIN rl : Len(rl[n]) \in sizes
    OBVIOUS
  <2>2. MostOf(rl) = Max(sizes)
    BY DEF MostOf
  <2> HIDE DEF sizes
  <2>3. sizes \in SUBSET Int /\ sizes # {}
    BY <1>6, <2>1
  <2>4. Max(sizes) \in sizes /\ \A x \in sizes : x <= Max(sizes)
    BY <1>6, <2>3, GreatestIs
  <2> QED
    BY <1>6, <2>1, <2>2, <2>4
<1>8. ASSUME NEW n \in DOMAIN rl, NEW k
      PROVE  /\ RankIn(rl[n], k) \in 0..MostOf(rl)
             /\ RankIn(rl[n], k) # 0 =>
                  /\ RankIn(rl[n], k) \in DOMAIN rl[n]
                  /\ log[rl[n][RankIn(rl[n], k)]].key = k
             /\ \A p \in DOMAIN rl[n] : log[rl[n][p]].key = k => RankIn(rl[n], k) = p
  <2>1. LegOK(log, ls[n]) /\ rl[n] = ls[n].rows /\ RankIn(rl[n], k) = RankOf(log, ls[n].rows, k)
    BY <1>3, RankInIs
  <2>2. /\ RankIn(rl[n], k) \in 0..Len(rl[n])
        /\ RankIn(rl[n], k) # 0 =>
             RankIn(rl[n], k) \in DOMAIN rl[n] /\ log[rl[n][RankIn(rl[n], k)]].key = k
        /\ \A p \in DOMAIN rl[n] : log[rl[n][p]].key = k => RankIn(rl[n], k) = p
    BY <2>1, RankIs
  <2>3. Len(rl[n]) \in Nat /\ Len(rl[n]) <= MostOf(rl) /\ MostOf(rl) \in Nat
    BY <1>3, <1>7
  <2> QED
    BY <2>2, <2>3
<1> HIDE DEF most, sizes
<1>9. \A k : k \in KeysOf(rl) =>
        \E n \in DOMAIN rl : \E p \in DOMAIN rl[n] : log[rl[n][p]].key = k
  BY DEF KeysOf, ToSet
<1>10. \A n \in DOMAIN rl : \A p \in DOMAIN rl[n] : log[rl[n][p]].key \in KeysOf(rl)
  <2> SUFFICES ASSUME NEW n \in DOMAIN rl, NEW p \in DOMAIN rl[n]
               PROVE  log[rl[n][p]].key \in KeysOf(rl)
    OBVIOUS
  <2>1. rl[n][p] \in ToSet(rl[n])
    BY DEF ToSet
  <2> QED
    BY <2>1 DEF KeysOf
<1>11. ASSUME NEW k
       PROVE  k \in KeysOf(rl) <=> \E n \in DOMAIN rl : RankIn(rl[n], k) # 0
  <2>1. ASSUME k \in KeysOf(rl)
        PROVE  \E n \in DOMAIN rl : RankIn(rl[n], k) # 0
    <3>1. PICK n \in DOMAIN rl : \E p \in DOMAIN rl[n] : log[rl[n][p]].key = k
      BY <1>9, <2>1
    <3>2. PICK p \in DOMAIN rl[n] : log[rl[n][p]].key = k
      BY <3>1
    <3>3. RankIn(rl[n], k) = p /\ p # 0
      BY <1>3, <1>8, <3>2
    <3> QED
      BY <3>3
  <2>2. ASSUME NEW n \in DOMAIN rl, RankIn(rl[n], k) # 0
        PROVE  k \in KeysOf(rl)
    BY <1>8, <1>10, <2>2
  <2> QED
    BY <2>1, <2>2
<1>12. KeysOf(rl) \subseteq Plain
  BY <1>5, <1>9
<1> QED
  BY <1>2, <1>4, <1>5, <1>7, <1>8, <1>11, <1>12 DEF most

\* The order of the fused rows.
AheadOf(rl, a, b) ==
    LET sa == Score(rl, a, MostOf(rl))
        sb == Score(rl, b, MostOf(rl))
    IN \/ sa > sb
       \/ sa = sb /\ BestOf(rl, a) < BestOf(rl, b)
       \/ sa = sb /\ BestOf(rl, a) = BestOf(rl, b) /\ a < b

LEMMA BestIsNat ==
  ASSUME RowsInv, NEW ls, LegsOK(log, ls), NEW rl, rl = LegRows(ls), NEW k \in KeysOf(rl)
  PROVE  BestOf(rl, k) \in Nat
<1> DEFINE P == {RankIn(rl[n], k) : n \in DOMAIN rl} \ {0}
<1>1. /\ \A n \in DOMAIN rl : RankIn(rl[n], k) \in 0..MostOf(rl)
      /\ MostOf(rl) \in Nat
      /\ \E n \in DOMAIN rl : RankIn(rl[n], k) # 0
  BY RanksAre
<1>2. P \in SUBSET Nat /\ P # {}
  BY <1>1
<1>3. BestOf(rl, k) = Min(P)
  BY DEF BestOf
<1> HIDE DEF P
<1>4. Min(P) \in P
  BY <1>2, MinIs
<1> QED
  BY <1>2, <1>3, <1>4

LEMMA KeysAreOrdered ==
  ASSUME RowsInv, NEW ls, LegsOK(log, ls), NEW rl, rl = LegRows(ls)
  PROVE  /\ IsFiniteSet(KeysOf(rl))
         /\ \E s \in SetToSeqs(KeysOf(rl)) :
              \A p, q \in DOMAIN s : p < q => AheadOf(rl, s[p], s[q])
<1> DEFINE S == KeysOf(rl)
           R == {e \in S \X S : AheadOf(rl, e[1], e[2])}
           score(k) == Score(rl, k, MostOf(rl))
           best(k) == BestOf(rl, k)
<1>1. /\ rl \in Seq(Seq(Nat)) /\ MostOf(rl) \in Nat
      /\ \A n \in DOMAIN rl : \A k : RankIn(rl[n], k) \in 0..MostOf(rl)
      /\ S \subseteq Plain
      /\ \A k : k \in S <=> \E n \in DOMAIN rl : RankIn(rl[n], k) # 0
  BY RanksAre
<1>2. IsFiniteSet(S) /\ S \subseteq Nat
  <2>1. PlainKeys \in Nat /\ Plain = 1..PlainKeys
    BY EntriesAssumption DEF Plain
  <2>2. IsFiniteSet(Plain) /\ Plain \subseteq Nat
    BY <2>1, FS_Interval
  <2> HIDE DEF S
  <2> QED
    BY <1>1, <2>2, FS_Subset
<1>3. \A k : score(k) \in Nat
  BY <1>1, ScoreIsNat
<1>4. \A k \in S : best(k) \in Nat
  BY BestIsNat
<1>5. \A a, b \in S : <<a, b>> \in R <=>
        \/ score(a) > score(b)
        \/ score(a) = score(b) /\ best(a) < best(b)
        \/ score(a) = score(b) /\ best(a) = best(b) /\ a < b
  BY DEF AheadOf
<1>6. \A a, b \in S : <<a, b>> \in R <=> AheadOf(rl, a, b)
  OBVIOUS
<1> HIDE DEF S, R, score, best
<1>7. \A x \in S : <<x, x>> \notin R
  BY <1>2, <1>3, <1>4, <1>5
<1>8. \A x, y \in S : x # y => <<x, y>> \in R \/ <<y, x>> \in R
  <2> SUFFICES ASSUME NEW x \in S, NEW y \in S, x # y
               PROVE  <<x, y>> \in R \/ <<y, x>> \in R
    OBVIOUS
  <2>1. /\ x \in Nat /\ y \in Nat /\ score(x) \in Nat /\ score(y) \in Nat
        /\ best(x) \in Nat /\ best(y) \in Nat
    BY <1>2, <1>3, <1>4
  <2> QED
    BY <1>5, <2>1
<1>9. \A x, y, z \in S : <<x, y>> \in R /\ <<y, z>> \in R => <<x, z>> \in R
  <2> SUFFICES ASSUME NEW x \in S, NEW y \in S, NEW z \in S, <<x, y>> \in R, <<y, z>> \in R
               PROVE  <<x, z>> \in R
    OBVIOUS
  <2>1. /\ x \in Nat /\ y \in Nat /\ z \in Nat
        /\ score(x) \in Nat /\ score(y) \in Nat /\ score(z) \in Nat
        /\ best(x) \in Nat /\ best(y) \in Nat /\ best(z) \in Nat
    BY <1>2, <1>3, <1>4
  <2> QED
    BY <1>5, <2>1
<1>10. PICK s \in SetToSeqs(S) : \A p, q \in DOMAIN s : p < q => <<s[p], s[q]>> \in R
  BY <1>2, <1>7, <1>8, <1>9, OrderLists
<1>11. \A p \in DOMAIN s : s[p] \in S
  BY <1>2, ListOfSet
<1>12. \A p, q \in DOMAIN s : p < q => AheadOf(rl, s[p], s[q])
  BY <1>6, <1>10, <1>11
<1> QED
  BY <1>2, <1>12 DEF S

LEMMA AheadIsBefore ==
  ASSUME RowsInv, NEW ls, LegsOK(log, ls), NEW rl, rl = LegRows(ls),
         NEW a \in KeysOf(rl), NEW b \in KeysOf(rl), AheadOf(rl, a, b)
  PROVE  ~AheadOf(rl, b, a)
<1>1. /\ rl \in Seq(Seq(Nat)) /\ MostOf(rl) \in Nat
      /\ \A n \in DOMAIN rl : \A k : RankIn(rl[n], k) \in 0..MostOf(rl)
  BY RanksAre
<1>2. Score(rl, a, MostOf(rl)) \in Nat /\ Score(rl, b, MostOf(rl)) \in Nat
  BY <1>1, ScoreIsNat
<1>3. BestOf(rl, a) \in Nat /\ BestOf(rl, b) \in Nat
  BY BestIsNat
<1>4. a \in Nat /\ b \in Nat
  <2>1. KeysOf(rl) \subseteq Plain
    BY RanksAre
  <2>2. PlainKeys \in Nat
    BY EntriesAssumption
  <2> QED
    BY <2>1, <2>2 DEF Plain
<1> DEFINE sa == Score(rl, a, MostOf(rl))
           sb == Score(rl, b, MostOf(rl))
           ba == BestOf(rl, a)
           bb == BestOf(rl, b)
<1>5. sa > sb \/ (sa = sb /\ ba < bb) \/ (sa = sb /\ ba = bb /\ a < b)
  BY DEF AheadOf
<1>6. AheadOf(rl, b, a) <=> (sb > sa \/ (sb = sa /\ bb < ba) \/ (sb = sa /\ bb = ba /\ b < a))
  BY DEF AheadOf
<1>7. sa \in Nat /\ sb \in Nat /\ ba \in Nat /\ bb \in Nat
  BY <1>2, <1>3
<1> HIDE DEF sa, sb, ba, bb
<1> QED
  BY <1>4, <1>5, <1>6, <1>7

\* Every leg that found the second finds the first, and ranks it better.
Dominates(l, ls, a, b) ==
    \A n \in DOMAIN ls : RankOf(l, ls[n].rows, b) # 0 =>
      /\ RankOf(l, ls[n].rows, a) # 0
      /\ RankOf(l, ls[n].rows, a) < RankOf(l, ls[n].rows, b)

\* Rows of legs, one to a key, none before what dominates it.
FusedOK(l, ls, rows) ==
    /\ rows \in Seq(1..Len(l))
    /\ \A p \in DOMAIN rows :
         \E n \in DOMAIN ls : \E q \in DOMAIN ls[n].rows : ls[n].rows[q] = rows[p]
    /\ \A p, p2 \in DOMAIN rows : l[rows[p]].key = l[rows[p2]].key => p = p2
    /\ \A p \in DOMAIN rows : \A a \in Plain :
         Dominates(l, ls, a, l[rows[p]].key) => \E p2 \in 1..(p - 1) : l[rows[p2]].key = a

\* The row a key is shown with.
LEMMA RowForIs ==
  ASSUME RowsInv, NEW ls, LegsOK(log, ls), NEW rl, rl = LegRows(ls), NEW k \in KeysOf(rl)
  PROVE  /\ RowFor(rl, k) \in 1..Len(log) /\ log[RowFor(rl, k)].key = k
         /\ \E n \in DOMAIN ls : \E q \in DOMAIN ls[n].rows : ls[n].rows[q] = RowFor(rl, k)
<1> DEFINE P == {m \in DOMAIN rl : RankIn(rl[m], k) # 0}
           n == Min(P)
<1>1. P \in SUBSET Nat /\ P # {}
  <2>1. DOMAIN rl \subseteq Nat /\ \E m \in DOMAIN rl : RankIn(rl[m], k) # 0
    BY RanksAre
  <2> QED
    BY <2>1
<1>2. n \in P
  <2> HIDE DEF P
  <2> QED
    BY <1>1, MinIs
<1>3. n \in DOMAIN rl /\ RankIn(rl[n], k) # 0
  BY <1>2
<1>4. RowFor(rl, k) = rl[n][RankIn(rl[n], k)]
  BY DEF RowFor
<1> HIDE DEF P, n
<1>5. RankIn(rl[n], k) \in DOMAIN rl[n] /\ log[rl[n][RankIn(rl[n], k)]].key = k
  <2>1. \A m \in DOMAIN rl : \A x :
          RankIn(rl[m], x) # 0 =>
            /\ RankIn(rl[m], x) \in DOMAIN rl[m]
            /\ log[rl[m][RankIn(rl[m], x)]].key = x
    BY RanksAre, SMTT(30)
  <2> QED
    BY <1>3, <2>1
<1>6. rl[n][RankIn(rl[n], k)] \in 1..Len(log)
  <2>1. \A m \in DOMAIN rl : \A p \in DOMAIN rl[m] : rl[m][p] \in 1..Len(log)
    BY RanksAre
  <2> QED
    BY <1>3, <1>5, <2>1
<1>7. DOMAIN rl = DOMAIN ls /\ rl[n] = ls[n].rows
  BY <1>3 DEF LegRows
<1> QED
  BY <1>3, <1>4, <1>5, <1>6, <1>7

LEMMA FuseIs ==
  ASSUME RowsInv, NEW ls, LegsOK(log, ls), NEW limit \in Nat
  PROVE  FusedOK(log, ls, Fuse(LegRows(ls), limit))
<1> DEFINE rl == LegRows(ls)
           ordered == InOrder(KeysOf(rl), LAMBDA a, b : AheadOf(rl, a, b))
           size == Min({limit, Len(ordered)})
           rows == [p \in 1..size |-> RowFor(rl, ordered[p])]
<1>1. Fuse(rl, limit) = rows
  BY DEF Fuse, KeysOf, MostOf, BestOf, RowFor, AheadOf, InOrder
<1>2. /\ ordered \in SetToSeqs(KeysOf(rl))
      /\ \A p, q \in DOMAIN ordered : p < q => AheadOf(rl, ordered[p], ordered[q])
  <2>1. \E s \in SetToSeqs(KeysOf(rl)) :
          \A p, q \in DOMAIN s : p < q => AheadOf(rl, s[p], s[q])
    BY KeysAreOrdered
  <2> HIDE DEF rl
  <2> QED
    BY <2>1 DEF InOrder
<1>3. /\ Len(ordered) \in Nat /\ DOMAIN ordered = 1..Len(ordered)
      /\ \A p, q \in DOMAIN ordered : ordered[p] = ordered[q] => p = q
      /\ \A p \in DOMAIN ordered : ordered[p] \in KeysOf(rl)
      /\ \A k \in KeysOf(rl) : \E p \in DOMAIN ordered : ordered[p] = k
  <2> HIDE DEF rl, ordered
  <2>1. IsFiniteSet(KeysOf(rl))
    BY KeysAreOrdered DEF rl
  <2> QED
    BY <1>2, <2>1, ListOfSet
<1> HIDE DEF ordered
<1>4. size \in Nat /\ size <= Len(ordered)
  <2>1. {limit, Len(ordered)} \in SUBSET Nat /\ {limit, Len(ordered)} # {}
    BY <1>3
  <2> QED
    BY <1>3, <2>1, MinIs
<1> HIDE DEF size
<1>5. \A p \in 1..size : p \in DOMAIN ordered /\ ordered[p] \in KeysOf(rl)
  BY <1>3, <1>4
<1>6. \A k \in KeysOf(rl) :
        /\ RowFor(rl, k) \in 1..Len(log) /\ log[RowFor(rl, k)].key = k
        /\ \E n \in DOMAIN ls : \E q \in DOMAIN ls[n].rows : ls[n].rows[q] = RowFor(rl, k)
  BY RowForIs
<1>7. DOMAIN rows = 1..size /\ \A p \in 1..size : rows[p] = RowFor(rl, ordered[p])
  OBVIOUS
<1>8. rows \in Seq(1..Len(log))
  <2>1. \A p \in 1..size : rows[p] \in 1..Len(log)
    BY <1>5, <1>6, <1>7
  <2> QED
    BY <1>4, <2>1
<1> HIDE DEF rows
<1>9. \A p \in 1..size : log[rows[p]].key = ordered[p]
  BY <1>5, <1>6, <1>7
<1>10. \A n \in DOMAIN ls : \A k : RankIn(rl[n], k) = RankOf(log, ls[n].rows, k)
  BY RankInIs DEF LegRows
<1>11. ASSUME NEW p \in 1..size, NEW a \in Plain, Dominates(log, ls, a, ordered[p])
       PROVE  \E p2 \in 1..(p - 1) : log[rows[p2]].key = a
  <2> DEFINE b == ordered[p]
  <2>1. b \in KeysOf(rl) /\ p \in DOMAIN ordered
    BY <1>5
  <2> HIDE DEF b
  <2>2. /\ rl \in Seq(Seq(Nat)) /\ MostOf(rl) \in Nat /\ DOMAIN rl = DOMAIN ls
        /\ \A n \in DOMAIN rl : \A k : RankIn(rl[n], k) \in 0..MostOf(rl)
        /\ \A k : k \in KeysOf(rl) <=> \E n \in DOMAIN rl : RankIn(rl[n], k) # 0
    <3> HIDE DEF rl
    <3> QED
      BY RanksAre DEF rl
  <2>3. \A n \in DOMAIN rl : RankIn(rl[n], b) # 0 =>
          RankIn(rl[n], a) # 0 /\ RankIn(rl[n], a) < RankIn(rl[n], b)
    <3>1. Dominates(log, ls, a, b)
      BY <1>11 DEF b
    <3> HIDE DEF rl
    <3> QED
      BY <1>10, <2>2, <3>1 DEF Dominates
  <2> HIDE DEF rl
  <2>4. PICK best \in DOMAIN rl : RankIn(rl[best], b) # 0
    BY <2>1, <2>2
  <2>5. a \in KeysOf(rl)
    BY <2>2, <2>3, <2>4
  <2>6. Score(rl, a, MostOf(rl)) > Score(rl, b, MostOf(rl))
    BY <2>2, <2>3, <2>4, DominantScores
  <2>7. AheadOf(rl, a, b)
    BY <2>6 DEF AheadOf
  <2>8. ~AheadOf(rl, b, a)
    BY <2>1, <2>5, <2>7, AheadIsBefore DEF rl
  <2>9. PICK p2 \in DOMAIN ordered : ordered[p2] = a
    BY <1>3, <2>5
  <2>10. ~(p <= p2)
    <3>1. ~(p < p2)
      BY <1>2, <2>1, <2>8, <2>9 DEF b
    <3>2. p # p2
      BY <2>7, <2>8, <2>9 DEF b
    <3>3. p \in Nat /\ p2 \in Nat
      BY <1>3, <2>1, <2>9
    <3> QED
      BY <3>1, <3>2, <3>3
  <2>11. p2 \in 1..(p - 1) /\ p2 \in 1..size
    BY <1>3, <1>4, <2>9, <2>10
  <2> QED
    BY <1>9, <2>9, <2>11
<1>12. \A p, p2 \in DOMAIN rows : log[rows[p]].key = log[rows[p2]].key => p = p2
  BY <1>3, <1>5, <1>7, <1>9
<1>13. \A p \in DOMAIN rows :
         \E n \in DOMAIN ls : \E q \in DOMAIN ls[n].rows : ls[n].rows[q] = rows[p]
  BY <1>5, <1>6, <1>7
<1>14. \A p \in DOMAIN rows : \A a \in Plain :
         Dominates(log, ls, a, log[rows[p]].key) => \E p2 \in 1..(p - 1) : log[rows[p2]].key = a
  BY <1>7, <1>9, <1>11
<1> QED
  BY <1>1, <1>8, <1>12, <1>13, <1>14 DEF FusedOK

-----------------------------------------------------------------------------
(* Cosines.                                                                 *)

ClosenessIn(l, v, i) == Cosine[v][l[i].val]
SemanticFor(l, ls, k) ==
    {n \in DOMAIN ls : ls[n].by # "keyword" /\ RankOf(l, ls[n].rows, k) # 0}
ShownFor(l, ls, n, k) == ls[n].rows[RankOf(l, ls[n].rows, k)]
Rewritten(l, ls, k) == LatestIn(l, k, ls[1].at) # LatestIn(l, k, Last(ls).at)

LEMMA GreatestIsMax ==
  ASSUME NEW S \in SUBSET Int, NEW m \in S, \A x \in S : x <= m
  PROVE  Max(S) = m
<1> DEFINE Greatest(x) == \A y \in S : x >= y
<1>1. Greatest(m)
  OBVIOUS
<1>2. \A x \in S : Greatest(x) => x = m
  OBVIOUS
<1>3. Max(S) = CHOOSE x \in S : Greatest(x)
  BY DEF Max
<1> HIDE DEF Greatest
<1>4. (CHOOSE x \in S : Greatest(x)) \in S /\ Greatest(CHOOSE x \in S : Greatest(x))
  BY <1>1
<1> QED
  BY <1>2, <1>3, <1>4

\* The row a leg shows for a key.
LEMMA ShownIs ==
  ASSUME NEW l, NEW ls, LegsOK(l, ls), NEW n \in DOMAIN ls, NEW k,
         RankOf(l, ls[n].rows, k) # 0
  PROVE  /\ RankOf(l, ls[n].rows, k) \in DOMAIN ls[n].rows
         /\ l[ShownFor(l, ls, n, k)].key = k
         /\ ShownFor(l, ls, n, k) = LatestIn(l, k, ls[n].at)
         /\ ls[n].by # "keyword" => l[ShownFor(l, ls, n, k)].val \in Values
         /\ \A p \in DOMAIN ls[n].rows : l[ls[n].rows[p]].key = k =>
              ls[n].rows[p] = ShownFor(l, ls, n, k)
<1>1. LegOK(l, ls[n])
  BY DEF LegsOK
<1>2. LET m == RankOf(l, ls[n].rows, k) IN
      /\ m # 0 => m \in DOMAIN ls[n].rows /\ l[ls[n].rows[m]].key = k
      /\ \A p \in DOMAIN ls[n].rows : l[ls[n].rows[p]].key = k => m = p
  BY <1>1, RankIs
<1>3. \A p \in DOMAIN ls[n].rows :
        /\ ls[n].rows[p] = LatestIn(l, l[ls[n].rows[p]].key, ls[n].at)
        /\ ls[n].by # "keyword" => l[ls[n].rows[p]].val \in Values
  BY <1>1 DEF LegOK
<1> QED
  BY <1>2, <1>3 DEF ShownFor

LEMMA ClosenessType ==
  ASSUME NEW v \in {"text", "hyde"}, NEW x \in Values
  PROVE  Cosine[v][x] \in 0..100
<1>1. Cosine \in [{"text", "hyde"} -> [Values -> 0..100]]
  BY ReadingAssumption
<1>2. Cosine[v] \in [Values -> 0..100]
  BY <1>1
<1> QED
  BY <1>2

\* The best of what the semantic legs that found a key say of it.
LEMMA CosineIs ==
  ASSUME NEW ls, LegsOK(log, ls), NEW k
  PROVE  LET S == SemanticFor(log, ls, k)
             C == {ClosenessIn(log, ls[n].by, ShownFor(log, ls, n, k)) : n \in S}
         IN /\ CosineOf(ls, k) \in -1..100
            /\ CosineOf(ls, k) = NoCosine <=> S = {}
            /\ S # {} => CosineOf(ls, k) \in C
            /\ C \in SUBSET (0..100) /\ \A x \in C : x <= CosineOf(ls, k)
<1> DEFINE S == SemanticFor(log, ls, k)
           close(n) == ClosenessIn(log, ls[n].by, ShownFor(log, ls, n, k))
           C == {close(n) : n \in S}
           U == UNION {{Closeness(ls[n].by, i) : i \in {m \in ToSet(ls[n].rows) : log[m].key = k}} :
                       n \in {m \in DOMAIN ls : ls[m].by # "keyword"}}
<1>1. ASSUME NEW n \in DOMAIN ls, ls[n].by # "keyword", NEW p \in DOMAIN ls[n].rows,
             log[ls[n].rows[p]].key = k
      PROVE  n \in S /\ ls[n].rows[p] = ShownFor(log, ls, n, k)
  <2>1. LegOK(log, ls[n])
    BY DEF LegsOK
  <2>2. RankOf(log, ls[n].rows, k) = p /\ p # 0
    <3>1. RankOf(log, ls[n].rows, k) = p
      BY <1>1, <2>1, RankIs
    <3>2. p \in Nat \ {0}
      BY <2>1 DEF LegOK
    <3> QED
      BY <3>1, <3>2
  <2> QED
    BY <1>1, <2>2 DEF SemanticFor, ShownFor
<1>2. ASSUME NEW n \in S
      PROVE  /\ n \in DOMAIN ls /\ ls[n].by # "keyword"
             /\ \E p \in DOMAIN ls[n].rows :
                  log[ls[n].rows[p]].key = k /\ ls[n].rows[p] = ShownFor(log, ls, n, k)
             /\ close(n) \in 0..100
  <2>1. n \in DOMAIN ls /\ ls[n].by # "keyword" /\ RankOf(log, ls[n].rows, k) # 0
    BY DEF SemanticFor
  <2>2. ls[n].by \in {"text", "hyde"}
    BY <2>1 DEF LegsOK, LegOK
  <2>3. /\ RankOf(log, ls[n].rows, k) \in DOMAIN ls[n].rows
        /\ log[ShownFor(log, ls, n, k)].key = k
        /\ log[ShownFor(log, ls, n, k)].val \in Values
    BY <2>1, ShownIs
  <2>4. close(n) \in 0..100
    BY <2>2, <2>3, ClosenessType DEF ClosenessIn
  <2> QED
    BY <2>1, <2>3, <2>4 DEF ShownFor
<1>3. U \subseteq C
  <2> SUFFICES ASSUME NEW n \in DOMAIN ls, ls[n].by # "keyword",
                      NEW i \in ToSet(ls[n].rows), log[i].key = k
               PROVE  Closeness(ls[n].by, i) \in C
    OBVIOUS
  <2>1. PICK p \in DOMAIN ls[n].rows : ls[n].rows[p] = i
    BY DEF ToSet
  <2>2. n \in S /\ i = ShownFor(log, ls, n, k)
    BY <1>1, <2>1
  <2>3. Closeness(ls[n].by, i) = close(n)
    BY <2>2 DEF Closeness, ClosenessIn
  <2> QED
    BY <2>2, <2>3
<1>4. C \subseteq U
  <2> SUFFICES ASSUME NEW n \in S
               PROVE  close(n) \in U
    OBVIOUS
  <2>1. PICK p \in DOMAIN ls[n].rows :
          log[ls[n].rows[p]].key = k /\ ls[n].rows[p] = ShownFor(log, ls, n, k)
    BY <1>2
  <2>2. ls[n].rows[p] \in ToSet(ls[n].rows)
    BY DEF ToSet
  <2>3. close(n) = Closeness(ls[n].by, ls[n].rows[p])
    BY <2>1 DEF Closeness, ClosenessIn
  <2>4. n \in DOMAIN ls /\ ls[n].by # "keyword"
    BY <1>2
  <2> QED
    BY <2>1, <2>2, <2>3, <2>4
<1>5. CosineOf(ls, k) = Max({NoCosine} \cup C)
  <2>1. CosineOf(ls, k) = Max({NoCosine} \cup U)
    BY DEF CosineOf
  <2> HIDE DEF U, C
  <2> QED
    BY <1>3, <1>4, <2>1
<1>6. C \in SUBSET (0..100) /\ (C = {} <=> S = {})
  <2>1. \A n \in S : close(n) \in 0..100
    BY <1>2
  <2> HIDE DEF S, close
  <2> QED
    BY <2>1
<1> HIDE DEF C
<1>7. {NoCosine} \cup C \in SUBSET (-1..100) /\ {NoCosine} \cup C # {}
  BY <1>6 DEF NoCosine
<1>8. /\ Max({NoCosine} \cup C) \in {NoCosine} \cup C
      /\ \A x \in {NoCosine} \cup C : x <= Max({NoCosine} \cup C)
  <2>1. -1 \in Int /\ 100 \in Int
    OBVIOUS
  <2> QED
    BY <1>7, <2>1, MaxIs
<1>9. CosineOf(ls, k) \in -1..100 /\ \A x \in C : x <= CosineOf(ls, k)
  BY <1>5, <1>7, <1>8
<1>10. C # {} => CosineOf(ls, k) \in C /\ CosineOf(ls, k) # NoCosine
  <2> SUFFICES ASSUME NEW x \in C
               PROVE  CosineOf(ls, k) \in C /\ CosineOf(ls, k) # NoCosine
    OBVIOUS
  <2>1. x \in 0..100 /\ x <= CosineOf(ls, k) /\ CosineOf(ls, k) \in -1..100
    BY <1>6, <1>9
  <2>2. CosineOf(ls, k) # NoCosine
    BY <2>1 DEF NoCosine
  <2> QED
    BY <1>5, <1>8, <2>2
<1>11. C = {} => CosineOf(ls, k) = NoCosine
  BY <1>5, <1>8
<1> QED
  BY <1>6, <1>9, <1>10, <1>11 DEF C

LEMMA LatestInGrows ==
  ASSUME NEW l, NEW n \in Nat, NEW m \in Nat, n <= m, NEW k
  PROVE  LatestIn(l, k, n) <= LatestIn(l, k, m)
<1>1. /\ LatestIn(l, k, n) \in 0..n
      /\ LatestIn(l, k, n) # 0 => l[LatestIn(l, k, n)].key = k
  BY LatestInIs
<1>2. /\ LatestIn(l, k, m) \in 0..m
      /\ \A i \in 1..m : l[i].key = k => i <= LatestIn(l, k, m)
  BY LatestInIs
<1> QED
  BY <1>1, <1>2

\* Of a key that was not written meanwhile, all legs show the same row.
LEMMA SameRowShown ==
  ASSUME NEW l, Len(l) \in Nat, NEW ls, LegsOK(l, ls), NEW k, ~Rewritten(l, ls, k),
         NEW n \in DOMAIN ls
  PROVE  LatestIn(l, k, ls[n].at) = LatestIn(l, k, ls[1].at)
<1>1. PICK T : ls \in Seq(T)
  BY DEF LegsOK
<1>2. DOMAIN ls = 1..Len(ls) /\ Len(ls) \in Nat /\ Last(ls) = ls[Len(ls)]
  BY <1>1 DEF Last
<1>3. 1 \in DOMAIN ls /\ Len(ls) \in DOMAIN ls /\ 1 <= n /\ n <= Len(ls)
  BY <1>2
<1>4. \A p \in DOMAIN ls : ls[p].at \in Nat
  BY DEF LegsOK, LegOK
<1>5. \A p, q \in DOMAIN ls : p < q => ls[p].at <= ls[q].at
  BY DEF LegsOK
<1>6. ls[1].at <= ls[n].at /\ ls[n].at <= ls[Len(ls)].at
  <2>1. 1 < n \/ 1 = n
    BY <1>2, <1>3
  <2>2. n < Len(ls) \/ n = Len(ls)
    BY <1>2, <1>3
  <2> QED
    BY <1>3, <1>4, <1>5, <2>1, <2>2
<1> DEFINE a == LatestIn(l, k, ls[1].at)
           b == LatestIn(l, k, ls[n].at)
           c == LatestIn(l, k, ls[Len(ls)].at)
<1>7. a <= b
  BY <1>3, <1>4, <1>6, LatestInGrows
<1>8. b <= c
  BY <1>3, <1>4, <1>6, LatestInGrows
<1>9. a \in Nat /\ b \in Nat /\ c \in Nat
  <2>1. \A p \in DOMAIN ls : LatestIn(l, k, ls[p].at) \in Nat
    BY <1>4, LatestInIs
  <2> QED
    BY <1>3, <2>1
<1>10. a = c
  BY <1>2 DEF Rewritten
<1> HIDE DEF a, b, c
<1>11. b = a
  BY <1>7, <1>8, <1>9, <1>10
<1> QED
  BY <1>11 DEF a, b

-----------------------------------------------------------------------------
(* What is judged.                                                          *)

\* The cosine a row is judged by is the row's, unless its key was rewritten.
CosineFits(l, ls, e) ==
    LET S == SemanticFor(l, ls, l[e.row].key) IN
    /\ (e.cosine = NoCosine) = (S = {})
    /\ e.cosine # NoCosine =>
         \/ Rewritten(l, ls, l[e.row].key)
         \/ e.cosine = Max({ClosenessIn(l, ls[n].by, e.row) : n \in S})

\* The guard's verdicts on rows agree.
GuardAgrees(judged) ==
    \A p \in DOMAIN judged :
      /\ judged[p].admitted \in BOOLEAN /\ judged[p].cosine \in -1..100
      /\ ~judged[p].admitted =>
           /\ judged[p].cosine # NoCosine
           /\ \A p2 \in DOMAIN judged :
                judged[p2].admitted /\ judged[p2].cosine # NoCosine
                  => judged[p].cosine < judged[p2].cosine
           /\ judged[p].cosine >= Floor =>
                \E p2 \in DOMAIN judged :
                  judged[p2].admitted /\ judged[p2].cosine > judged[p].cosine

LEMMA CosineOfRow ==
  ASSUME RowsInv, NEW ls, LegsOK(log, ls), NEW rows, FusedOK(log, ls, rows),
         NEW p \in DOMAIN rows, NEW e,
         e.row = rows[p], e.cosine = CosineOf(ls, log[rows[p]].key)
  PROVE  CosineFits(log, ls, e)
<1> DEFINE k == log[e.row].key
           S == SemanticFor(log, ls, k)
           C == {ClosenessIn(log, ls[n].by, ShownFor(log, ls, n, k)) : n \in S}
           D == {ClosenessIn(log, ls[n].by, e.row) : n \in S}
<1>1. /\ e.cosine = NoCosine <=> S = {}
      /\ S # {} => e.cosine \in C
      /\ C \in SUBSET (0..100) /\ \A x \in C : x <= e.cosine
  BY CosineIs
<1>2. ASSUME ~Rewritten(log, ls, k)
      PROVE  C = D
  <2>1. PICK m \in DOMAIN ls : \E q \in DOMAIN ls[m].rows : ls[m].rows[q] = e.row
    BY DEF FusedOK
  <2>2. PICK q \in DOMAIN ls[m].rows : ls[m].rows[q] = e.row
    BY <2>1
  <2>3. e.row = LatestIn(log, k, ls[m].at)
    BY <2>2 DEF LegsOK, LegOK
  <2>4. e.row = LatestIn(log, k, ls[1].at)
    BY <1>2, <2>3, LogIsList, SameRowShown
  <2>5. \A n \in S : ShownFor(log, ls, n, k) = e.row
    <3> SUFFICES ASSUME NEW n \in S
                 PROVE  ShownFor(log, ls, n, k) = e.row
      OBVIOUS
    <3>1. n \in DOMAIN ls /\ RankOf(log, ls[n].rows, k) # 0
      BY DEF SemanticFor
    <3>2. ShownFor(log, ls, n, k) = LatestIn(log, k, ls[n].at)
      BY <3>1, ShownIs
    <3> QED
      BY <1>2, <2>4, <3>1, <3>2, LogIsList, SameRowShown
  <2> HIDE DEF S, k
  <2> QED
    BY <2>5
<1>3. e.cosine # NoCosine => Rewritten(log, ls, k) \/ e.cosine = Max(D)
  <2> SUFFICES ASSUME e.cosine # NoCosine, ~Rewritten(log, ls, k)
               PROVE  e.cosine = Max(D)
    OBVIOUS
  <2> HIDE DEF S, k
  <2>1. C = D
    BY <1>2
  <2> HIDE DEF C, D
  <2>2. e.cosine \in D /\ D \in SUBSET Int /\ \A x \in D : x <= e.cosine
    BY <1>1, <2>1
  <2> QED
    BY <2>2, GreatestIsMax
<1> QED
  BY <1>1, <1>3 DEF CosineFits

LEMMA AdmittedIs ==
  ASSUME NEW n \in Nat, NEW cos \in [1..n -> -1..100]
  PROVE  \E top \in 0..100 :
           /\ top # 0 => \E p \in 1..n : cos[p] = top
           /\ \A p \in 1..n : cos[p] <= top
           /\ \A p \in 1..n : Admitted(cos[p], ToSet(cos)) <=>
                cos[p] = NoCosine \/ (cos[p] >= Floor /\ cos[p] * 100 >= Alpha * top)
<1> DEFINE S == {0} \cup ToSet(cos)
           top == Max(S)
<1>1. S \in SUBSET (-1..100) /\ S # {}
  <2>1. \A p \in DOMAIN cos : cos[p] \in -1..100
    OBVIOUS
  <2>2. ToSet(cos) \subseteq -1..100 /\ 0 \in -1..100
    <3> DEFINE T == -1..100
    <3>1. \A p \in DOMAIN cos : cos[p] \in T
      BY <2>1
    <3>2. 0 \in T
      OBVIOUS
    <3> HIDE DEF T
    <3>3. ToSet(cos) \subseteq T
      BY <3>1, Zenon DEF ToSet
    <3> QED
      BY <3>2, <3>3 DEF T
  <2> QED
    BY <2>2
<1>2. 0 \in S /\ (\A p \in 1..n : cos[p] \in S) /\ \A x \in S : x # 0 => \E p \in 1..n : cos[p] = x
  BY DEF ToSet
<1>3. \A p \in 1..n : Admitted(cos[p], ToSet(cos)) <=>
        cos[p] = NoCosine \/ (cos[p] >= Floor /\ cos[p] * 100 >= Alpha * top)
  BY DEF Admitted
<1> HIDE DEF S
<1>4. top \in S /\ \A x \in S : x <= top
  <2>1. -1 \in Int /\ 100 \in Int
    OBVIOUS
  <2> QED
    BY <1>1, <2>1, MaxIs
<1> HIDE DEF top
<1>5. top \in 0..100
  BY <1>1, <1>2, <1>4
<1> QED
  BY <1>2, <1>3, <1>4, <1>5

\* The arithmetic of the guard.
LEMMA GuardCompares ==
  ASSUME NEW c \in -1..100, NEW c2 \in -1..100, NEW top \in 0..100, NEW floor \in 0..100,
         NEW enough \in Nat, enough <= 100 * top, ~(c >= floor /\ c * 100 >= enough)
  PROVE  /\ c2 >= floor /\ c2 * 100 >= enough => c < c2
         /\ c >= floor => c < top /\ top # 0 /\ top >= floor
OBVIOUS

LEMMA JudgeIs ==
  ASSUME RowsInv, NEW ls, LegsOK(log, ls), NEW rows, FusedOK(log, ls, rows)
  PROVE  LET judged == Judge(rows, ls) IN
         /\ DOMAIN judged = 1..Len(rows) /\ Len(rows) \in Nat
         /\ DOMAIN rows = 1..Len(rows)
         /\ \A p \in 1..Len(rows) : judged[p].row = rows[p] /\ CosineFits(log, ls, judged[p])
         /\ GuardAgrees(judged)
<1> DEFINE n == Len(rows)
           cos == [p \in DOMAIN rows |-> CosineOf(ls, log[rows[p]].key)]
           judged == Judge(rows, ls)
<1>1. n \in Nat /\ DOMAIN rows = 1..n
  BY DEF FusedOK
<1>2. cos \in [1..n -> -1..100]
  <2>1. \A p \in 1..n : CosineOf(ls, log[rows[p]].key) \in -1..100
    BY CosineIs
  <2> QED
    BY <1>1, <2>1
<1>3. DOMAIN judged = 1..n /\ \A p \in 1..n :
        judged[p] = [row |-> rows[p], cosine |-> cos[p], admitted |-> Admitted(cos[p], ToSet(cos))]
  BY <1>1 DEF Judge
<1>4. \A p \in 1..n : cos[p] = CosineOf(ls, log[rows[p]].key)
  BY <1>1
<1> HIDE DEF judged, cos
<1>5. \A p \in 1..n : /\ judged[p].row = rows[p] /\ judged[p].cosine = cos[p]
                      /\ judged[p].admitted = Admitted(cos[p], ToSet(cos))
  BY <1>3
<1>6. \A p \in 1..n : CosineFits(log, ls, judged[p])
  BY <1>1, <1>4, <1>5, CosineOfRow
<1>7. PICK top \in 0..100 :
           /\ top # 0 => \E p \in 1..n : cos[p] = top
           /\ \A p \in 1..n : cos[p] <= top
           /\ \A p \in 1..n : Admitted(cos[p], ToSet(cos)) <=>
                cos[p] = NoCosine \/ (cos[p] >= Floor /\ cos[p] * 100 >= Alpha * top)
  <2> HIDE DEF n
  <2> QED
    BY <1>1, <1>2, AdmittedIs
<1> DEFINE enough == Alpha * top
<1>8. enough \in Nat /\ enough <= 100 * top /\ Floor \in 0..100 /\ top \in 0..100
  <2>1. Alpha \in 0..100 /\ Floor \in 0..100
    BY ReadingAssumption
  <2>2. (100 - Alpha) \in Nat /\ top \in Nat
    BY <2>1
  <2>3. (100 - Alpha) * top \in Nat
    BY <2>2
  <2>4. (100 - Alpha) * top = 100 * top - Alpha * top
    BY <2>1
  <2>5. Alpha * top \in Nat
    BY <2>1
  <2> QED
    BY <2>1, <2>3, <2>4, <2>5
<1>9. \A p \in 1..n : judged[p].admitted \in BOOLEAN
  BY <1>5 DEF Admitted
<1>10. \A p \in 1..n : judged[p].admitted <=>
         cos[p] = NoCosine \/ (cos[p] >= Floor /\ cos[p] * 100 >= enough)
  BY <1>5, <1>7
<1> HIDE DEF enough
<1>11. ASSUME NEW p \in 1..n, ~judged[p].admitted
       PROVE  /\ cos[p] # NoCosine
              /\ \A p2 \in 1..n : judged[p2].admitted /\ cos[p2] # NoCosine => cos[p] < cos[p2]
              /\ cos[p] >= Floor => \E p2 \in 1..n : judged[p2].admitted /\ cos[p2] > cos[p]
  <2>1. cos[p] # NoCosine /\ ~(cos[p] >= Floor /\ cos[p] * 100 >= enough)
    BY <1>10, <1>11
  <2>2. cos[p] \in -1..100
    BY <1>2
  <2>3. ASSUME NEW p2 \in 1..n, judged[p2].admitted, cos[p2] # NoCosine
        PROVE  cos[p] < cos[p2]
    <3>1. cos[p2] >= Floor /\ cos[p2] * 100 >= enough /\ cos[p2] \in -1..100
      BY <1>2, <1>10, <2>3
    <3> QED
      BY <1>8, <2>1, <2>2, <3>1, GuardCompares
  <2>4. ASSUME cos[p] >= Floor
        PROVE  \E p2 \in 1..n : judged[p2].admitted /\ cos[p2] > cos[p]
    <3>1. cos[p] < top /\ top # 0 /\ top >= Floor
      BY <1>8, <2>1, <2>2, <2>4, GuardCompares
    <3>3. PICK p2 \in 1..n : cos[p2] = top
      BY <1>7, <3>1
    <3>4. cos[p2] >= Floor /\ cos[p2] * 100 >= enough
      BY <1>8, <3>1, <3>3
    <3> QED
      BY <1>10, <3>1, <3>3, <3>4
  <2> QED
    BY <2>1, <2>3, <2>4
<1>12. GuardAgrees(judged)
  BY <1>2, <1>3, <1>5, <1>9, <1>11 DEF GuardAgrees
<1> QED
  BY <1>1, <1>3, <1>5, <1>6, <1>12 DEF judged, n

-----------------------------------------------------------------------------
(* What is answered.                                                        *)

\* Some of the items of a list that stand at some positions, none twice, all of
\* them where there are fewer than the limit.
Picks(t, f, s, P, n) ==
    /\ Len(t) \in Nat /\ DOMAIN t = 1..Len(t) /\ (\E S : t \in Seq(S))
    /\ f \in [1..Len(t) -> P]
    /\ \A i \in 1..Len(t) : t[i] = s[f[i]]
    /\ \A i, i2 \in 1..Len(t) : f[i] = f[i2] => i = i2
    /\ Len(t) = n \/ \A p \in P : \E i \in 1..Len(t) : f[i] = p

LEMMA ItemsAtIs ==
  ASSUME NEW P \in SUBSET Nat, IsFiniteSet(P), NEW s
  PROVE  \E ps \in SetToSeqs(P) : ItemsAt(s, P) = [n \in DOMAIN ps |-> s[ps[n]]]
<1> DEFINE R == {e \in P \X P : e[1] < e[2]}
<1>1. \A x, y \in P : <<x, y>> \in R <=> x < y
  OBVIOUS
<1>2. \A x \in P : <<x, x>> \notin R
  BY <1>1
<1>3. \A x, y \in P : x # y => <<x, y>> \in R \/ <<y, x>> \in R
  BY <1>1
<1>4. \A x, y, z \in P : <<x, y>> \in R /\ <<y, z>> \in R => <<x, z>> \in R
  BY <1>1
<1> HIDE DEF R
<1>5. PICK l \in SetToSeqs(P) : \A p, q \in DOMAIN l : p < q => <<l[p], l[q]>> \in R
  BY <1>2, <1>3, <1>4, OrderLists
<1>6. \A p \in DOMAIN l : l[p] \in P
  BY ListOfSet
<1>7. \A p, q \in DOMAIN l : p < q => l[p] < l[q]
  BY <1>1, <1>5, <1>6
<1> DEFINE ps == InOrder(P, <)
<1>8. ps \in SetToSeqs(P)
  BY <1>7 DEF InOrder
<1>9. ItemsAt(s, P) = [n \in DOMAIN ps |-> s[ps[n]]]
  BY DEF ItemsAt
<1> HIDE DEF ps
<1> QED
  BY <1>8, <1>9

LEMMA FirstOfItems ==
  ASSUME NEW m \in Nat, NEW s, NEW P \in SUBSET (1..m), NEW n \in Nat
  PROVE  \E f : Picks(FirstOf(ItemsAt(s, P), n), f, s, P, n)
<1>1. IsFiniteSet(P) /\ P \in SUBSET Nat
  <2>1. IsFiniteSet(1..m)
    BY FS_Interval
  <2>2. IsFiniteSet(P)
    BY <2>1, FS_Subset
  <2> QED
    BY <2>2
<1>2. PICK ps \in SetToSeqs(P) : ItemsAt(s, P) = [i \in DOMAIN ps |-> s[ps[i]]]
  BY <1>1, ItemsAtIs
<1>3. /\ Len(ps) \in Nat /\ DOMAIN ps = 1..Len(ps)
      /\ \A p, q \in DOMAIN ps : ps[p] = ps[q] => p = q
      /\ \A p \in DOMAIN ps : ps[p] \in P
      /\ \A x \in P : \E p \in DOMAIN ps : ps[p] = x
  BY <1>1, ListOfSet
<1> DEFINE items == [i \in 1..Len(ps) |-> s[ps[i]]]
           S == {items[i] : i \in 1..Len(ps)}
           size == Min({n, Len(items)})
           t == SubSeq(items, 1, size)
           f == [i \in 1..size |-> ps[i]]
<1>4. items \in Seq(S) /\ Len(items) = Len(ps)
  BY <1>3
<1>5. \A i \in 1..Len(ps) : items[i] = s[ps[i]]
  OBVIOUS
<1>6. FirstOf(ItemsAt(s, P), n) = t
  BY <1>2, <1>3 DEF FirstOf
<1> HIDE DEF items, S
<1>7. size \in Nat /\ size <= Len(ps) /\ (size = n \/ size = Len(ps))
  <2>1. {n, Len(items)} \in SUBSET Nat /\ {n, Len(items)} # {}
    BY <1>3, <1>4
  <2>2. size \in {n, Len(items)} /\ \A x \in {n, Len(items)} : size <= x
    BY <2>1, MinIs
  <2> QED
    BY <1>3, <1>4, <2>2
<1> HIDE DEF size
<1>8. t \in Seq(S) /\ Len(t) = size /\ DOMAIN t = 1..size /\ \A i \in 1..size : t[i] = items[i]
  BY <1>4, <1>7, FirstOfAList
<1> HIDE DEF t
<1>9. \A i \in 1..size : i \in 1..Len(ps) /\ i \in DOMAIN ps
  <2>1. \A i \in 1..size : i \in 1..Len(ps)
    <3> HIDE DEF f
    <3>1. Len(ps) \in Nat /\ size \in Nat /\ size <= Len(ps)
      BY <1>3, <1>7
    <3> QED
      BY <3>1
  <2> QED
    BY <1>3, <2>1
<1>10. f \in [1..size -> P] /\ \A i \in 1..size : f[i] = ps[i]
  BY <1>3, <1>9
<1> HIDE DEF f
<1>11. \A i \in 1..size : t[i] = s[f[i]]
  BY <1>5, <1>8, <1>9, <1>10
<1>12. \A i, i2 \in 1..size : f[i] = f[i2] => i = i2
  BY <1>3, <1>9, <1>10
<1>13. size = Len(ps) => \A p \in P : \E i \in 1..size : f[i] = p
  BY <1>3, <1>10
<1>14. Picks(t, f, s, P, n)
  BY <1>7, <1>8, <1>10, <1>11, <1>12, <1>13 DEF Picks
<1> QED
  BY <1>6, <1>14

\* An answer takes rows from those judged, none twice; recall's leaves out what
\* is refused unless asked, and is full where it leaves out what is admitted.
AnswerFrom(q, ans, judged, n, g) ==
    /\ \E size \in Nat : DOMAIN ans = 1..size
    /\ g \in [DOMAIN ans -> 1..n]
    /\ \A i \in DOMAIN ans : ans[i] = judged[g[i]]
    /\ \A i, i2 \in DOMAIN ans : g[i] = g[i2] => i = i2
    /\ q.op = "search" => ans = judged /\ \A i \in DOMAIN ans : g[i] = i
    /\ q.op = "recall" =>
         /\ \A i \in DOMAIN ans : ~ans[i].admitted => q.include_below_floor
         /\ \/ Cardinality({i \in DOMAIN ans : ans[i].admitted}) = q.limit
            \/ \A p \in 1..n : judged[p].admitted => \E i \in DOMAIN ans : g[i] = p
    /\ q.op = "search" \/ q.op = "recall"

LEMMA RecallPicks ==
  ASSUME NEW q, q.op = "recall", q.limit \in Nat, NEW n \in Nat, NEW judged,
         \A p \in 1..n : judged[p].admitted \in BOOLEAN,
         NEW t, NEW f, NEW u, NEW h,
         Picks(t, f, judged, {p \in 1..n : judged[p].admitted}, q.limit),
         q.include_below_floor =>
           Picks(u, h, judged, {p \in 1..n : ~judged[p].admitted}, q.limit),
         ~q.include_below_floor => u = <<>>
  PROVE  \E g : AnswerFrom(q, t \o u, judged, n, g)
<1> DEFINE A == {p \in 1..n : judged[p].admitted}
           B == {p \in 1..n : ~judged[p].admitted}
           ans == t \o u
           size == Len(t) + Len(u)
           g == [i \in 1..size |-> IF i <= Len(t) THEN f[i] ELSE h[i - Len(t)]]
<1>1. /\ Len(t) \in Nat /\ DOMAIN t = 1..Len(t) /\ \E S : t \in Seq(S)
      /\ \A i \in 1..Len(t) : f[i] \in A /\ t[i] = judged[f[i]]
      /\ \A i, i2 \in 1..Len(t) : f[i] = f[i2] => i = i2
      /\ Len(t) = q.limit \/ \A p \in A : \E i \in 1..Len(t) : f[i] = p
  BY DEF Picks
<1>2. /\ Len(u) \in Nat /\ \E S : u \in Seq(S)
      /\ \A i \in 1..Len(u) : h[i] \in B /\ u[i] = judged[h[i]]
      /\ \A i, i2 \in 1..Len(u) : h[i] = h[i2] => i = i2
      /\ Len(u) # 0 => q.include_below_floor
  <2>1. CASE q.include_below_floor
    BY <2>1 DEF Picks
  <2>2. CASE ~q.include_below_floor
    <3>1. u = <<>>
      BY <2>2
    <3>2. Len(u) = 0 /\ u \in Seq({})
      BY <3>1
    <3>3. \A i : i \notin 1..Len(u)
      BY <3>2
    <3>4. \E S : u \in Seq(S)
      BY <3>2
    <3> QED
      BY <3>2, <3>3, <3>4
  <2> QED
    BY <2>1, <2>2
<1>3. /\ DOMAIN ans = 1..size /\ size \in Nat
      /\ \A i \in 1..Len(t) : ans[i] = t[i]
      /\ \A i \in 1..size : i > Len(t) => ans[i] = u[i - Len(t)]
  <2>1. PICK S : t \in Seq(S)
    BY <1>1
  <2>2. PICK T : u \in Seq(T)
    BY <1>2
  <2> DEFINE V == S \cup T
  <2>3. t \in Seq(V) /\ u \in Seq(V)
    BY <2>1, <2>2, SeqMonotonic
  <2> HIDE DEF V
  <2>4. /\ t \o u \in Seq(V) /\ Len(t \o u) = Len(t) + Len(u)
        /\ \A i \in 1..Len(t) + Len(u) :
             (t \o u)[i] = IF i <= Len(t) THEN t[i] ELSE u[i - Len(t)]
    BY <2>3, ConcatProperties
  <2> QED
    BY <1>1, <1>2, <2>4
<1>4. \A i \in 1..size : /\ i <= Len(t) => g[i] = f[i] /\ i \in 1..Len(t)
                         /\ i > Len(t) => g[i] = h[i - Len(t)] /\ i - Len(t) \in 1..Len(u)
                         /\ i <= Len(t) \/ i > Len(t)
  BY <1>1, <1>2
<1>5. DOMAIN g = 1..size
  OBVIOUS
<1>6. A \subseteq 1..n /\ B \subseteq 1..n /\ A \cap B = {}
  OBVIOUS
<1>7. (\A p \in A : judged[p].admitted) /\ (\A p \in B : ~judged[p].admitted)
      /\ \A p \in 1..n : judged[p].admitted => p \in A
  OBVIOUS
<1> HIDE DEF A, B, ans, size
<1>8. g \in [1..size -> 1..n] /\ \A i \in 1..size : ans[i] = judged[g[i]]
  <2>1. \A i \in 1..size : g[i] \in 1..n /\ ans[i] = judged[g[i]]
    BY <1>1, <1>2, <1>3, <1>4, <1>6
  <2> HIDE DEF g
  <2>2. g = [i \in 1..size |-> g[i]]
    BY <1>5 DEF g
  <2> QED
    BY <2>1, <2>2
<1> HIDE DEF g
<1>9. \A i \in 1..size : (i <= Len(t) <=> g[i] \in A) /\ (i > Len(t) <=> g[i] \in B)
  <2> SUFFICES ASSUME NEW i \in 1..size
               PROVE  (i <= Len(t) <=> g[i] \in A) /\ (i > Len(t) <=> g[i] \in B)
    OBVIOUS
  <2>0. i \in Nat /\ Len(t) \in Nat
    BY <1>1, <1>3
  <2>3. ~(g[i] \in A /\ g[i] \in B)
    BY <1>6
  <2>1. CASE i <= Len(t)
    <3>1. g[i] \in A
      BY <1>1, <1>4, <2>1
    <3>2. ~(i > Len(t))
      BY <2>0, <2>1
    <3> QED
      BY <2>1, <2>3, <3>1, <3>2
  <2>2. CASE i > Len(t)
    <3>1. g[i] \in B
      BY <1>2, <1>4, <2>2
    <3>2. ~(i <= Len(t))
      BY <2>0, <2>2
    <3> QED
      BY <2>2, <2>3, <3>1, <3>2
  <2> QED
    BY <1>4, <2>1, <2>2
<1>10. ASSUME NEW i \in 1..size, NEW i2 \in 1..size, g[i] = g[i2]
       PROVE  i = i2
  <2>1. CASE i <= Len(t)
    <3>1. i2 <= Len(t)
      BY <1>9, <1>10, <2>1
    <3> QED
      BY <1>1, <1>4, <1>10, <2>1, <3>1
  <2>2. CASE i > Len(t)
    <3>1. i2 > Len(t)
      BY <1>9, <1>10, <2>2
    <3>2. i - Len(t) = i2 - Len(t)
      BY <1>2, <1>4, <1>10, <2>2, <3>1
    <3> QED
      BY <1>1, <1>3, <3>2
  <2> QED
    BY <1>4, <2>1, <2>2
<1>11. \A i \in 1..size : ans[i].admitted <=> i <= Len(t)
  BY <1>4, <1>7, <1>8, <1>9
<1>12. {i \in DOMAIN ans : ans[i].admitted} = 1..Len(t)
  <2>1. \A i \in 1..Len(t) : i \in 1..size /\ i <= Len(t)
    BY <1>1, <1>2 DEF size
  <2>2. \A i \in 1..size : i <= Len(t) => i \in 1..Len(t)
    BY <1>4
  <2> QED
    BY <1>3, <1>11, <2>1, <2>2
<1>13. \A i \in DOMAIN ans : ~ans[i].admitted => q.include_below_floor
  <2> SUFFICES ASSUME NEW i \in 1..size, ~ans[i].admitted
               PROVE  q.include_below_floor
    BY <1>3
  <2>1. i > Len(t) /\ i - Len(t) \in 1..Len(u)
    BY <1>4, <1>11
  <2>2. Len(u) # 0
    BY <1>2, <2>1
  <2> QED
    BY <1>2, <2>2
<1>14. CASE Len(t) = q.limit
  <2>1. Cardinality(1..Len(t)) = q.limit
    BY <1>1, <1>14, FS_Interval
  <2>2. Cardinality({i \in DOMAIN ans : ans[i].admitted}) = q.limit
    BY <1>12, <2>1
  <2>3. AnswerFrom(q, ans, judged, n, g)
    BY <1>3, <1>8, <1>10, <1>13, <2>2 DEF AnswerFrom
  <2> QED
    BY <2>3 DEF ans
<1>15. CASE \A p \in A : \E i \in 1..Len(t) : f[i] = p
  <2>1. \A p \in 1..n : judged[p].admitted => \E i \in DOMAIN ans : g[i] = p
    <3> SUFFICES ASSUME NEW p \in 1..n, judged[p].admitted
                 PROVE  \E i \in DOMAIN ans : g[i] = p
      OBVIOUS
    <3>1. PICK i \in 1..Len(t) : f[i] = p
      BY <1>7, <1>15
    <3>2. i \in 1..size /\ i <= Len(t)
      BY <1>1, <1>2 DEF size
    <3> QED
      BY <1>3, <1>4, <3>1, <3>2
  <2>2. AnswerFrom(q, ans, judged, n, g)
    BY <1>3, <1>8, <1>10, <1>13, <2>1 DEF AnswerFrom
  <2> QED
    BY <2>2 DEF ans
<1> QED
  BY <1>1, <1>14, <1>15 DEF A

\* A row that a leg found live.
RowWasLive(l, ls, i) ==
    /\ i \in 1..Len(l) /\ l[i].key \in Plain
    /\ IsLive(l[i]) /\ ~l[i].quarantined
    /\ \E n \in DOMAIN ls : i = LatestIn(l, l[i].key, ls[n].at)

InFusedOrder(l, ls, ans) ==
    \A p \in DOMAIN ans : \A a \in Plain :
      Dominates(l, ls, a, l[ans[p].row].key) => \E p2 \in 1..(p - 1) : l[ans[p2].row].key = a

\* What the guard refused is answered as asked, and behind what it admitted.
GuardKept(q, ans) ==
    \A p \in DOMAIN ans : ~ans[p].admitted =>
      /\ ans[p].cosine # NoCosine
      /\ q.op = "recall" => q.include_below_floor
      /\ \A p2 \in DOMAIN ans :
           ans[p2].admitted /\ ans[p2].cosine # NoCosine => ans[p].cosine < ans[p2].cosine
      /\ ans[p].cosine >= Floor =>
           \/ \E p2 \in DOMAIN ans : ans[p2].cosine > ans[p].cosine
           \/ /\ q.op = "recall"
              /\ Cardinality({p2 \in DOMAIN ans : ans[p2].admitted}) = q.limit

AnswerOK(l, q, ls, ans) ==
    /\ \E size \in Nat : DOMAIN ans = 1..size
    /\ \A p \in DOMAIN ans : RowWasLive(l, ls, ans[p].row) /\ CosineFits(l, ls, ans[p])
    /\ \A p, p2 \in DOMAIN ans : l[ans[p].row].key = l[ans[p2].row].key => p = p2
    /\ q.op = "search" => InFusedOrder(l, ls, ans)
    /\ GuardKept(q, ans)

LEMMA FetchIs ==
  ASSUME NEW q, q.limit \in Nat
  PROVE  Fetch(q) \in Nat
<1> DEFINE S == {3 * q.limit, 24}
<1>1. S \in SUBSET (0..(3 * q.limit + 24)) /\ S # {}
  OBVIOUS
<1>2. 0 \in Int /\ 3 * q.limit + 24 \in Int
  OBVIOUS
<1>5. S \subseteq Nat
  OBVIOUS
<1> HIDE DEF S
<1>3. Max(S) \in S
  <2> DEFINE hi == 3 * q.limit + 24
  <2>1. 0 \in Int /\ hi \in Int /\ S \in SUBSET (0..hi)
    BY <1>1, <1>2
  <2> HIDE DEF hi
  <2> QED
    BY <1>1, <2>1, MaxIs
<1>4. Max(S) \in Nat
  BY <1>3, <1>5
<1> QED
  BY <1>4 DEF Fetch, S

LEMMA GuardIsKept ==
  ASSUME NEW q, NEW n \in Nat, NEW judged, DOMAIN judged = 1..n, GuardAgrees(judged),
         NEW ans, NEW g, AnswerFrom(q, ans, judged, n, g)
  PROVE  GuardKept(q, ans)
<1>1. /\ \A i \in DOMAIN ans : g[i] \in 1..n /\ ans[i] = judged[g[i]]
      /\ q.op = "search" => ans = judged /\ \A i \in DOMAIN ans : g[i] = i
      /\ q.op = "recall" =>
         /\ \A i \in DOMAIN ans : ~ans[i].admitted => q.include_below_floor
         /\ \/ Cardinality({i \in DOMAIN ans : ans[i].admitted}) = q.limit
            \/ \A p \in 1..n : judged[p].admitted => \E i \in DOMAIN ans : g[i] = p
      /\ q.op = "search" \/ q.op = "recall"
  BY DEF AnswerFrom
<1> SUFFICES ASSUME NEW p \in DOMAIN ans, ~ans[p].admitted
             PROVE  /\ ans[p].cosine # NoCosine
                    /\ q.op = "recall" => q.include_below_floor
                    /\ \A p2 \in DOMAIN ans :
                         ans[p2].admitted /\ ans[p2].cosine # NoCosine
                           => ans[p].cosine < ans[p2].cosine
                    /\ ans[p].cosine >= Floor =>
                         \/ \E p2 \in DOMAIN ans : ans[p2].cosine > ans[p].cosine
                         \/ /\ q.op = "recall"
                            /\ Cardinality({p2 \in DOMAIN ans : ans[p2].admitted}) = q.limit
  BY DEF GuardKept
<1> DEFINE e == judged[g[p]]
<1>2. g[p] \in DOMAIN judged /\ ans[p] = e
  BY <1>1
<1>3. /\ e.cosine # NoCosine
      /\ \A p2 \in DOMAIN judged :
           judged[p2].admitted /\ judged[p2].cosine # NoCosine => e.cosine < judged[p2].cosine
      /\ e.cosine >= Floor =>
           \E p2 \in DOMAIN judged : judged[p2].admitted /\ judged[p2].cosine > e.cosine
  BY <1>2 DEF GuardAgrees
<1> HIDE DEF e
<1>4. \A p2 \in DOMAIN ans :
        ans[p2].admitted /\ ans[p2].cosine # NoCosine => ans[p].cosine < ans[p2].cosine
  BY <1>1, <1>2, <1>3
<1>5. ASSUME ans[p].cosine >= Floor,
             ~(q.op = "recall" /\ Cardinality({p2 \in DOMAIN ans : ans[p2].admitted}) = q.limit)
      PROVE  \E p2 \in DOMAIN ans : ans[p2].cosine > ans[p].cosine
  <2>1. PICK m \in 1..n : judged[m].admitted /\ judged[m].cosine > e.cosine
    BY <1>2, <1>3, <1>5
  <2>2. \E i \in DOMAIN ans : ans[i] = judged[m]
    <3>1. CASE q.op = "search"
      BY <1>1, <3>1
    <3>2. CASE q.op = "recall"
      <4>1. PICK i \in DOMAIN ans : g[i] = m
        BY <1>1, <1>5, <2>1, <3>2
      <4> QED
        BY <1>1, <4>1
    <3> QED
      BY <1>1, <3>1, <3>2
  <2> QED
    BY <1>2, <2>1, <2>2
<1> QED
  BY <1>1, <1>2, <1>3, <1>4, <1>5

LEMMA AnswerIs ==
  ASSUME RowsInv, NEW ls, LegsOK(log, ls), NEW q,
         q.op \in {"search", "recall"}, q.limit \in Nat
  PROVE  AnswerOK(log, q, ls, Answer(q, ls))
<1> DEFINE rows == Fuse(LegRows(ls), Fetch(q))
           judged == Judge(rows, ls)
           n == Len(rows)
           ans == Answer(q, ls)
<1>1. FusedOK(log, ls, rows)
  BY FetchIs, FuseIs
<1>2. /\ DOMAIN judged = 1..n /\ n \in Nat /\ DOMAIN rows = 1..n
      /\ \A p \in 1..n : judged[p].row = rows[p] /\ CosineFits(log, ls, judged[p])
      /\ GuardAgrees(judged)
  <2> HIDE DEF rows
  <2> QED
    BY <1>1, JudgeIs
<1> DEFINE A == {p \in 1..n : judged[p].admitted}
           B == {p \in 1..n : ~judged[p].admitted}
           t == FirstOf(ItemsAt(judged, A), q.limit)
           u == IF q.include_below_floor THEN FirstOf(ItemsAt(judged, B), q.limit) ELSE <<>>
<1>3. ans = IF q.op = "search" THEN judged ELSE t \o u
  <2>1. A = {p \in DOMAIN judged : judged[p].admitted}
    BY <1>2
  <2>2. B = {p \in DOMAIN judged : ~judged[p].admitted}
    BY <1>2
  <2> HIDE DEF A, B
  <2> QED
    BY <2>1, <2>2 DEF Answer, LegRows
<1>4. \A p \in 1..n : judged[p].admitted \in BOOLEAN
  BY <1>2 DEF GuardAgrees
<1> HIDE DEF ans
<1>5. \E g : AnswerFrom(q, ans, judged, n, g)
  <2>1. CASE q.op = "search"
    <3> DEFINE g == [i \in 1..n |-> i]
    <3>1. ans = judged /\ DOMAIN ans = 1..n
      BY <1>2, <1>3, <2>1
    <3>2. g \in [1..n -> 1..n] /\ \A i \in 1..n : g[i] = i
      OBVIOUS
    <3> HIDE DEF g, judged
    <3>4. n \in Nat /\ q.op # "recall"
      BY <1>2, <2>1
    <3> HIDE DEF n
    <3>3. AnswerFrom(q, ans, judged, n, g)
      BY <2>1, <3>1, <3>2, <3>4 DEF AnswerFrom
    <3> QED
      BY <3>3
  <2>2. CASE q.op = "recall"
    <3>1. ans = t \o u
      BY <1>3, <2>2
    <3>2. n \in Nat /\ A \in SUBSET (1..n) /\ B \in SUBSET (1..n)
      BY <1>2
    <3> HIDE DEF judged, n
    <3>3. PICK f : Picks(t, f, judged, A, q.limit)
      <4> HIDE DEF A
      <4> QED
        BY <3>2, FirstOfItems
    <3>4. \E h : q.include_below_floor => Picks(u, h, judged, B, q.limit)
      <4>1. \E h : Picks(FirstOf(ItemsAt(judged, B), q.limit), h, judged, B, q.limit)
        <5> HIDE DEF B
        <5> QED
          BY <3>2, FirstOfItems
      <4> HIDE DEF B
      <4> QED
        BY <4>1
    <3>5. PICK h : q.include_below_floor => Picks(u, h, judged, B, q.limit)
      BY <3>4
    <3>6. ~q.include_below_floor => u = <<>>
      OBVIOUS
    <3> HIDE DEF t, u
    <3>7. \E g : AnswerFrom(q, t \o u, judged, n, g)
      BY <1>4, <2>2, <3>2, <3>3, <3>5, <3>6, RecallPicks
    <3> QED
      BY <3>1, <3>7
  <2> QED
    BY <2>1, <2>2
<1>6. PICK g : AnswerFrom(q, ans, judged, n, g)
  BY <1>5
<1> HIDE DEF judged, n, rows
<1>7. /\ \E size \in Nat : DOMAIN ans = 1..size
      /\ \A i \in DOMAIN ans : g[i] \in 1..n /\ ans[i] = judged[g[i]]
      /\ \A i, i2 \in DOMAIN ans : g[i] = g[i2] => i = i2
      /\ q.op = "search" => ans = judged /\ \A i \in DOMAIN ans : g[i] = i
  BY <1>6 DEF AnswerFrom
<1>8. \A i \in DOMAIN ans : ans[i].row = rows[g[i]] /\ CosineFits(log, ls, ans[i])
  BY <1>2, <1>7
<1>9. ASSUME NEW p \in 1..n
      PROVE  RowWasLive(log, ls, rows[p])
  <2>1. PICK m \in DOMAIN ls : \E r \in DOMAIN ls[m].rows : ls[m].rows[r] = rows[p]
    BY <1>1, <1>2 DEF FusedOK
  <2>2. PICK r \in DOMAIN ls[m].rows : ls[m].rows[r] = rows[p]
    BY <2>1
  <2>3. /\ log[rows[p]].key \in Plain
        /\ rows[p] = LatestIn(log, log[rows[p]].key, ls[m].at)
        /\ IsLive(log[rows[p]]) /\ ~log[rows[p]].quarantined
    BY <2>2 DEF LegsOK, LegOK
  <2>4. rows[p] \in 1..Len(log)
    BY <1>1, <1>2 DEF FusedOK
  <2> QED
    BY <2>3, <2>4 DEF RowWasLive
<1>10. \A i, i2 \in DOMAIN ans : log[ans[i].row].key = log[ans[i2].row].key => i = i2
  <2>1. \A p, p2 \in 1..n : log[rows[p]].key = log[rows[p2]].key => p = p2
    BY <1>1, <1>2 DEF FusedOK
  <2> QED
    BY <1>7, <1>8, <2>1
<1>11. q.op = "search" => InFusedOrder(log, ls, ans)
  <2> SUFFICES ASSUME q.op = "search", NEW p \in DOMAIN ans, NEW a \in Plain,
                      Dominates(log, ls, a, log[ans[p].row].key)
               PROVE  \E p2 \in 1..(p - 1) : log[ans[p2].row].key = a
    BY DEF InFusedOrder
  <2>1. ans = judged /\ DOMAIN ans = 1..n /\ \A i \in 1..n : ans[i].row = rows[i]
    BY <1>2, <1>7
  <2>2. PICK p2 \in 1..(p - 1) : log[rows[p2]].key = a
    BY <1>1, <1>2, <2>1 DEF FusedOK
  <2>3. p2 \in 1..n
    BY <1>2, <2>1
  <2> QED
    BY <2>1, <2>2, <2>3
<1>12. GuardKept(q, ans)
  BY <1>2, <1>6, GuardIsKept
<1>13. AnswerOK(log, q, ls, ans)
  BY <1>7, <1>8, <1>9, <1>10, <1>11, <1>12 DEF AnswerOK
<1> QED
  BY <1>13 DEF ans

-----------------------------------------------------------------------------
(* Searches.                                                                *)

LEMMA LegStaysOK ==
  ASSUME NEW l, NEW m, Grown(l, m), NEW ls, LegsOK(l, ls)
  PROVE  /\ \A n \in DOMAIN ls : \A k : RankOf(m, ls[n].rows, k) = RankOf(l, ls[n].rows, k)
         /\ \A k : SemanticFor(m, ls, k) = SemanticFor(l, ls, k)
         /\ \A n \in DOMAIN ls : \A k : LatestIn(m, k, ls[n].at) = LatestIn(l, k, ls[n].at)
<1>1. ASSUME NEW n \in DOMAIN ls, NEW k
      PROVE  RankOf(m, ls[n].rows, k) = RankOf(l, ls[n].rows, k)
  <2>1. \A p \in DOMAIN ls[n].rows : m[ls[n].rows[p]] = l[ls[n].rows[p]]
    BY LegStays DEF LegsOK
  <2>2. {p \in DOMAIN ls[n].rows : m[ls[n].rows[p]].key = k}
          = {p \in DOMAIN ls[n].rows : l[ls[n].rows[p]].key = k}
    BY <2>1
  <2> QED
    BY <2>2 DEF RankOf
<1>2. \A k : SemanticFor(m, ls, k) = SemanticFor(l, ls, k)
  BY <1>1 DEF SemanticFor
<1>3. \A n \in DOMAIN ls : \A k : LatestIn(m, k, ls[n].at) = LatestIn(l, k, ls[n].at)
  BY LatestInStays DEF LegsOK, LegOK
<1> QED
  BY <1>1, <1>2, <1>3

LEMMA AnswerStays ==
  ASSUME NEW l, NEW m, Grown(l, m), NEW ls, LegsOK(l, ls), NEW q, NEW ans,
         AnswerOK(l, q, ls, ans)
  PROVE  AnswerOK(m, q, ls, ans)
<1>1. /\ \A n \in DOMAIN ls : \A k : RankOf(m, ls[n].rows, k) = RankOf(l, ls[n].rows, k)
      /\ \A k : SemanticFor(m, ls, k) = SemanticFor(l, ls, k)
      /\ \A n \in DOMAIN ls : \A k : LatestIn(m, k, ls[n].at) = LatestIn(l, k, ls[n].at)
  BY LegStaysOK
<1>2. Len(l) \in Nat /\ Len(m) \in Nat /\ Len(l) <= Len(m)
  BY DEF Grown
<1>3. \A p \in DOMAIN ans : ans[p].row \in 1..Len(l) /\ m[ans[p].row] = l[ans[p].row]
  BY DEF AnswerOK, RowWasLive, Grown
<1>4. ASSUME NEW p \in DOMAIN ans
      PROVE  RowWasLive(m, ls, ans[p].row)
  <2>1. RowWasLive(l, ls, ans[p].row)
    BY DEF AnswerOK
  <2>2. ans[p].row \in 1..Len(m)
    BY <1>2, <1>3
  <2> QED
    BY <1>1, <1>3, <2>1, <2>2 DEF RowWasLive
<1>5. ASSUME NEW p \in DOMAIN ans
      PROVE  CosineFits(m, ls, ans[p])
  <2> DEFINE e == ans[p]
             k == l[e.row].key
             S == SemanticFor(l, ls, k)
  <2>1. /\ (e.cosine = NoCosine) = (S = {})
        /\ e.cosine # NoCosine =>
             \/ Rewritten(l, ls, k)
             \/ e.cosine = Max({ClosenessIn(l, ls[n].by, e.row) : n \in S})
    BY DEF AnswerOK, CosineFits
  <2>2. m[e.row] = l[e.row]
    BY <1>3
  <2>3. \A v : ClosenessIn(m, v, e.row) = ClosenessIn(l, v, e.row)
    BY <2>2 DEF ClosenessIn
  <2>4. {ClosenessIn(m, ls[n].by, e.row) : n \in S} = {ClosenessIn(l, ls[n].by, e.row) : n \in S}
    <3> HIDE DEF S, k, e
    <3> QED
      BY <2>3
  <2>5. Rewritten(m, ls, k) <=> Rewritten(l, ls, k)
    <3>1. PICK T : ls \in Seq(T)
      BY DEF LegsOK
    <3>2. ls # <<>>
      <4>1. RowWasLive(l, ls, ans[p].row)
        BY DEF AnswerOK
      <4>2. \E n : n \in DOMAIN ls
        BY <4>1 DEF RowWasLive
      <4> QED
        BY <4>2
    <3>3. 1 \in DOMAIN ls /\ Last(ls) = ls[Len(ls)] /\ Len(ls) \in DOMAIN ls
      BY <3>1, <3>2, EmptySeq DEF Last
    <3> HIDE DEF k
    <3> QED
      BY <1>1, <3>3 DEF Rewritten
  <2>6. SemanticFor(m, ls, m[e.row].key) = S /\ m[e.row].key = k
    BY <1>1, <2>2
  <2> HIDE DEF e, k, S
  <2>7. CosineFits(m, ls, e)
    BY <2>1, <2>4, <2>5, <2>6 DEF CosineFits
  <2> QED
    BY <2>7 DEF e
<1>6. \A p, p2 \in DOMAIN ans : m[ans[p].row].key = m[ans[p2].row].key => p = p2
  BY <1>3 DEF AnswerOK
<1>7. InFusedOrder(l, ls, ans) => InFusedOrder(m, ls, ans)
  <2> SUFFICES ASSUME InFusedOrder(l, ls, ans), NEW p \in DOMAIN ans, NEW a \in Plain,
                      Dominates(m, ls, a, m[ans[p].row].key)
               PROVE  \E p2 \in 1..(p - 1) : m[ans[p2].row].key = a
    BY DEF InFusedOrder
  <2>1. Dominates(l, ls, a, l[ans[p].row].key)
    BY <1>1, <1>3 DEF Dominates
  <2>2. PICK p2 \in 1..(p - 1) : l[ans[p2].row].key = a
    BY <2>1 DEF InFusedOrder
  <2>3. PICK size \in Nat : DOMAIN ans = 1..size
    BY DEF AnswerOK
  <2>4. p2 \in DOMAIN ans
    BY <2>3
  <2> QED
    BY <1>3, <2>2, <2>4
<1> QED
  BY <1>4, <1>5, <1>6, <1>7 DEF AnswerOK

SearchOK(j) ==
    /\ LegsOK(log, legs[j])
    /\ AnswerOK(log, task[j], legs[j], answer[j])
    /\ IsSearch(j) /\ pc[j] # "done" => answer[j] = <<>>

SearchInv ==
    /\ legs = [j \in Jobs |-> legs[j]] /\ answer = [j \in Jobs |-> answer[j]]
    /\ \A j \in Jobs : SearchOK(j)

LEMMA NothingAnswered == \A l, q, ls : AnswerOK(l, q, ls, <<>>)
<1>1. DOMAIN <<>> = {} /\ DOMAIN <<>> = 1..0
  OBVIOUS
<1> QED
  BY <1>1 DEF AnswerOK, InFusedOrder, GuardKept

LEMMA InitSearch == Init => SearchInv
<1> SUFFICES ASSUME Init
             PROVE  SearchInv
  OBVIOUS
<1>1. legs = [j \in Jobs |-> <<>>] /\ answer = [j \in Jobs |-> <<>>]
  BY DEF Init, ReadingInit
<1>2. \A l : LegsOK(l, <<>>)
  <2>1. <<>> \in Seq({}) /\ DOMAIN <<>> = {}
    OBVIOUS
  <2> QED
    BY <2>1 DEF LegsOK
<1> QED
  BY <1>1, <1>2, NothingAnswered DEF SearchInv, SearchOK

LEMMA SearchTasks ==
  ASSUME RowsInv, NEW j \in Jobs, IsSearch(j)
  PROVE  task[j].limit \in Nat
BY ListTasks DEF IsSearch

\* One more leg, read now.
LEMMA LegIsAdded ==
  ASSUME NEW l, Len(l) \in Nat, NEW ls, LegsOK(l, ls), NEW leg, LegOK(l, leg), leg.at = Len(l)
  PROVE  LegsOK(l, Append(ls, leg))
<1>1. PICK S : ls \in Seq(S)
  BY DEF LegsOK
<1> DEFINE T == S \cup {leg}
           all == Append(ls, leg)
<1>2. ls \in Seq(T) /\ leg \in T
  BY <1>1, SeqMonotonic
<1> HIDE DEF T
<1>3. /\ all \in Seq(T) /\ Len(ls) \in Nat /\ Len(all) = Len(ls) + 1
      /\ DOMAIN all = 1..(Len(ls) + 1) /\ DOMAIN ls = 1..Len(ls)
      /\ all[Len(ls) + 1] = leg /\ \A n \in 1..Len(ls) : all[n] = ls[n]
  BY <1>2, AppendProperties
<1> HIDE DEF all
<1>4. \A n \in DOMAIN all : n \in 1..Len(ls) \/ n = Len(ls) + 1
  BY <1>3
<1>5. \A n \in DOMAIN all : LegOK(l, all[n])
  BY <1>3, <1>4 DEF LegsOK
<1>6. ASSUME NEW m \in DOMAIN all, NEW n \in DOMAIN all, m < n
      PROVE  all[m].at <= all[n].at
  <2>1. m \in 1..Len(ls)
    BY <1>3, <1>6
  <2>2. CASE n \in 1..Len(ls)
    BY <1>3, <1>6, <2>1, <2>2 DEF LegsOK
  <2>3. CASE n = Len(ls) + 1
    <3>1. LegOK(l, ls[m]) /\ all[m] = ls[m] /\ all[n] = leg
      BY <1>3, <2>1, <2>3 DEF LegsOK
    <3> QED
      BY <3>1 DEF LegOK
  <2> QED
    BY <1>4, <2>2, <2>3
<1>7. LegsOK(l, all)
  BY <1>3, <1>5, <1>6 DEF LegsOK
<1> QED
  BY <1>7 DEF all

LEMMA VectorLegReads ==
  ASSUME NEW j \in Jobs, NEW v \in {"text", "hyde"}, PointsOK, RowsInv, SearchInv,
         ReadVectorLeg(j, v)
  PROVE  /\ SearchOK(j)' /\ answer' = answer /\ legs' = [legs EXCEPT ![j] = legs'[j]]
         /\ log' = log
<1> DEFINE leg == [by |-> v, at |-> Len(log), rows |-> VectorLeg(v, Fetch(task[j]))]
<1>1. /\ IsSearch(j) /\ pc[j] # "done" /\ task' = task /\ log' = log /\ answer' = answer
      /\ legs' = [legs EXCEPT ![j] = Append(legs[j], leg)]
  BY DEF ReadVectorLeg, IsSearch
<1>2. leg.at = Len(log) /\ Len(log) \in Nat
  BY LogIsList
<1>3. LegOK(log, leg)
  BY <1>1, SearchTasks, FetchIs, VectorLegIsOK
<1> HIDE DEF leg
<1>4. LegsOK(log, Append(legs[j], leg))
  BY <1>2, <1>3, LegIsAdded DEF SearchInv, SearchOK
<1>5. legs'[j] = Append(legs[j], leg)
  BY <1>1 DEF SearchInv
<1>6. answer[j] = <<>>
  BY <1>1 DEF SearchInv, SearchOK
<1> QED
  BY <1>1, <1>4, <1>5, <1>6, NothingAnswered DEF SearchOK

LEMMA KeywordLegReads ==
  ASSUME NEW j \in Jobs, PointsOK, RowsInv, SearchInv, ReadKeywordLeg(j)
  PROVE  /\ SearchOK(j)' /\ legs' = [legs EXCEPT ![j] = legs'[j]]
         /\ answer' = [answer EXCEPT ![j] = answer'[j]] /\ log' = log
<1>1. PICK rows \in KeywordLegs(Fetch(task[j])) :
        /\ legs' = [legs EXCEPT ![j] =
             Append(legs[j], [by |-> "keyword", at |-> Len(log), rows |-> rows])]
        /\ answer' = [answer EXCEPT ![j] = Answer(task[j], legs'[j])]
  BY DEF ReadKeywordLeg
<1>2. IsSearch(j) /\ task' = task /\ log' = log /\ pc'[j] = "done"
  BY DEF ReadKeywordLeg, Goto, PointsOK
<1> DEFINE leg == [by |-> "keyword", at |-> Len(log), rows |-> rows]
<1>3. leg.at = Len(log) /\ Len(log) \in Nat
  BY LogIsList
<1>4. LegOK(log, leg)
  BY <1>2, SearchTasks, FetchIs, KeywordLegIsOK
<1> HIDE DEF leg
<1>5. LegsOK(log, Append(legs[j], leg))
  BY <1>3, <1>4, LegIsAdded DEF SearchInv, SearchOK
<1>6. legs'[j] = Append(legs[j], leg) /\ legs' = [legs EXCEPT ![j] = legs'[j]]
  BY <1>1 DEF SearchInv, leg
<1>7. answer'[j] = Answer(task[j], legs'[j]) /\ answer' = [answer EXCEPT ![j] = answer'[j]]
  BY <1>1 DEF SearchInv
<1> DEFINE ls == legs'[j]
           q == task[j]
<1>8. LegsOK(log, ls) /\ q.op \in {"search", "recall"} /\ q.limit \in Nat
  BY <1>2, <1>5, <1>6, SearchTasks DEF IsSearch
<1> HIDE DEF ls, q
<1>9. AnswerOK(log, q, ls, Answer(q, ls))
  BY <1>8, AnswerIs
<1> QED
  BY <1>2, <1>6, <1>7, <1>8, <1>9 DEF SearchOK, ls, q

LEMMA SearchStep ==
  ASSUME PointsOK, RowsInv, SearchInv, [Next]_vars
  PROVE  SearchInv'
<1>1. Grown(log, log') /\ task' = task
  BY LogIsGrown, TaskStays
<1>2. legs = [j \in Jobs |-> legs[j]] /\ answer = [j \in Jobs |-> answer[j]]
  BY DEF SearchInv
<1>3. ASSUME NEW j \in Jobs, legs'[j] = legs[j], answer'[j] = answer[j],
             IsSearch(j) => pc'[j] = pc[j]
      PROVE  SearchOK(j)'
  <2>1. SearchOK(j)
    BY DEF SearchInv
  <2>2. LegsOK(log', legs[j])
    BY <1>1, <2>1, LegsStay DEF SearchOK
  <2>3. AnswerOK(log', task[j], legs[j], answer[j])
    BY <1>1, <2>1, AnswerStays DEF SearchOK
  <2> QED
    BY <1>1, <1>3, <2>1, <2>2, <2>3 DEF SearchOK, IsSearch
<1>4. CASE UNCHANGED readVars /\ Elsewhere(ReadingOps)
  <2>1. \A j \in Jobs : IsSearch(j) => pc'[j] = pc[j]
    BY <1>4 DEF Elsewhere, ReadingOps, IsSearch
  <2>2. legs' = legs /\ answer' = answer
    BY <1>4 DEF readVars
  <2> QED
    BY <1>2, <1>3, <2>1, <2>2 DEF SearchInv
<1>5. ASSUME NEW j \in Jobs, ReadingStep(j)
      PROVE  SearchInv'
  <2>1. \A i \in Jobs \ {j} : pc'[i] = pc[i]
    BY <1>5, ReadingMoves DEF Moves, PointsOK
  <2>2. ASSUME SearchOK(j)', legs' = [legs EXCEPT ![j] = legs'[j]],
               answer' = [answer EXCEPT ![j] = answer'[j]]
        PROVE  SearchInv'
    <3>1. /\ legs' = [i \in Jobs |-> legs'[i]] /\ answer' = [i \in Jobs |-> answer'[i]]
          /\ \A i \in Jobs \ {j} : legs'[i] = legs[i] /\ answer'[i] = answer[i]
      BY <1>2, <2>2
    <3>2. \A i \in Jobs : SearchOK(i)'
      BY <1>3, <2>1, <2>2, <3>1
    <3> QED
      BY <3>1, <3>2 DEF SearchInv
  <2>3. CASE ListPage(j)
    <3>1. legs' = legs /\ answer' = answer /\ ~IsSearch(j)
      BY <2>3 DEF ListPage, IsSearch
    <3>2. \A i \in Jobs : SearchOK(i)'
      BY <1>3, <2>1, <3>1
    <3> QED
      BY <1>2, <3>1, <3>2 DEF SearchInv
  <2>4. ASSUME NEW v \in {"text", "hyde"}, ReadVectorLeg(j, v)
        PROVE  SearchInv'
    <3>1. /\ SearchOK(j)' /\ answer' = answer /\ legs' = [legs EXCEPT ![j] = legs'[j]]
      BY <2>4, VectorLegReads
    <3>2. answer' = [answer EXCEPT ![j] = answer'[j]]
      BY <1>2, <3>1
    <3> QED
      BY <2>2, <3>1, <3>2
  <2>5. CASE ReadKeywordLeg(j)
    BY <2>2, <2>5, KeywordLegReads
  <2> QED
    BY <1>5, <2>3, <2>4, <2>5 DEF ReadingStep
<1> QED
  BY <1>4, <1>5, ReadingFrame

LEMMA SearchInvariant == Spec => []SearchInv
<1>1. PointsOK /\ KnowledgeInv /\ SearchInv /\ [Next]_vars => SearchInv'
  BY SearchStep DEF KnowledgeInv
<1> QED
  BY <1>1, InitSearch, KnowledgeInvariant, PTL DEF Spec

\* memory_search's three legs: what is answered was live at one of them, and
\* no key is answered twice.
THEOREM SearchesShowLiveRows == Spec => []SearchedRowsWereLive
<1>1. SearchInv => SearchedRowsWereLive
  <2> SUFFICES ASSUME SearchInv, NEW j \in Jobs, NEW p \in DOMAIN answer[j]
               PROVE  LET i == answer[j][p].row
                          k == log[i].key
                      IN /\ k \in Plain
                         /\ ~log[i].quarantined /\ ~log[i].dead /\ ~log[i].closed
                         /\ \E n \in DOMAIN legs[j] : i = LatestAt(k, legs[j][n].at)
                         /\ \A p2 \in DOMAIN answer[j] : log[answer[j][p2].row].key = k => p2 = p
    BY DEF SearchedRowsWereLive
  <2>1. AnswerOK(log, task[j], legs[j], answer[j])
    BY DEF SearchInv, SearchOK
  <2>2. RowWasLive(log, legs[j], answer[j][p].row)
    BY <2>1 DEF AnswerOK
  <2> QED
    BY <2>1, <2>2, LatestAtIsIn DEF AnswerOK, RowWasLive, IsLive
<1> QED
  BY <1>1, SearchInvariant, PTL

\* _rrf_fuse: a key that every leg ranks ahead of another is answered before it.
THEOREM FusionsRespectLegs == Spec => []FusionRespectsLegs
<1>1. SearchInv => FusionRespectsLegs
  <2> SUFFICES ASSUME SearchInv, NEW j \in Jobs, task[j].op = "search",
                      NEW p \in DOMAIN answer[j], NEW a \in Plain,
                      \A n \in DOMAIN legs[j] :
                        RankIn(legs[j][n].rows, log[answer[j][p].row].key) # 0 =>
                          /\ RankIn(legs[j][n].rows, a) # 0
                          /\ RankIn(legs[j][n].rows, a)
                               < RankIn(legs[j][n].rows, log[answer[j][p].row].key)
               PROVE  \E p2 \in 1..(p - 1) : log[answer[j][p2].row].key = a
    BY DEF FusionRespectsLegs
  <2>1. InFusedOrder(log, legs[j], answer[j])
    BY DEF SearchInv, SearchOK, AnswerOK
  <2>2. Dominates(log, legs[j], a, log[answer[j][p].row].key)
    BY RankInIs DEF Dominates
  <2> QED
    BY <2>1, <2>2 DEF InFusedOrder
<1> QED
  BY <1>1, SearchInvariant, PTL

\* _guard_search_rows, apply_guard, recall: a row is judged by its own cosine, and
\* what is refused is behind what is admitted.
THEOREM VerdictsAreAboutTheRow == Spec => []VerdictIsAboutTheRow
<1>1. SearchInv => VerdictIsAboutTheRow
  <2> SUFFICES ASSUME SearchInv, NEW j \in Jobs, NEW p \in DOMAIN answer[j]
               PROVE  LET e == answer[j][p]
                          semantic == {n \in DOMAIN legs[j] :
                                         /\ legs[j][n].by # "keyword"
                                         /\ RankIn(legs[j][n].rows, log[e.row].key) # 0}
                          rewritten == LatestAt(log[e.row].key, legs[j][1].at)
                                         # LatestAt(log[e.row].key, Last(legs[j]).at)
                      IN /\ (e.cosine = NoCosine) = (semantic = {})
                         /\ e.cosine # NoCosine =>
                              rewritten \/ e.cosine = Max({Closeness(legs[j][n].by, e.row) : n \in semantic})
                         /\ ~e.admitted =>
                              /\ e.cosine # NoCosine
                              /\ task[j].op = "recall" => task[j].include_below_floor
                              /\ \A p2 \in DOMAIN answer[j] :
                                   answer[j][p2].admitted /\ answer[j][p2].cosine # NoCosine
                                     => e.cosine < answer[j][p2].cosine
                              /\ e.cosine >= Floor =>
                                   \/ \E p2 \in DOMAIN answer[j] : answer[j][p2].cosine > e.cosine
                                   \/ /\ task[j].op = "recall"
                                      /\ Cardinality({p2 \in DOMAIN answer[j] : answer[j][p2].admitted})
                                           = task[j].limit
    BY DEF VerdictIsAboutTheRow
  <2> DEFINE e == answer[j][p]
             k == log[e.row].key
             semantic == {n \in DOMAIN legs[j] : legs[j][n].by # "keyword"
                                                   /\ RankIn(legs[j][n].rows, k) # 0}
             rewritten == LatestAt(k, legs[j][1].at) # LatestAt(k, Last(legs[j]).at)
  <2>1. CosineFits(log, legs[j], e) /\ GuardKept(task[j], answer[j])
    BY DEF SearchInv, SearchOK, AnswerOK
  <2>2. semantic = SemanticFor(log, legs[j], k)
    BY RankInIs DEF SemanticFor
  <2>3. rewritten = Rewritten(log, legs[j], k)
    BY LatestAtIsIn DEF Rewritten
  <2>4. {Closeness(legs[j][n].by, e.row) : n \in semantic}
          = {ClosenessIn(log, legs[j][n].by, e.row) : n \in semantic}
    BY DEF Closeness, ClosenessIn
  <2>5. /\ (e.cosine = NoCosine) = (semantic = {})
        /\ e.cosine # NoCosine =>
             rewritten \/ e.cosine = Max({Closeness(legs[j][n].by, e.row) : n \in semantic})
    <3> HIDE DEF e, semantic, rewritten
    <3> QED
      BY <2>1, <2>2, <2>3, <2>4 DEF CosineFits
  <2> QED
    BY <2>1, <2>5 DEF GuardKept
<1> QED
  BY <1>1, SearchInvariant, PTL

-----------------------------------------------------------------------------
(* Types of the parts beside the log.                                        *)

\* Somebody asked for this.
Asked == \E w \in Workloads : task = w.task

LEMMA AskedStays ==
  ASSUME PointsOK, Asked, [Next]_vars
  PROVE  Asked'
BY TaskStays DEF Asked

LEMMA InitNamespaceTypes == Init => NamespacesTypeOK
<1> SUFFICES ASSUME Init
             PROVE  NamespacesTypeOK
  OBVIOUS
<1>1. profile = <<>> /\ DOMAIN profile = {}
  BY DEF Init, NamespacesInit
<1> QED
  BY <1>1 DEF Init, NamespacesInit, NamespacesTypeOK, Unregistered

LEMMA NamespaceTypesStep ==
  ASSUME PointsOK, Asked, NamespacesTypeOK, [Next]_vars
  PROVE  NamespacesTypeOK'
<1>1. CASE UNCHANGED namespaceVars
  BY <1>1 DEF namespaceVars, NamespacesTypeOK
<1>2. ASSUME NEW j \in Jobs, NamespacesStep(j)
      PROVE  NamespacesTypeOK'
  <2> USE DEF NamespacesTypeOK
  <2>1. CASE CheckRegistry(j)
    BY <2>1 DEF CheckRegistry
  <2>2. CASE CheckEntries(j)
    BY <2>2 DEF CheckEntries
  <2>3. CASE SeedProject(j)
    BY <2>3 DEF SeedProject
  <2>4. CASE Register(j)
    BY <2>4 DEF Register
  <2>5. CASE ReadBack(j)
    BY <2>5 DEF ReadBack
  <2>6. CASE BreakInit(j)
    BY <2>6 DEF BreakInit
  <2>7. CASE WriteProfile(j) \/ EditProfile(j)
    <3>1. task[j].op \in {"init", "edit"}
      BY <2>7 DEF WriteProfile, EditProfile, PointsOK, At
    <3>2. DOMAIN task[j].doc \subseteq {"gate", "floor"}
      BY <3>1, NamespacesAssumption DEF Asked
    <3>3. DOMAIN profile' = DOMAIN profile \cup DOMAIN task[j].doc
      BY <2>7 DEF WriteProfile, EditProfile, Merged
    <3>4. UNCHANGED <<registry, inits>>
      BY <2>7 DEF WriteProfile, EditProfile
    <3> QED
      BY <3>2, <3>3, <3>4
  <2> QED
    BY <1>2, <2>1, <2>2, <2>3, <2>4, <2>5, <2>6, <2>7 DEF NamespacesStep
<1> QED
  BY <1>1, <1>2, NamespacesFrame

Answers == {None, "ok", "replay", "session_not_found", "write_conflict", "error"}

\* A call that goes on has a run and a collision left.
SessionTypes ==
    /\ sessions \subseteq {Earlier} \cup (Jobs \X (0..Reconnects))
    /\ planned \in [Jobs -> Nat]
    /\ tries \in [Jobs -> 0..Attempts]
    /\ drops \in [Jobs -> 0..Reconnects]
    /\ \A j \in Jobs : ack[j].how \in Answers
    /\ \A j \in Jobs : task[j].op \in SessionsOps /\ pc[j] # "done" =>
         drops[j] < Reconnects /\ tries[j] < Attempts

LEMMA InitSessionTypes == Init => SessionTypes
BY EntriesAssumption, SessionsAssumption
   DEF Init, SessionsInit, EntriesInit, SessionTypes, NoAck, Answers

\* An answer is a known one, and an id names the run that made it.
LEMMA SessionTypesStep ==
  ASSUME PointsOK, SessionsInv, SessionTypes, [Next]_vars
  PROVE  SessionTypes'
<1>1. CASE UNCHANGED sessionVars /\ Elsewhere(SessionsOps)
  BY <1>1 DEF sessionVars, Elsewhere, SessionsOps, SessionTypes
<1>2. ASSUME NEW j \in Jobs, SessionsStep(j)
      PROVE  SessionTypes'
  <2>1. /\ Reconnects \in Nat \ {0} /\ Attempts \in Nat \ {0}
        /\ ack = [i \in Jobs |-> ack[i]]
    BY EntriesAssumption, SessionsAssumption DEF SessionsInv, AcksOK
  <2>2. /\ UNCHANGED task /\ task[j].op \in SessionsOps
        /\ \A i \in Jobs \ {j} : pc'[i] = pc[i]
    BY <1>2, SessionsMoves DEF Moves, PointsOK
  <2>3. pc \in [Jobs -> Points]
    BY DEF PointsOK
  <2> USE DEF SessionTypes, Answers, Replied, Goto
  <2>4. CASE AppendCheck(j)
    BY <2>1, <2>2, <2>3, <2>4 DEF AppendCheck
  <2>5. CASE AppendPlan(j)
    <3>1. /\ UNCHANGED <<sessions, tries, drops>>
          /\ \/ Replied(j, "session_not_found", 0) /\ UNCHANGED planned
             \/ UNCHANGED ack
      BY <2>5 DEF AppendPlan
    <3>2. pc[j] # "done"
      BY <2>5 DEF AppendPlan
    <3>3. planned' \in [Jobs -> Nat]
      <4>1. CASE task[j].session \in sessions
        <5>1. task[j].session \in AskedSessions
          BY DEF AskedSessions
        <5> DEFINE s == task[j].session
        <5>2. Count(s) \in Nat
          BY CountsAreFinite DEF SessionsInv
        <5>3. 1 + Max({0} \cup NumbersOf(s)) = Count(s) + 1
          BY <5>1, NextNumber DEF SessionsInv
        <5>4. 1 + Max({0} \cup NumbersOf(s)) \in Nat
          BY <5>2, <5>3
        <5> QED
          BY <2>5, <4>1, <5>4 DEF AppendPlan
      <4>2. CASE task[j].session \notin sessions
        BY <2>5, <4>2 DEF AppendPlan
      <4> QED
        BY <4>1, <4>2
    <3> QED
      BY <2>1, <2>2, <2>3, <3>1, <3>2, <3>3
  <2>6. CASE AppendInsert(j)
    BY <2>1, <2>2, <2>3, <2>6 DEF AppendInsert
  <2>7. CASE AppendCollide(j)
    BY <2>1, <2>2, <2>3, <2>7 DEF AppendCollide
  <2>8. CASE CreateSession(j)
    <3>1. drops[j] \in 0..Reconnects
      OBVIOUS
    <3> QED
      BY <2>1, <2>2, <2>3, <2>8, <3>1 DEF CreateSession
  <2>9. CASE SessionDrop(j)
    <3>1. drops[j] < Reconnects /\ drops[j] \in 0..Reconnects
      BY <2>2, <2>9 DEF SessionDrop
    <3>2. sessions' \subseteq {Earlier} \cup (Jobs \X (0..Reconnects))
      BY <2>9, <3>1 DEF SessionDrop
    <3>3. Rerun(j) /\ UNCHANGED planned
      BY <2>9 DEF SessionDrop
    <3>4. drops' \in [Jobs -> 0..Reconnects] /\ drops'[j] = drops[j] + 1
      BY <2>1, <3>1, <3>3 DEF Rerun
    <3>5. tries' \in [Jobs -> 0..Attempts] /\ tries'[j] = 0
      BY <2>1, <3>3 DEF Rerun
    <3>6. \A i \in Jobs \ {j} : drops'[i] = drops[i] /\ tries'[i] = tries[i]
      BY <3>3 DEF Rerun
    <3>7. \A i \in Jobs : ack'[i].how \in Answers
      BY <2>1, <3>3 DEF Rerun
    <3>8. pc'[j] # "done" => drops[j] + 1 < Reconnects
      BY <2>3, <3>3 DEF Rerun
    <3> QED
      BY <2>1, <2>2, <3>2, <3>3, <3>4, <3>5, <3>6, <3>7, <3>8
  <2> QED
    BY <1>2, <2>4, <2>5, <2>6, <2>7, <2>8, <2>9 DEF SessionsStep
<1> QED
  BY <1>1, <1>2, SessionsFrame

\* An event is numbered among those that came before it.
LEMMA SessionsAreTyped ==
  ASSUME SessionsInv, SessionTypes
  PROVE  SessionsTypeOK
<1>1. ASSUME NEW i \in DOMAIN events
      PROVE  events[i].seq \in 1..i /\ events[i].by \in Jobs
  <2> DEFINE s == events[i].session
  <2>1. i \in Nat \ {0} /\ i \in OfSession(s, i)
    BY CountsAreFinite DEF SessionsInv, OfSession
  <2>2. IsFiniteSet(1..i) /\ Cardinality(1..i) = i
    BY <2>1, FS_Interval
  <2>3. OfSession(s, i) \subseteq 1..i
    BY DEF OfSession
  <2>4. IsFiniteSet(OfSession(s, i)) /\ Cardinality(OfSession(s, i)) <= i
    BY <2>2, <2>3, FS_Subset
  <2>5. Cardinality(OfSession(s, i)) \in Nat /\ Cardinality(OfSession(s, i)) # 0
    BY <2>1, <2>4, FS_EmptySet, FS_CardinalityType
  <2>6. events[i].seq = Cardinality(OfSession(s, i))
    BY DEF SessionsInv, NumbersOK
  <2>7. events[i] \in EventRows
    BY <2>1, CountsAreFinite DEF SessionsInv, EventsOK
  <2>8. events[i].by \in Jobs
    BY <2>7 DEF EventRows
  <2> QED
    BY <2>1, <2>4, <2>5, <2>6, <2>8
<1> QED
  BY <1>1 DEF SessionTypes, SessionsTypeOK, Answers

Accesses == {"none", "denied", "accepted", "redirected", "up", "conflict", "failed"}

\* A label is one of the surfaces, and whoever is about to set a token knows
\* for which of them.
TokenTypes ==
    /\ \A t \in tokens : t.label \in ToSet(Labels) /\ t.since <= t.until
    /\ \A p \in Procs : cache[p].filled \/ cache[p] = NoCache
    /\ missing \in [Jobs -> Seq(ToSet(Labels))]
    /\ \A j \in Jobs : pc[j] \in {"update", "replace"} => missing[j] # <<>>
    /\ \A j \in Jobs : access[j].how \in Accesses

LEMMA InitTokenTypes == Init => TokenTypes
<1> SUFFICES ASSUME Init
             PROVE  TokenTypes
  OBVIOUS
<1> USE DEF Init, TokensInit, EntriesInit
<1>1. MaxNow \in Nat
  BY EntriesAssumption
<1>2. \A t \in tokens : t.label \in ToSet(Labels) /\ t.since <= t.until
  <2>1. CASE tokens = {}
    BY <2>1
  <2>2. CASE tokens = {[label |-> l, token |-> <<l, 0>>, since |-> 0, until |-> Forever,
                        by |-> NoToken] : l \in ToSet(Labels)}
    BY <1>1, <2>2 DEF Forever
  <2> QED
    BY <2>1, <2>2
<1>3. missing \in [Jobs -> Seq(ToSet(Labels))]
  BY EmptySeq
<1>4. /\ \A p \in Procs : cache[p] = NoCache
      /\ \A j \in Jobs : pc[j] = "idle" /\ access[j].how = "none"
  BY DEF NoAccess
<1> QED
  BY <1>2, <1>3, <1>4 DEF TokenTypes, Accesses

\* What is missing at boot are labels.
LEMMA AbsentAreLabels ==
  ASSUME NEW P \in SUBSET DOMAIN Labels
  PROVE  ItemsAt(Labels, P) \in Seq(ToSet(Labels))
<1>1. Len(Labels) \in Nat /\ DOMAIN Labels = 1..Len(Labels)
  BY TokensAssumption
<1>2. P \in SUBSET Nat /\ IsFiniteSet(P)
  <2>1. IsFiniteSet(1..Len(Labels))
    BY <1>1, FS_Interval
  <2> QED
    BY <1>1, <2>1, FS_Subset
<1>3. PICK ps \in SetToSeqs(P) : ItemsAt(Labels, P) = [n \in DOMAIN ps |-> Labels[ps[n]]]
  BY <1>2, ItemsAtIs
<1>4. /\ \E n \in Nat : DOMAIN ps = 1..n
      /\ \A n \in DOMAIN ps : ps[n] \in P
  BY <1>2, ListOfSet
<1>5. PICK n \in Nat : DOMAIN ps = 1..n
  BY <1>4
<1>6. \A i \in 1..n : Labels[ps[i]] \in ToSet(Labels)
  BY <1>4, <1>5 DEF ToSet
<1> QED
  BY <1>3, <1>5, <1>6, IsASeq

LEMMA RestOfLabels ==
  ASSUME NEW s \in Seq(ToSet(Labels)), s # <<>>
  PROVE  /\ Head(s) \in ToSet(Labels) /\ Tail(s) \in Seq(ToSet(Labels))
         /\ Len(s) # 1 => Tail(s) # <<>>
<1>1. Head(s) \in ToSet(Labels) /\ Tail(s) \in Seq(ToSet(Labels)) /\ Len(Tail(s)) = Len(s) - 1
  BY HeadTailProperties
<1>2. Len(s) \in Nat
  OBVIOUS
<1>3. Len(s) # 1 => Tail(s) # <<>>
  <2>1. SUFFICES ASSUME Tail(s) = <<>>
                 PROVE  Len(s) = 1
    OBVIOUS
  <2>2. Len(Tail(s)) = 0
    BY <2>1, EmptySeq
  <2>3. Len(s) - 1 = 0
    BY <1>1, <2>2
  <2> QED
    BY <1>2, <2>3
<1> QED
  BY <1>1, <1>3

LEMMA DecisionsAnswer ==
  ASSUME NEW j \in Jobs, NEW c, access = [i \in Jobs |-> access[i]], Decide(j, c)
  PROVE  /\ access'[j].how \in {"accepted", "denied"}
         /\ \A i \in Jobs \ {j} : access'[i] = access[i]
<1> DEFINE named(i) == {t \in c.map : t.token = task[j].presented[i]}
           known == {i \in DOMAIN task[j].presented : named(i) # {}}
<1>1. CASE known = {}
  <2>1. access' = [access EXCEPT ![j] = Decision("denied", "none", c)]
    BY <1>1 DEF Decide
  <2>2. Decision("denied", "none", c).how = "denied"
    BY DEF Decision
  <2> QED
    BY <2>1, <2>2
<1>2. CASE known # {}
  <2>1. PICK i \in known : \E t \in named(i) :
          access' = [access EXCEPT ![j] = Decision("accepted", t.label, c)]
    BY <1>2 DEF Decide
  <2>2. PICK t \in named(i) :
          access' = [access EXCEPT ![j] = Decision("accepted", t.label, c)]
    BY <2>1
  <2>3. Decision("accepted", t.label, c).how = "accepted"
    BY DEF Decision
  <2> QED
    BY <2>2, <2>3
<1> QED
  BY <1>1, <1>2

LEMMA TokenTypesStep ==
  ASSUME PointsOK, PointsOK', TokensInv, TokenTypes, [Next]_vars
  PROVE  TokenTypes'
<1>1. CASE UNCHANGED tokenVars /\ Elsewhere(TokenOps)
  <2>1. \A j \in Jobs : pc'[j] \in {"update", "replace"} => pc'[j] = pc[j]
    BY <1>1 DEF Elsewhere, TokenOps, PointsOK, At
  <2> QED
    BY <1>1, <2>1 DEF tokenVars, TokenTypes
<1>2. ASSUME NEW j \in Jobs, TokensStep(j)
      PROVE  TokenTypes'
  <2>1. /\ access = [i \in Jobs |-> access[i]] /\ cache = [p \in Procs |-> cache[p]]
        /\ pc \in [Jobs -> Points]
    BY DEF TokensInv, MapsOK, PointsOK
  <2>2. UNCHANGED task /\ \A i \in Jobs \ {j} : pc'[i] = pc[i]
    BY <1>2, TokensMoves DEF Moves, PointsOK
  <2> USE DEF TokenTypes, Accesses, Goto
  <2>3. CASE Authorize(j)
    <3>1. UNCHANGED <<tokens, cache, missing>>
      BY <2>3 DEF Authorize
    <3>2. \/ Decide(j, cache[task[j].proc])
          \/ UNCHANGED access /\ pc'[j] = "fetched"
      BY <2>1, <2>3 DEF Authorize
    <3>3. CASE UNCHANGED access /\ pc'[j] = "fetched"
      BY <2>2, <3>1, <3>3
    <3>4. CASE Decide(j, cache[task[j].proc])
      <4>1. pc'[j] = "done"
        BY <2>1, <3>4 DEF Decide
      <4>2. /\ access'[j].how \in {"accepted", "denied"}
            /\ \A i \in Jobs \ {j} : access'[i] = access[i]
        BY <2>1, <3>4, DecisionsAnswer
      <4> QED
        BY <2>1, <2>2, <3>1, <4>1, <4>2
    <3> QED
      BY <3>2, <3>3, <3>4
  <2>4. CASE StoreMap(j)
    <3> DEFINE c == [map |-> seen[j].active, at |-> now, read |-> seen[j].at,
                     filled |-> TRUE]
    <3>1. UNCHANGED <<tokens, missing>> /\ Decide(j, c)
      BY <2>4 DEF StoreMap
    <3>2. \A p \in Procs : cache'[p].filled \/ cache'[p] = NoCache
      BY <2>1, <2>4 DEF StoreMap
    <3>3. pc'[j] = "done"
      BY <2>1, <3>1 DEF Decide
    <3>4. /\ access'[j].how \in {"accepted", "denied"}
          /\ \A i \in Jobs \ {j} : access'[i] = access[i]
      BY <2>1, <3>1, DecisionsAnswer
    <3> QED
      BY <2>1, <2>2, <3>1, <3>2, <3>3, <3>4
  <2>5. CASE Rotate(j)
    <3>1. /\ UNCHANGED <<tokens, cache>>
          /\ \/ /\ task[j].label \in ToSet(Labels)
                /\ missing' = [missing EXCEPT ![j] = <<task[j].label>>]
                /\ UNCHANGED access
             \/ /\ pc'[j] = "done" /\ UNCHANGED missing
                /\ access' = [access EXCEPT ![j] = [NoAccess EXCEPT !.how = "redirected"]]
      BY <2>1, <2>5 DEF Rotate, Ended
    <3>2. \A l \in ToSet(Labels) : <<l>> \in Seq(ToSet(Labels)) /\ <<l>> # <<>>
      OBVIOUS
    <3> QED
      BY <2>1, <2>2, <3>1, <3>2 DEF NoAccess
  <2>6. CASE Boot(j)
    <3> DEFINE absent == ItemsAt(Labels, {n \in DOMAIN Labels : ActiveOf(Labels[n]) = {}})
    <3>1. absent \in Seq(ToSet(Labels))
      BY AbsentAreLabels
    <3>2. /\ UNCHANGED <<tokens, cache>>
          /\ missing' = [missing EXCEPT ![j] = absent]
          /\ \/ absent # <<>> /\ UNCHANGED access
             \/ /\ pc'[j] = "done"
                /\ access' = [access EXCEPT ![j] = [NoAccess EXCEPT !.how = "up"]]
      BY <2>1, <2>6 DEF Boot, Ended
    <3> HIDE DEF absent
    <3> QED
      BY <2>1, <2>2, <3>1, <3>2 DEF NoAccess
  <2>7. CASE RetireRow(j)
    BY <2>1, <2>2, <2>7 DEF RetireRow
  <2>8. CASE Replace(j)
    <3>1. missing[j] \in Seq(ToSet(Labels)) /\ missing[j] # <<>>
      BY <2>8 DEF Replace
    <3>2. /\ Head(missing[j]) \in ToSet(Labels) /\ Tail(missing[j]) \in Seq(ToSet(Labels))
          /\ Len(missing[j]) # 1 => Tail(missing[j]) # <<>>
      BY <3>1, RestOfLabels
    <3>3. CASE ActiveOf(Head(missing[j])) = seen[j].active
      <4>1. \A u \in tokens' : u = NewToken(j) \/ \E t \in tokens :
              u.label = t.label /\ u.since = t.since /\ (u = t \/ u.until = now)
        BY <2>8, <3>3, ReplaceTable
      <4>2. /\ MaxNow \in Nat /\ now \in 0..MaxNow
            /\ \A t \in tokens : t.since \in 0..now
        BY EntriesAssumption DEF TokensInv, TableOK
      <4>3. /\ NewToken(j).label \in ToSet(Labels)
            /\ NewToken(j).since <= NewToken(j).until
        BY <3>2, <4>2 DEF NewToken, Forever
      <4>4. \A u \in tokens' : u.label \in ToSet(Labels) /\ u.since <= u.until
        <5> SUFFICES ASSUME NEW u \in tokens', u # NewToken(j)
                     PROVE  u.label \in ToSet(Labels) /\ u.since <= u.until
          BY <4>3
        <5>1. PICK t \in tokens :
                u.label = t.label /\ u.since = t.since /\ (u = t \/ u.until = now)
          BY <4>1
        <5>2. t.label \in ToSet(Labels) /\ t.since <= t.until /\ t.since \in 0..now
          BY <4>2
        <5> QED
          BY <4>2, <5>1, <5>2
      <4>5. /\ cache' = [cache EXCEPT ![task[j].proc] = NoCache]
            /\ missing' = [missing EXCEPT ![j] = Tail(missing[j])]
            /\ \/ Len(missing[j]) # 1 /\ UNCHANGED access
               \/ /\ pc'[j] = "done"
                  /\ access' = [access EXCEPT ![j] = [NoAccess EXCEPT !.how = "up"]]
        BY <2>1, <2>8, <3>3 DEF Replace, Ended
      <4>6. \A p \in Procs : cache'[p].filled \/ cache'[p] = NoCache
        BY <2>1, <4>5
      <4>7. /\ missing' \in [Jobs -> Seq(ToSet(Labels))]
            /\ missing'[j] = Tail(missing[j]) /\ \A i \in Jobs \ {j} : missing'[i] = missing[i]
        BY <3>2, <4>5
      <4>8. \A i \in Jobs : access'[i].how \in Accesses
        BY <2>1, <4>5 DEF NoAccess
      <4>9. \A i \in Jobs : pc'[i] \in {"update", "replace"} => missing'[i] # <<>>
        BY <2>2, <3>2, <4>5, <4>7
      <4> QED
        BY <4>4, <4>6, <4>7, <4>8, <4>9
    <3>4. CASE ActiveOf(Head(missing[j])) # seen[j].active
      BY <2>1, <2>2, <2>8, <3>4 DEF Replace, Ended, NoAccess
    <3> QED
      BY <3>3, <3>4
  <2>9. CASE Restart(j)
    BY <2>1, <2>2, <2>9 DEF Restart, Ended, NoAccess
  <2> QED
    BY <1>2, <2>3, <2>4, <2>5, <2>6, <2>7, <2>8, <2>9 DEF TokensStep
<1> QED
  BY <1>1, <1>2, TokensFrame

LEMMA TokensAreTyped ==
  ASSUME TokensInv, TokenTypes
  PROVE  TokensTypeOK
<1>1. MaxNow \in Nat /\ now \in 0..MaxNow
  BY EntriesAssumption DEF TokensInv, TableOK
<1>2. ASSUME NEW t \in tokens
      PROVE  t.label \in ToSet(Labels) /\ t.until \in t.since..Forever
  <2>1. t.since \in 0..now /\ t.until \in 0..now \cup {Forever}
    BY DEF TokensInv, TableOK
  <2>2. t.label \in ToSet(Labels) /\ t.since <= t.until
    BY DEF TokenTypes
  <2> QED
    BY <1>1, <2>1, <2>2 DEF Forever
<1>3. ASSUME NEW p \in Procs
      PROVE  cache[p].at \in 0..MaxNow /\ cache[p].read <= cache[p].at
  <2>1. CASE cache[p].filled
    <3>1. cache[p].at \in 0..now /\ cache[p].read \in 0..cache[p].at
      BY <2>1 DEF TokensInv, MapsOK
    <3> QED
      BY <1>1, <3>1
  <2>2. CASE cache[p] = NoCache
    BY <1>1, <2>2 DEF NoCache
  <2> QED
    BY <2>1, <2>2 DEF TokenTypes
<1>4. ASSUME NEW j \in Jobs
      PROVE  ToSet(missing[j]) \subseteq ToSet(Labels)
  <2>1. missing[j] \in Seq(ToSet(Labels))
    BY DEF TokenTypes
  <2> QED
    BY <2>1 DEF ToSet
<1> QED
  BY <1>2, <1>3, <1>4 DEF TokensTypeOK, TokenTypes, Accesses

CutsOK == cuts \in [Jobs -> 0..Reconnects]

LEMMA CutsStep ==
  ASSUME PointsOK, ArtifactsInv, CutsOK, [Next]_vars
  PROVE  CutsOK'
<1>1. Reconnects \in Nat \ {0}
  BY EntriesAssumption
<1>2. CASE UNCHANGED artifactVars
  BY <1>2 DEF artifactVars, CutsOK
<1>3. ASSUME NEW j \in Jobs, ArtifactsStep(j)
      PROVE  CutsOK'
  <2>1. CASE UNCHANGED cuts
    BY <2>1 DEF CutsOK
  <2>2. CASE ArtifactDrop(j) /\ ~UNCHANGED cuts
    <3>1. IsPut(j) /\ pc[j] # "done" /\ cuts' = [cuts EXCEPT ![j] = @ + 1]
      BY <2>2 DEF ArtifactDrop
    <3>2. cuts[j] < Reconnects
      BY <3>1 DEF ArtifactsInv, PutOK
    <3> QED
      BY <1>1, <3>1, <3>2 DEF CutsOK
  <2> QED
    BY <1>3, <2>1, <2>2
       DEF ArtifactsStep, ArtifactPut, VerifyPut, GetMeta, GetInline, StreamWindow
<1> QED
  BY <1>2, <1>3, ArtifactsFrame

LEMMA ArtifactsAreTyped ==
  ASSUME ArtifactsInv, CutsOK
  PROVE  ArtifactsTypeOK
<1>1. ASSUME NEW sha \in DOMAIN blobs
      PROVE  DOMAIN blobs[sha] = {"bytes", "type"}
  <2>1. blobs[sha] \in [bytes : {sha}, type : PutTypes]
    BY DEF ArtifactsInv, BlobsOK
  <2> QED
    BY <2>1
<1>2. \A j \in Jobs : reply[j].how \in Hows
  BY DEF ArtifactsInv, ArtifactTypes
<1> QED
  BY <1>1, <1>2 DEF ArtifactsInv, ArtifactTypes, CutsOK, ArtifactsTypeOK, Hows

-----------------------------------------------------------------------------
(* Types of the parts over the log.                                          *)

Endings == {"none", "ok", "failed", "disabled"}

PassTypes ==
    \A j \in Jobs : todo[j] \in Seq(Plain) /\ held[j].row \in 0..Len(log) /\ out[j] \in Endings

LEMMA InitPassTypes == Init => PassTypes
<1> SUFFICES ASSUME Init
             PROVE  PassTypes
  OBVIOUS
<1>1. Len(log) \in Nat
  BY InitRows, LogIsList
<1>2. \A j \in Jobs : todo[j] = <<>> /\ held[j].row = 0 /\ out[j] = "none"
  BY DEF Init, CurationInit, NotHeld
<1>3. <<>> \in Seq(Plain)
  OBVIOUS
<1>4. \A j \in Jobs : todo[j] \in Seq(Plain)
  BY <1>2, <1>3, Zenon
<1> QED
  BY <1>1, <1>2, <1>4 DEF PassTypes, Endings

LEMMA PassTypesStep ==
  ASSUME PointsOK, RowsInv, PassesInv, PassTypes, [Next]_vars
  PROVE  PassTypes'
<1>1. Len(log) \in Nat /\ Len(log') \in Nat /\ Len(log) <= Len(log')
  BY LogGrows DEF RowsInv
<1>2. CASE UNCHANGED curateVars
  BY <1>1, <1>2 DEF curateVars, PassTypes
<1>3. ASSUME NEW j \in Jobs, CurationStep(j)
      PROVE  PassTypes'
  <2>1. /\ todo = [i \in Jobs |-> todo[i]] /\ held = [i \in Jobs |-> held[i]]
        /\ out = [i \in Jobs |-> out[i]]
    BY DEF PassesInv
  <2>2. \A i \in Jobs : todo[i] \in Seq(Plain)
    BY DEF PassTypes
  <2>3. \A i \in Jobs : todo'[i] \in Seq(Plain)
    <3>1. CASE UNCHANGED todo
      BY <2>2, <3>1
    <3>2. CASE Gates(j) /\ todo' = [todo EXCEPT ![j] = OldKeys(Op(j))]
      <4>1. task[j].op = "curate" /\ step[j] \in DOMAIN task[j].ops
        BY <3>2 DEF Gates, PassesInv, PassOK, PointsOK, At, InOp
      <4>2. OldKeys(Op(j)) \in Seq(Plain)
        BY <4>1, TasksAreAsked DEF Op
      <4> QED
        BY <2>1, <2>2, <3>2, <4>2
    <3>3. CASE Bound(j) \/ Close(j)
      <4>1. \/ UNCHANGED todo
            \/ todo' = [todo EXCEPT ![j] = Tail(todo[j])]
        BY <3>3 DEF Bound, Close, NextOld
      <4>2. task[j].op = "curate" /\ pc[j] \in {"bound", "close"}
        BY <3>3 DEF Bound, Close, PointsOK, At
      <4>3. todo[j] # <<>>
        BY <4>2 DEF PassesInv, PassOK
      <4>4. Tail(todo[j]) \in Seq(Plain)
        BY <2>2, <4>3, HeadTailProperties
      <4> QED
        BY <2>1, <2>2, <4>1, <4>4
    <3>4. Gates(j) => UNCHANGED todo \/ todo' = [todo EXCEPT ![j] = OldKeys(Op(j))]
      BY DEF Gates
    <3> QED
      BY <1>3, <3>1, <3>2, <3>3, <3>4
         DEF CurationStep, Disabled, AskModel, Compare, Write, BreakOff
  <2>4. \A i \in Jobs : held'[i].row \in 0..Len(log')
    <3>1. \A i \in Jobs : held[i].row \in 0..Len(log')
      BY <1>1 DEF PassTypes
    <3>2. CASE UNCHANGED held
      BY <3>1, <3>2
    <3>3. CASE Close(j)
      BY <1>1, <2>1, <3>1, <3>3 DEF Close, NotHeld
    <3>4. CASE Bound(j)
      <4>1. Latest(Head(todo[j])) \in 0..Len(log')
        BY <1>1, LatestAtIs DEF Latest
      <4>2. UNCHANGED held
              \/ held' = [held EXCEPT ![j] = [row |-> Latest(Head(todo[j])), at |-> Len(log)]]
        BY <3>4 DEF Bound
      <4> QED
        BY <2>1, <3>1, <4>1, <4>2
    <3> QED
      BY <1>3, <3>2, <3>3, <3>4
         DEF CurationStep, Disabled, AskModel, Gates, Compare, Write, BreakOff
  <2>5. \A i \in Jobs : out'[i] \in Endings
    <3>1. out' = out \/ \E how \in Endings : out' = [out EXCEPT ![j] = how]
      BY <1>3 DEF CurationStep, Disabled, AskModel, Gates, Compare, Bound, Close, Write,
                  BreakOff, Advance, End, Refuse, Endings
    <3> QED
      BY <2>1, <3>1 DEF PassTypes
  <2> QED
    BY <2>3, <2>4, <2>5 DEF PassTypes
<1> QED
  BY <1>2, <1>3, CurationFrame

\* What a pass has still to resolve, also one that has ended, lies in the log.
BatchTypes == \A j \in Jobs : batch[j] \subseteq 1..Len(log)

LEMMA BatchTypesStep ==
  ASSUME PointsOK, RowsInv, BatchInv, BatchTypes, [Next]_vars
  PROVE  BatchTypes'
<1>1. Len(log) \in Nat /\ Len(log') \in Nat /\ Len(log) <= Len(log')
  BY LogGrows DEF RowsInv
<1>2. 1..Len(log) \subseteq 1..Len(log')
  BY <1>1
<1>3. CASE UNCHANGED batch
  BY <1>2, <1>3 DEF BatchTypes
<1>4. ASSUME NEW j \in Jobs, ClaimsStep(j), ~UNCHANGED batch
      PROVE  BatchTypes'
  <2>1. batch = [i \in Jobs |-> batch[i]]
    BY DEF BatchInv
  <2>2. ASSUME NEW b, b \subseteq 1..Len(log), batch' = [batch EXCEPT ![j] = b]
        PROVE  BatchTypes'
    BY <1>2, <2>1, <2>2 DEF BatchTypes
  <2>3. CASE ReadClaims(j)
    <3>1. \A limit : ClaimsOf(task[j], limit) \subseteq 1..Len(log)
      BY LogIsList DEF ClaimsOf, FirstByKey, DistinctOn
    <3> QED
      BY <2>2, <2>3, <3>1 DEF ReadClaims, Goes
  <2>4. CASE SaveVerdict(j)
    <3>1. batch[j] \ {NextClaim(j)} \subseteq 1..Len(log)
      BY DEF BatchTypes
    <3> QED
      BY <2>2, <2>4, <3>1 DEF SaveVerdict, Goes
  <2>5. CASE BreakPass(j)
    BY <2>2, <2>5 DEF BreakPass
  <2> QED
    BY <1>4, <2>3, <2>4, <2>5
       DEF ClaimsStep, Attest, ResolveSubject, BootstrapHealth, BootstrapBatons,
           BootstrapSession
<1> QED
  BY <1>3, <1>4, ClaimsFrame DEF claimVars

\* The log goes on from what was saved before the calls.
SeedInv == \E w \in Workloads : task = w.task /\ Grown(w.seed, log)

LEMMA InitSeed == Init => SeedInv
<1> SUFFICES ASSUME Init
             PROVE  SeedInv
  OBVIOUS
<1>1. PICK w \in Workloads : task = w.task /\ log = w.seed
  BY DEF Init, EntriesInit
<1>2. Len(log) \in Nat
  BY InitRows, LogIsList
<1> QED
  BY <1>1, <1>2 DEF SeedInv, Grown

LEMMA SeedStep ==
  ASSUME PointsOK, RowsInv, SeedInv, [Next]_vars
  PROVE  SeedInv'
<1>1. PICK w \in Workloads : task = w.task /\ Grown(w.seed, log)
  BY DEF SeedInv
<1>2. Grown(log, log') /\ task' = task
  BY LogIsGrown, TaskStays
<1>3. Grown(w.seed, log')
  BY <1>1, <1>2 DEF Grown
<1> QED
  BY <1>1, <1>2, <1>3 DEF SeedInv

LEMMA SeedIsPrefix ==
  ASSUME RowsInv, SeedInv
  PROVE  \E w \in Workloads : task = w.task /\ IsPrefix(w.seed, log)
<1>1. PICK w \in Workloads : task = w.task /\ Grown(w.seed, log)
  BY DEF SeedInv
<1> DEFINE s == w.seed
           n == Len(w.seed)
<1>2. s \in Seq(ToSet(s))
  BY LogAssumption
<1>3. PICK S : log \in Seq(S)
  BY DEF RowsInv, LogOK
<1>4. n \in Nat /\ n <= Len(log) /\ \A i \in 1..n : log[i] = s[i]
  BY <1>1 DEF Grown
<1>5. /\ SubSeq(s, 1, n) \in Seq(ToSet(s)) /\ Len(SubSeq(s, 1, n)) = n
      /\ DOMAIN SubSeq(s, 1, n) = 1..n
      /\ \A p \in 1..n : SubSeq(s, 1, n)[p] = s[p]
  BY <1>2, <1>4, FirstOfAList
<1>6. /\ SubSeq(log, 1, n) \in Seq(S) /\ Len(SubSeq(log, 1, n)) = n
      /\ DOMAIN SubSeq(log, 1, n) = 1..n
      /\ \A p \in 1..n : SubSeq(log, 1, n)[p] = log[p]
  BY <1>3, <1>4, FirstOfAList
<1> DEFINE a == SubSeq(s, 1, n)
           b == SubSeq(log, 1, n)
<1>7. a \in Seq(ToSet(s)) /\ b \in Seq(S) /\ Len(a) = n /\ Len(b) = n
      /\ \A p \in 1..n : a[p] = b[p]
  BY <1>4, <1>5, <1>6
<1> HIDE DEF a, b, n
<1>8. a = b
  BY <1>4, <1>7, SeqEqual
<1> QED
  BY <1>1, <1>4, <1>8 DEF a, b, n, IsPrefix

\* All there is to say about types, with what makes it inductive.
TypesInv ==
    /\ SeedInv /\ PassTypes /\ BatchTypes
    /\ SessionsInv /\ SessionTypes
    /\ NamespacesTypeOK
    /\ TokensInv /\ TokenTypes
    /\ ArtifactsInv /\ CutsOK

LEMMA InitTypes == Init => TypesInv
<1> SUFFICES ASSUME Init
             PROVE  TypesInv
  OBVIOUS
<1>1. BatchTypes
  BY DEF Init, ClaimsInit, BatchTypes
<1>2. CutsOK
  BY EntriesAssumption DEF Init, ArtifactsInit, CutsOK
<1> QED
  BY <1>1, <1>2, InitSeed, InitPassTypes, InitSessions, InitSessionTypes,
     InitNamespaceTypes, InitTokens, InitTokenTypes, InitArtifacts DEF TypesInv

LEMMA TypesStep ==
  ASSUME PointsOK, PointsOK', RowsInv, PassesInv, BatchInv, TypesInv, [Next]_vars
  PROVE  TypesInv'
<1>1. SeedInv' /\ PassTypes' /\ BatchTypes'
  BY SeedStep, PassTypesStep, BatchTypesStep DEF TypesInv
<1>2. SessionsInv' /\ SessionTypes'
  BY SessionsInvStep, SessionTypesStep DEF TypesInv
<1>3. NamespacesTypeOK'
  BY NamespaceTypesStep DEF TypesInv, RowsInv, Asked
<1>4. TokensInv' /\ TokenTypes'
  BY TokensInvStep, TokenTypesStep DEF TypesInv
<1>5. ArtifactsInv' /\ CutsOK'
  BY ArtifactsInvStep, CutsStep DEF TypesInv
<1> QED
  BY <1>1, <1>2, <1>3, <1>4, <1>5 DEF TypesInv

LEMMA TypesInvariant == Spec => []TypesInv
<1>1. PointsOK /\ PointsOK' /\ KnowledgeInv /\ TypesInv /\ [Next]_vars => TypesInv'
  BY TypesStep DEF KnowledgeInv
<1> QED
  BY <1>1, InitTypes, KnowledgeInvariant, PTL DEF Spec

LEMMA RowsAreTyped ==
  ASSUME RowsInv, NEW i \in DOMAIN log
  PROVE  RowOK(log[i])
<1> DEFINE r == log[i]
<1>1. RowShape(r) /\ r.meta.sha.len # "short" /\ r.at \in 0..now /\ r.by \in Jobs \cup {0}
  BY DEF RowsInv
<1>2. now \in 0..MaxNow /\ MaxNow \in Nat
  BY EntriesAssumption DEF RowsInv
<1>3. r.at \in 0..MaxNow
  BY <1>1, <1>2
<1>4. Blank.by = 0
  BY DEF Blank
<1> HIDE DEF r
<1>5. {r.dead, r.closed, r.quarantined, r.family} \subseteq BOOLEAN
  <2>1. /\ r.dead \in BOOLEAN /\ r.closed \in BOOLEAN
        /\ r.quarantined \in BOOLEAN /\ r.family \in BOOLEAN
    BY <1>1 DEF RowShape
  <2> QED
    BY <2>1, Zenon
<1>6. RowOK(r)
  BY <1>1, <1>3, <1>4, <1>5 DEF RowShape, RowOK
<1> QED
  BY <1>6 DEF r

\* Every step of every part keeps the variables to their types: positions to the
\* log, limits to their bounds, answers and outcomes to those the code has.
THEOREM TypesAreKept == Spec => []TypeOK
<1>1. PointsOK /\ KnowledgeInv /\ WalksInv /\ SearchInv /\ TypesInv => TypeOK
  <2> SUFFICES ASSUME PointsOK, KnowledgeInv, WalksInv, SearchInv, TypesInv
               PROVE  TypeOK
    OBVIOUS
  <2>1. /\ RowsInv /\ PassesInv /\ BatchInv /\ head \in DOMAIN Upstream
        /\ Len(log) \in Nat /\ DOMAIN log = 1..Len(log)
    BY LogIsList DEF KnowledgeInv, VerdictsInv
  <2>2. \A i \in DOMAIN log : RowOK(log[i])
    BY <2>1, RowsAreTyped
  <2>3. \E w \in Workloads : task = w.task /\ IsPrefix(w.seed, log)
    BY <2>1, SeedIsPrefix DEF TypesInv
  <2>4. now \in 0..MaxNow /\ pc \in [Jobs -> Points]
    BY <2>1 DEF RowsInv, PointsOK
  <2>5. ASSUME NEW j \in Jobs, NEW p \in DOMAIN walk[j]
        PROVE  ToSet(walk[j][p].shown) \subseteq DOMAIN log
    <3>1. DOMAIN <<>> = {}
      OBVIOUS
    <3>2. PagesOK(log, task[j], walk[j])
      BY <2>5, <3>1 DEF WalksInv, WalkOK
    <3>3. walk[j][p].at \in 0..Len(log) /\ walk[j][p].shown \in Seq(1..walk[j][p].at)
      BY <3>2 DEF PagesOK, PageOK
    <3>4. \A s \in DOMAIN walk[j][p].shown : walk[j][p].shown[s] \in 1..walk[j][p].at
      BY <3>3
    <3> QED
      BY <2>1, <3>3, <3>4 DEF ToSet
  <2>6. ASSUME NEW j \in Jobs, NEW n \in DOMAIN legs[j]
        PROVE  ToSet(legs[j][n].rows) \subseteq DOMAIN log
    <3>1. legs[j][n].at \in 0..Len(log) /\ legs[j][n].rows \in Seq(1..legs[j][n].at)
      BY DEF SearchInv, SearchOK, LegsOK, LegOK
    <3>2. \A s \in DOMAIN legs[j][n].rows : legs[j][n].rows[s] \in 1..legs[j][n].at
      BY <3>1
    <3> QED
      BY <2>1, <3>1, <3>2 DEF ToSet
  <2>7. ASSUME NEW j \in Jobs
        PROVE  /\ ToSet(todo[j]) \subseteq Plain /\ ToSet(told[j]) \subseteq Outcomes
               /\ held[j].row \in 0..Len(log) /\ out[j] \in Endings
               /\ batch[j] \subseteq DOMAIN log /\ verdict[j] \in States \cup {"none"}
    <3>1. todo[j] \in Seq(Plain) /\ told[j] \in Seq(Outcomes)
      BY <2>1 DEF TypesInv, PassTypes, PassesInv
    <3>2. ToSet(todo[j]) \subseteq Plain /\ ToSet(told[j]) \subseteq Outcomes
      BY <3>1 DEF ToSet
    <3> QED
      BY <2>1, <3>2 DEF TypesInv, PassTypes, BatchTypes, BatchInv
  <2>8. SessionsTypeOK /\ NamespacesTypeOK /\ TokensTypeOK /\ ArtifactsTypeOK
    BY SessionsAreTyped, TokensAreTyped, ArtifactsAreTyped DEF TypesInv
  <2> QED
    BY <2>1, <2>2, <2>3, <2>4, <2>5, <2>6, <2>7, <2>8 DEF TypeOK, Endings
<1> QED
  BY <1>1, KnowledgeInvariant, WalksInvariant, SearchInvariant, TypesInvariant, PTL
=============================================================================
