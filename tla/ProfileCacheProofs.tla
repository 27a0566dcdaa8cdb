-------------------------- MODULE ProfileCacheProofs --------------------------
(***************************************************************************)
(* ProfileCache's safety, for any namespaces, readers, writers and bounds.  *)
(***************************************************************************)
EXTENDS ProfileCache, TLAPS

-----------------------------------------------------------------------------
(* The inductive invariant.                                                 *)

Writes ==
    {NoWrite} \cup [at : {"open"}, ns : Namespaces, number : 1..MaxSeq]
              \cup [at : {"committed"}, ns : Namespaces, edit : Nat]
Stores ==
    [at : {"store"}, ns : Namespaces, edit : Nat, age : 0..MaxFill, late : Lates,
     raced : BOOLEAN]
Fills == {NoFill} \cup [at : {"select"}, ns : Namespaces] \cup Stores

Notices == [number : 1..MaxSeq, ns : Namespaces, edit : Nat]

\* TypeOK, with what EXCEPT updates as functions.
Types ==
    /\ db \in [Namespaces -> Nat]
    /\ seq \in 0..MaxSeq
    /\ linked \in BOOLEAN
    /\ wire \in Seq(Notices)
    /\ listener \in {"off", "connecting", "reloading", "up"}
    /\ version \in Nat
    /\ told \in [Namespaces -> Nat]
    /\ returned \in [Namespaces -> Nat]
    /\ write \in [Writers -> Writes]
    /\ gate \in [Namespaces -> SUBSET GateEntries]
    /\ plain \in [Namespaces -> SUBSET PlainEntries]
    /\ fill \in [Readers -> Fills]

\* Nothing that was stored, or is on its way to be, has been out of date for
\* longer than it was on its way and then aged.
AgeOK ==
    /\ \A n \in Namespaces : \A e \in gate[n] \cup plain[n] : e.late <= e.age + MaxFill
    /\ \A r \in Readers : fill[r].at = "store" => fill[r].late <= fill[r].age

\* Nobody is told of an edit before it is committed.
AnnouncedOK ==
    /\ \A n \in Namespaces : returned[n] <= db[n] /\ told[n] <= db[n]
    /\ \A w \in Writers : write[w].at = "committed" => write[w].edit <= db[write[w].ns]
    /\ \A i \in DOMAIN wire : wire[i].edit <= db[wire[i].ns]

\* What is older than an edit the process was told of is so because it was on
\* its way at the time.
RacedOK ==
    /\ \A n \in Namespaces : \A e \in gate[n] \cup plain[n] : e.edit < returned[n] => e.raced
    /\ \A n \in Namespaces : \A e \in gate[n] : e.edit < told[n] => e.raced
    /\ \A r \in Readers :
         /\ fill[r].at = "store"
         /\ fill[r].edit < returned[fill[r].ns] \/ fill[r].edit < told[fill[r].ns]
         => fill[r].raced

IInv == Types /\ AgeOK /\ AnnouncedOK /\ RacedOK

\* No entry of the gate cache is stamped above its version.
StampsOK == \A n \in Namespaces : \A e \in gate[n] : e.stamp <= version

-----------------------------------------------------------------------------
(* Lemmas.                                                                  *)

LEMMA MaxOfTwo ==
    ASSUME NEW a \in Nat, NEW b \in Nat
    PROVE  Max({a, b}) \in {a, b} /\ Max({a, b}) >= a /\ Max({a, b}) >= b
<1>1. \E x \in {a, b} : \A y \in {a, b} : x >= y
  <2>1. CASE a >= b
    BY <2>1
  <2>2. CASE ~(a >= b)
    BY <2>2
  <2> QED
    BY <2>1, <2>2
<1>2. Max({a, b}) \in {a, b} /\ \A y \in {a, b} : Max({a, b}) >= y
  BY <1>1 DEF Max
<1> QED
  BY <1>2

\* Ages and lates grow by one at most, up to their caps.
LEMMA OlderIs ==
    ASSUME NEW m \in Nat, NEW a \in 0..m
    PROVE  /\ Older(a, 0..m) \in 0..m
           /\ (Older(a, 0..m) = a + 1 \/ (a = m /\ Older(a, 0..m) = a))
BY DEF Older

\* GateLive, PlainLive and what a get leaves behind are stored entries.
LEMMA ServedIsStored ==
    ASSUME NEW n \in Namespaces
    PROVE  /\ GateLive(n) \subseteq gate[n] /\ PlainLive(n) \subseteq plain[n]
           /\ AfterGet(n) \subseteq gate[n]
BY DEF GateLive, PlainLive, AfterGet

LEMMA TypesAreTypeOK ==
    ASSUME Types, StampsOK
    PROVE  TypeOK
BY DEF Types, StampsOK, TypeOK, Writes, Fills, Stores, Notices

\* A store in flight is what its type says, a fill at another point is not one.
LEMMA StoreType ==
    ASSUME Types, NEW r \in Readers, fill[r].at = "store"
    PROVE  fill[r] \in Stores
BY DEF Types, Fills, NoFill, Stores

LEMMA WriteType ==
    ASSUME Types, NEW w \in Writers
    PROVE  /\ write[w].at = "open" => write[w].ns \in Namespaces /\ write[w].number \in 1..MaxSeq
           /\ write[w].at = "committed" => write[w].ns \in Namespaces /\ write[w].edit \in Nat
<1>1. write[w] \in Writes
  BY DEF Types
<1> QED
  BY <1>1 DEF Writes, NoWrite

LEMMA NoticeType ==
    ASSUME Types, NEW i \in DOMAIN wire
    PROVE  wire[i] \in Notices /\ wire[i].ns \in Namespaces /\ wire[i].edit \in Nat
<1>1. wire[i] \in Notices
  BY DEF Types
<1> QED
  BY <1>1 DEF Notices

\* Gate and plain entries, one by one.
LEMMA EntryTypes ==
    ASSUME Types, NEW n \in Namespaces
    PROVE  /\ \A e \in gate[n] : e \in GateEntries
           /\ \A e \in plain[n] : e \in PlainEntries
BY DEF Types

-----------------------------------------------------------------------------
(* Reads.                                                                   *)

LEMMA HitStep ==
    ASSUME IInv, NEW n \in Namespaces, Hit(n)
    PROVE  IInv'
<1>1. gate' \in [Namespaces -> SUBSET GateEntries] /\ \A m \in Namespaces : gate'[m] \subseteq gate[m]
  BY ServedIsStored DEF Hit, DropExpired, IInv, Types
<1>2. Types'
  BY <1>1 DEF Hit, IInv, Types
<1>3. AgeOK'
  BY <1>1 DEF Hit, IInv, AgeOK
<1>4. AnnouncedOK'
  BY DEF Hit, IInv, AnnouncedOK
<1>5. RacedOK'
  BY <1>1 DEF Hit, IInv, RacedOK
<1> QED
  BY <1>2, <1>3, <1>4, <1>5 DEF IInv

LEMMA MissStep ==
    ASSUME IInv, NEW r \in Readers, NEW n \in Namespaces, Miss(r, n)
    PROVE  IInv'
<1>1. gate' \in [Namespaces -> SUBSET GateEntries] /\ \A m \in Namespaces : gate'[m] \subseteq gate[m]
  BY ServedIsStored DEF Miss, DropExpired, IInv, Types
<1>2. fill' \in [Readers -> Fills] /\ fill'[r].at = "select"
  BY DEF Miss, IInv, Types, Fills
<1>3. \A s \in Readers : fill'[s].at = "store" => fill'[s] = fill[s]
  BY <1>2 DEF Miss, IInv, Types
<1>4. Types'
  BY <1>1, <1>2 DEF Miss, IInv, Types
<1>5. AgeOK'
  BY <1>1, <1>3 DEF Miss, IInv, AgeOK
<1>6. AnnouncedOK'
  BY DEF Miss, IInv, AnnouncedOK
<1>7. RacedOK'
  BY <1>1, <1>3 DEF Miss, IInv, RacedOK
<1> QED
  BY <1>4, <1>5, <1>6, <1>7 DEF IInv

\* What the SELECT reads is committed, so it is as new as anything announced.
LEMMA SelectStep ==
    ASSUME IInv, NEW r \in Readers, Select(r)
    PROVE  IInv'
<1>1. fill[r].ns \in Namespaces
  BY DEF Select, IInv, Types, Fills, NoFill, Stores
<1>2. fill'[r] = [at |-> "store", ns |-> fill[r].ns, edit |-> db[fill[r].ns],
                  age |-> 0, late |-> 0, raced |-> FALSE]
      /\ \A s \in Readers : s # r => fill'[s] = fill[s]
  BY DEF Select, IInv, Types
<1>3. fill'[r] \in Stores
  BY <1>1, <1>2, ConstantsAssumption DEF Stores, Lates, IInv, Types
<1>4. Types'
  BY <1>3 DEF Select, IInv, Types, Fills
<1>5. AgeOK'
  BY <1>2 DEF Select, IInv, AgeOK
<1>6. AnnouncedOK'
  BY DEF Select, IInv, AnnouncedOK
<1>7. RacedOK'
  <2>1. ~(db[fill[r].ns] < returned[fill[r].ns]) /\ ~(db[fill[r].ns] < told[fill[r].ns])
    BY <1>1 DEF IInv, AnnouncedOK, Types
  <2> QED
    BY <1>2, <2>1 DEF Select, IInv, RacedOK
<1> QED
  BY <1>4, <1>5, <1>6, <1>7 DEF IInv

LEMMA StoreStep ==
    ASSUME IInv, NEW r \in Readers, Store(r)
    PROVE  IInv'
<1> DEFINE f == fill[r]
           p == [edit |-> f.edit, age |-> 0, late |-> f.late, raced |-> f.raced]
           g == [edit |-> f.edit, age |-> 0, late |-> f.late, raced |-> f.raced,
                 stamp |-> version]
<1>1. f \in Stores /\ f.ns \in Namespaces
  BY StoreType DEF Store, IInv, Stores
<1>2. p \in PlainEntries /\ g \in GateEntries
  BY <1>1, ConstantsAssumption DEF PlainEntries, GateEntries, Stores, Ages, IInv, Types
<1>3. gate' = [gate EXCEPT ![f.ns] = {g}] /\ plain' = [plain EXCEPT ![f.ns] = {p}]
  BY DEF Store
<1>4. \A s \in Readers : fill'[s] = IF s = r THEN NoFill ELSE fill[s]
  BY DEF Store, IInv, Types
<1>5. \A n \in Namespaces :
        /\ gate'[n] = IF n = f.ns THEN {g} ELSE gate[n]
        /\ plain'[n] = IF n = f.ns THEN {p} ELSE plain[n]
  BY <1>3 DEF IInv, Types
<1>6. Types'
  BY <1>1, <1>2, <1>3 DEF Store, IInv, Types, Fills
<1>7. AgeOK'
  <2>1. f.late <= MaxFill
    BY <1>1, ConstantsAssumption DEF Store, IInv, AgeOK, Stores, Lates
  <2>2. p.late <= p.age + MaxFill /\ g.late <= g.age + MaxFill
    BY <2>1, <1>1, ConstantsAssumption DEF Stores, Lates
  <2>3. \A n \in Namespaces : \A e \in gate'[n] \cup plain'[n] : e.late <= e.age + MaxFill
    BY <1>5, <2>2 DEF IInv, AgeOK
  <2>4. \A s \in Readers : fill'[s].at = "store" => fill'[s].late <= fill'[s].age
    BY <1>4 DEF IInv, AgeOK, NoFill
  <2> QED
    BY <2>3, <2>4 DEF AgeOK
<1>8. AnnouncedOK'
  BY DEF Store, IInv, AnnouncedOK
<1>9. RacedOK'
  <2>1. \A e \in {p, g} : e.edit < returned[f.ns] \/ e.edit < told[f.ns] => e.raced
    BY DEF Store, IInv, RacedOK
  <2>2. \A n \in Namespaces : \A e \in gate'[n] \cup plain'[n] : e.edit < returned[n] => e.raced
    BY <1>5, <2>1 DEF IInv, RacedOK
  <2>3. \A n \in Namespaces : \A e \in gate'[n] : e.edit < told[n] => e.raced
    BY <1>5, <2>1 DEF IInv, RacedOK
  <2> QED
    BY <1>4, <2>2, <2>3 DEF Store, IInv, RacedOK, NoFill
<1> QED
  BY <1>6, <1>7, <1>8, <1>9 DEF IInv

-----------------------------------------------------------------------------
(* Edits.                                                                   *)

LEMMA UpsertStep ==
    ASSUME IInv, NEW w \in Writers, NEW n \in Namespaces, Upsert(w, n)
    PROVE  IInv'
<1>1. seq + 1 \in 1..MaxSeq /\ seq' \in 0..MaxSeq
  BY ConstantsAssumption DEF Upsert, IInv, Types
<1>2. Types'
  BY <1>1 DEF Upsert, IInv, Types, Writes
<1>3. AgeOK'
  BY DEF Upsert, IInv, AgeOK
<1>4. AnnouncedOK'
  BY DEF Upsert, IInv, AnnouncedOK, Types
<1>5. RacedOK'
  BY DEF Upsert, IInv, RacedOK
<1> QED
  BY <1>2, <1>3, <1>4, <1>5 DEF IInv

LEMMA CommitEditStep ==
    ASSUME IInv, NEW w \in Writers, CommitEdit(w)
    PROVE  IInv'
<1> DEFINE n == write[w].ns
           m == [number |-> write[w].number, ns |-> n, edit |-> db[n] + 1]
<1>1. n \in Namespaces /\ write[w].number \in 1..MaxSeq
  BY WriteType DEF CommitEdit, IInv
<1>2. db' \in [Namespaces -> Nat] /\ db'[n] = db[n] + 1
      /\ \A k \in Namespaces : db'[k] >= db[k]
  <2>1. db \in [Namespaces -> Nat] /\ db' = [db EXCEPT ![n] = db[n] + 1]
    BY DEF CommitEdit, IInv, Types
  <2> HIDE DEF n
  <2>2. db'[n] = db[n] + 1 /\ \A k \in Namespaces : k # n => db'[k] = db[k]
    BY <1>1, <2>1
  <2> QED
    BY <1>1, <2>1, <2>2
<1>3. m \in Notices
  BY <1>1 DEF IInv, Types, Notices
<1>4. wire' = wire \/ wire' = Append(wire, m)
  BY DEF CommitEdit
<1>5. wire' \in Seq(Notices)
  <2>1. wire \in Seq(Notices)
    BY DEF IInv, Types
  <2>2. Append(wire, m) \in Seq(Notices)
    BY <1>3, <2>1
  <2> QED
    BY <1>4, <2>1, <2>2
<1>6. write' \in [Writers -> Writes]
  BY <1>1 DEF CommitEdit, IInv, Types, Writes
<1>7. Types'
  BY <1>2, <1>5, <1>6 DEF CommitEdit, IInv, Types
<1>8. AgeOK'
  BY DEF CommitEdit, IInv, AgeOK
<1>9. AnnouncedOK'
  <2>1. \A k \in Namespaces : returned'[k] <= db'[k] /\ told'[k] <= db'[k]
    BY <1>2 DEF CommitEdit, IInv, AnnouncedOK, Types
  <2>2. \A v \in Writers : write'[v].at = "committed" => write'[v].edit <= db'[write'[v].ns]
    <3> SUFFICES ASSUME NEW v \in Writers, write'[v].at = "committed"
                 PROVE  write'[v].edit <= db'[write'[v].ns]
      OBVIOUS
    <3>1. CASE v = w
      BY <3>1, <1>1, <1>2 DEF CommitEdit, NoWrite, IInv, Types
    <3>2. CASE v # w
      <4>1. write'[v] = write[v] /\ write[v].ns \in Namespaces /\ write[v].edit \in Nat
        BY <3>2 DEF CommitEdit, IInv, Types, Writes, NoWrite
      <4>2. write[v].edit <= db[write[v].ns]
        BY <4>1 DEF IInv, AnnouncedOK
      <4> QED
        BY <1>2, <4>1, <4>2 DEF IInv, Types
    <3> QED
      BY <3>1, <3>2
  <2>3. \A i \in DOMAIN wire' : wire'[i].edit <= db'[wire'[i].ns]
    <3> SUFFICES ASSUME NEW i \in DOMAIN wire'
                 PROVE  wire'[i].edit <= db'[wire'[i].ns]
      OBVIOUS
    <3>1. wire'[i] = m \/ (i \in DOMAIN wire /\ wire'[i] = wire[i])
      <4>1. wire \in Seq(Notices)
        BY DEF IInv, Types
      <4> HIDE DEF m
      <4> QED
        <5>1. CASE wire' = wire
          BY <5>1
        <5>2. CASE wire' = Append(wire, m)
          <6>1. DOMAIN wire' = 1..(Len(wire) + 1) /\ DOMAIN wire = 1..Len(wire)
            BY <1>3, <4>1, <5>2
          <6>2. CASE i = Len(wire) + 1
            <7>1. Append(wire, m)[Len(wire) + 1] = m
              BY <1>3, <4>1
            <7>2. wire'[Len(wire) + 1] = m
              BY <5>2, <7>1
            <7> QED
              BY <6>2, <7>2
          <6>3. CASE i \in 1..Len(wire)
            BY <1>3, <4>1, <5>2, <6>1, <6>3
          <6>4. Len(wire) \in Nat
            BY <4>1
          <6> QED
            BY <6>1, <6>2, <6>3, <6>4
        <5> QED
          BY <1>4, <5>1, <5>2
    <3>2. CASE wire'[i] = m
      <4>1. m.edit = db'[n] /\ m.ns = n
        BY <1>2
      <4> QED
        BY <3>2, <4>1, <1>1, <1>2
    <3>3. CASE i \in DOMAIN wire /\ wire'[i] = wire[i]
      <4>1. wire[i].edit \in Nat /\ wire[i].ns \in Namespaces
        BY <3>3, NoticeType DEF IInv
      <4>2. wire[i].edit <= db[wire[i].ns]
        BY <3>3 DEF IInv, AnnouncedOK
      <4> QED
        BY <1>2, <3>3, <4>1, <4>2 DEF IInv, Types
    <3> QED
      BY <3>1, <3>2, <3>3
  <2> QED
    BY <2>1, <2>2, <2>3 DEF AnnouncedOK
<1>10. RacedOK'
  BY DEF CommitEdit, IInv, RacedOK
<1> QED
  BY <1>7, <1>8, <1>9, <1>10 DEF IInv

LEMMA AbortEditStep ==
    ASSUME IInv, NEW w \in Writers, AbortEdit(w)
    PROVE  IInv'
<1>1. Types'
  BY DEF AbortEdit, IInv, Types, Writes
<1>2. AgeOK'
  BY DEF AbortEdit, IInv, AgeOK
<1>3. AnnouncedOK'
  BY DEF AbortEdit, IInv, AnnouncedOK, Types, NoWrite
<1>4. RacedOK'
  BY DEF AbortEdit, IInv, RacedOK
<1> QED
  BY <1>1, <1>2, <1>3, <1>4 DEF IInv

\* Fills of the namespace become raced ones, the others stay.
LEMMA OvertakenFills ==
    ASSUME IInv, NEW n \in Namespaces, OvertakeFills(n)
    PROVE  /\ fill' \in [Readers -> Fills]
           /\ \A r \in Readers :
                /\ fill'[r].at = fill[r].at
                /\ fill[r].at = "store" =>
                     /\ fill'[r].ns = fill[r].ns /\ fill'[r].edit = fill[r].edit
                     /\ fill'[r].age = fill[r].age /\ fill'[r].late = fill[r].late
                     /\ fill[r].raced \/ fill[r].ns = n => fill'[r].raced
<1> SUFFICES ASSUME NEW r \in Readers
             PROVE  /\ fill'[r] \in Fills
                    /\ fill'[r].at = fill[r].at
                    /\ fill[r].at = "store" =>
                         /\ fill'[r].ns = fill[r].ns /\ fill'[r].edit = fill[r].edit
                         /\ fill'[r].age = fill[r].age /\ fill'[r].late = fill[r].late
                         /\ fill[r].raced \/ fill[r].ns = n => fill'[r].raced
  BY DEF OvertakeFills
<1>1. fill'[r] = IF fill[r].at = "store" /\ fill[r].ns = n
                   THEN [fill[r] EXCEPT !.raced = TRUE] ELSE fill[r]
  BY DEF OvertakeFills
<1>2. CASE fill[r].at = "store" /\ fill[r].ns = n
  <2>1. fill[r] \in Stores
    BY <1>2, StoreType DEF IInv
  <2>2. fill'[r] \in Stores
    BY <1>1, <1>2, <2>1 DEF Stores
  <2> QED
    BY <1>1, <1>2, <2>1, <2>2 DEF Stores, Fills
<1>3. CASE ~(fill[r].at = "store" /\ fill[r].ns = n)
  <2>1. fill'[r] = fill[r]
    BY <1>1, <1>3
  <2>2. fill[r] \in Fills
    BY DEF IInv, Types
  <2>3. fill[r].at = "store" => fill[r].raced \in BOOLEAN /\ fill[r].ns # n
    BY <1>3, StoreType DEF IInv, Stores
  <2> QED
    BY <2>1, <2>2, <2>3
<1> QED
  BY <1>2, <1>3

LEMMA WriteReturnsStep ==
    ASSUME IInv, NEW w \in Writers, WriteReturns(w)
    PROVE  IInv'
<1> DEFINE n == write[w].ns
<1>1. n \in Namespaces /\ write[w].edit \in Nat /\ write[w].edit <= db[n]
  BY WriteType DEF WriteReturns, IInv, AnnouncedOK
<1>2. /\ gate' = [gate EXCEPT ![n] = {}] /\ plain' = [plain EXCEPT ![n] = {}]
      /\ returned' = [returned EXCEPT ![n] = Max({returned[n], write[w].edit})]
      /\ OvertakeFills(n)
  BY DEF WriteReturns, InvalidateProfile
<1>3. /\ fill' \in [Readers -> Fills]
      /\ \A r \in Readers :
                /\ fill'[r].at = fill[r].at
                /\ fill[r].at = "store" =>
                     /\ fill'[r].ns = fill[r].ns /\ fill'[r].edit = fill[r].edit
                     /\ fill'[r].age = fill[r].age /\ fill'[r].late = fill[r].late
                     /\ fill[r].raced \/ fill[r].ns = n => fill'[r].raced
  BY <1>1, <1>2, OvertakenFills
<1>4. Max({returned[n], write[w].edit}) \in Nat /\ Max({returned[n], write[w].edit}) <= db[n]
  <2>1. returned[n] \in Nat /\ returned[n] <= db[n] /\ db[n] \in Nat
    BY <1>1 DEF IInv, Types, AnnouncedOK
  <2>2. Max({returned[n], write[w].edit}) \in {returned[n], write[w].edit}
    BY <1>1, <2>1, MaxOfTwo
  <2> QED
    BY <1>1, <2>1, <2>2
<1>5. /\ gate'[n] = {} /\ plain'[n] = {}
      /\ returned'[n] = Max({returned[n], write[w].edit})
      /\ \A k \in Namespaces \ {n} :
           gate'[k] = gate[k] /\ plain'[k] = plain[k] /\ returned'[k] = returned[k]
  <2> HIDE DEF n
  <2>1. /\ gate \in [Namespaces -> SUBSET GateEntries]
        /\ plain \in [Namespaces -> SUBSET PlainEntries]
        /\ returned \in [Namespaces -> Nat]
    BY DEF IInv, Types
  <2>2. gate'[n] = {} /\ \A k \in Namespaces \ {n} : gate'[k] = gate[k]
    BY <1>1, <1>2, <2>1
  <2>3. plain'[n] = {} /\ \A k \in Namespaces \ {n} : plain'[k] = plain[k]
    BY <1>1, <1>2, <2>1
  <2>4. /\ returned'[n] = Max({returned[n], write[w].edit})
        /\ \A k \in Namespaces \ {n} : returned'[k] = returned[k]
    BY <1>1, <1>2, <2>1
  <2> QED
    BY <2>2, <2>3, <2>4
<1>6. Types'
  <2>1. write' \in [Writers -> Writes]
    BY DEF WriteReturns, IInv, Types, Writes
  <2> HIDE DEF n
  <2> QED
    <3>1. /\ gate' \in [Namespaces -> SUBSET GateEntries]
          /\ plain' \in [Namespaces -> SUBSET PlainEntries]
      BY <1>1, <1>2 DEF IInv, Types
    <3>2. returned' \in [Namespaces -> Nat]
      BY <1>1, <1>2, <1>4 DEF IInv, Types
    <3> QED
      BY <1>3, <2>1, <3>1, <3>2 DEF WriteReturns, IInv, Types
<1>7. AgeOK'
  BY <1>3, <1>5 DEF IInv, AgeOK
<1>8. AnnouncedOK'
  BY <1>1, <1>4, <1>5 DEF WriteReturns, IInv, AnnouncedOK, Types, NoWrite
<1>9. RacedOK'
  <2>1. \A k \in Namespaces : \A e \in gate'[k] \cup plain'[k] : e.edit < returned'[k] => e.raced
    <3> SUFFICES ASSUME NEW k \in Namespaces, NEW e \in gate'[k] \cup plain'[k],
                        e.edit < returned'[k]
                 PROVE  e.raced
      OBVIOUS
    <3>1. k # n
      BY <1>5
    <3> QED
      BY <1>5, <3>1 DEF IInv, RacedOK
  <2>2. \A k \in Namespaces : \A e \in gate'[k] : e.edit < told'[k] => e.raced
    <3> SUFFICES ASSUME NEW k \in Namespaces, NEW e \in gate'[k], e.edit < told'[k]
                 PROVE  e.raced
      OBVIOUS
    <3>1. k # n
      BY <1>5
    <3> QED
      BY <1>5, <3>1 DEF WriteReturns, IInv, RacedOK
  <2>3. ASSUME NEW r \in Readers, fill'[r].at = "store",
               fill'[r].edit < returned'[fill'[r].ns] \/ fill'[r].edit < told'[fill'[r].ns]
        PROVE  fill'[r].raced
    <3>1. fill[r].at = "store" /\ fill[r].ns \in Namespaces
      BY <2>3, <1>3, StoreType DEF IInv, Stores
    <3>2. CASE fill[r].ns = n
      BY <3>1, <3>2, <1>3
    <3>3. CASE fill[r].ns # n
      BY <2>3, <3>1, <3>3, <1>3, <1>5 DEF WriteReturns, IInv, RacedOK
    <3> QED
      BY <3>2, <3>3
  <2> QED
    BY <2>1, <2>2, <2>3 DEF RacedOK
<1> QED
  BY <1>6, <1>7, <1>8, <1>9 DEF IInv

-----------------------------------------------------------------------------
(* The listener.                                                            *)

LEMMA ListenStep ==
    ASSUME IInv, Listen
    PROVE  IInv'
<1>1. Types'
  <2>1. wire' \in Seq(Notices)
    BY DEF Listen
  <2> QED
    BY <2>1 DEF Listen, IInv, Types
<1>2. AgeOK'
  BY DEF Listen, IInv, AgeOK
<1>3. AnnouncedOK'
  <2>1. DOMAIN wire' = {}
    BY DEF Listen
  <2> QED
    BY <2>1 DEF Listen, IInv, AnnouncedOK
<1>4. RacedOK'
  BY DEF Listen, IInv, RacedOK
<1> QED
  BY <1>1, <1>2, <1>3, <1>4 DEF IInv

LEMMA ReloadStep ==
    ASSUME IInv, Reload
    PROVE  IInv'
<1>1. gate' \in [Namespaces -> SUBSET GateEntries] /\ \A n \in Namespaces : gate'[n] = {}
  BY DEF Reload
<1>2. Types'
  BY <1>1 DEF Reload, Bumped, IInv, Types
<1>3. AgeOK'
  BY <1>1 DEF Reload, IInv, AgeOK
<1>4. AnnouncedOK'
  BY DEF Reload, IInv, AnnouncedOK
<1>5. RacedOK'
  BY <1>1 DEF Reload, IInv, RacedOK
<1> QED
  BY <1>2, <1>3, <1>4, <1>5 DEF IInv

\* The wire that is left announces nothing new.
LEMMA TailOfWire ==
    ASSUME IInv, wire # <<>>
    PROVE  /\ Head(wire) \in Notices /\ Head(wire).edit <= db[Head(wire).ns]
           /\ Tail(wire) \in Seq(Notices)
           /\ \A i \in DOMAIN Tail(wire) : Tail(wire)[i].edit <= db[Tail(wire)[i].ns]
<1>1. wire \in Seq(Notices) /\ Len(wire) \in Nat \ {0}
  BY DEF IInv, Types
<1>2. Head(wire) = wire[1] /\ 1 \in DOMAIN wire
  BY <1>1
<1>3. DOMAIN Tail(wire) = 1..(Len(wire) - 1)
      /\ \A i \in 1..(Len(wire) - 1) : Tail(wire)[i] = wire[i + 1] /\ i + 1 \in DOMAIN wire
  BY <1>1
<1>4. Head(wire) \in Notices /\ Tail(wire) \in Seq(Notices)
  BY <1>1
<1> QED
  BY <1>2, <1>3, <1>4 DEF IInv, AnnouncedOK

LEMMA NotifiedStep ==
    ASSUME IInv, Notified
    PROVE  IInv'
<1> DEFINE m == Head(wire)
           n == m.ns
<1>1. /\ m \in Notices /\ n \in Namespaces /\ m.edit \in Nat /\ m.number \in Nat
      /\ m.edit <= db[n]
      /\ wire' = Tail(wire) /\ wire' \in Seq(Notices)
      /\ \A i \in DOMAIN wire' : wire'[i].edit <= db[wire'[i].ns]
  <2>1. m \in Notices /\ m.edit <= db[n]
    BY TailOfWire DEF Notified
  <2>2. n \in Namespaces /\ m.edit \in Nat /\ m.number \in Nat
    BY <2>1, ConstantsAssumption DEF Notices
  <2> QED
    BY <2>1, <2>2, TailOfWire DEF Notified
<1> HIDE DEF m
<1>2. CASE m.number <= version
  <2>1. UNCHANGED <<db, seq, write, linked, listener, version, gate, plain, fill, told, returned>>
    BY <1>2 DEF Notified, ApplyNotification, m
  <2>2. Types'
    BY <1>1, <2>1 DEF IInv, Types
  <2>3. AgeOK'
    BY <2>1 DEF IInv, AgeOK
  <2>4. AnnouncedOK'
    BY <1>1, <2>1 DEF IInv, AnnouncedOK
  <2>5. RacedOK'
    BY <2>1 DEF IInv, RacedOK
  <2> QED
    BY <2>2, <2>3, <2>4, <2>5 DEF IInv
<1>3. CASE ~(m.number <= version)
  <2>1. /\ version' = m.number /\ gate' = [gate EXCEPT ![n] = {}]
        /\ told' = [told EXCEPT ![n] = Max({told[n], m.edit})]
        /\ OvertakeFills(n)
        /\ UNCHANGED <<db, seq, write, linked, listener, plain, returned>>
    BY <1>3 DEF Notified, ApplyNotification, m
  <2>2. /\ fill' \in [Readers -> Fills]
        /\ \A r \in Readers :
             /\ fill'[r].at = fill[r].at
             /\ fill[r].at = "store" =>
                  /\ fill'[r].ns = fill[r].ns /\ fill'[r].edit = fill[r].edit
                  /\ fill'[r].age = fill[r].age /\ fill'[r].late = fill[r].late
                  /\ fill[r].raced \/ fill[r].ns = n => fill'[r].raced
    BY <1>1, <2>1, OvertakenFills
  <2>3. Max({told[n], m.edit}) \in Nat /\ Max({told[n], m.edit}) <= db[n]
    <3>1. told[n] \in Nat /\ told[n] <= db[n] /\ db[n] \in Nat
      BY <1>1 DEF IInv, Types, AnnouncedOK
    <3>2. Max({told[n], m.edit}) \in {told[n], m.edit}
      BY <1>1, <3>1, MaxOfTwo
    <3> QED
      BY <1>1, <3>1, <3>2
  <2> HIDE DEF n
  <2>4. /\ gate' \in [Namespaces -> SUBSET GateEntries]
        /\ gate'[n] = {} /\ \A k \in Namespaces \ {n} : gate'[k] = gate[k]
    BY <1>1, <2>1 DEF IInv, Types
  <2>5. /\ told' \in [Namespaces -> Nat]
        /\ told'[n] <= db[n] /\ \A k \in Namespaces \ {n} : told'[k] = told[k]
    BY <1>1, <2>1, <2>3 DEF IInv, Types
  <2>6. Types'
    BY <1>1, <2>1, <2>2, <2>4, <2>5 DEF IInv, Types
  <2>7. AgeOK'
    <3>1. \A k \in Namespaces : gate'[k] \subseteq gate[k]
      BY <2>4
    <3> QED
      BY <2>1, <2>2, <3>1 DEF IInv, AgeOK
  <2>8. AnnouncedOK'
    BY <1>1, <2>1, <2>5 DEF IInv, AnnouncedOK
  <2>9. RacedOK'
    <3>1. \A k \in Namespaces : \A e \in gate'[k] \cup plain'[k] :
            e.edit < returned'[k] => e.raced
      <4>1. \A k \in Namespaces : gate'[k] \subseteq gate[k]
        BY <2>4
      <4> QED
        BY <2>1, <4>1 DEF IInv, RacedOK
    <3>2. \A k \in Namespaces : \A e \in gate'[k] : e.edit < told'[k] => e.raced
      <4> SUFFICES ASSUME NEW k \in Namespaces, NEW e \in gate'[k], e.edit < told'[k]
                   PROVE  e.raced
        OBVIOUS
      <4>1. k # n
        BY <2>4
      <4> QED
        BY <2>4, <2>5, <4>1 DEF IInv, RacedOK
    <3>3. ASSUME NEW r \in Readers, fill'[r].at = "store",
                 fill'[r].edit < returned'[fill'[r].ns] \/ fill'[r].edit < told'[fill'[r].ns]
          PROVE  fill'[r].raced
      <4>1. fill[r].at = "store" /\ fill[r].ns \in Namespaces
        BY <2>2, <3>3, StoreType DEF IInv, Stores
      <4>2. CASE fill[r].ns = n
        BY <4>1, <4>2, <2>2
      <4>3. CASE fill[r].ns # n
        BY <2>1, <2>2, <2>5, <3>3, <4>1, <4>3 DEF IInv, RacedOK
      <4> QED
        BY <4>2, <4>3
    <3> QED
      BY <3>1, <3>2, <3>3 DEF RacedOK
  <2> QED
    BY <2>6, <2>7, <2>8, <2>9 DEF IInv
<1> QED
  BY <1>2, <1>3

LEMMA LinkLostStep ==
    ASSUME IInv, LinkLost
    PROVE  IInv'
<1>1. PICK i \in 0..Len(wire) : wire' = SubSeq(wire, 1, i)
  BY DEF LinkLost
<1>2. wire \in Seq(Notices) /\ Len(wire) \in Nat
  BY DEF IInv, Types
<1>3. /\ wire' \in Seq(Notices) /\ DOMAIN wire' = 1..i
      /\ \A k \in 1..i : wire'[k] = wire[k] /\ k \in DOMAIN wire
  BY <1>1, <1>2
<1>4. Types'
  BY <1>3 DEF LinkLost, IInv, Types
<1>5. AgeOK'
  BY DEF LinkLost, IInv, AgeOK
<1>6. AnnouncedOK'
  BY <1>3 DEF LinkLost, IInv, AnnouncedOK
<1>7. RacedOK'
  BY DEF LinkLost, IInv, RacedOK
<1> QED
  BY <1>4, <1>5, <1>6, <1>7 DEF IInv

-----------------------------------------------------------------------------
(* Time and death.                                                          *)

LEMMA TickStep ==
    ASSUME IInv, Tick
    PROVE  IInv'
<1> DEFINE Late(n, e) == IF e.edit = db[n] THEN e.late ELSE Older(e.late, Lates)
           Aged(n, e) == [e EXCEPT !.age = Older(@, Ages), !.late = Late(n, e)]
<1>1. /\ gate' = [n \in Namespaces |-> {Aged(n, e) : e \in gate[n]}]
      /\ plain' = [n \in Namespaces |-> {Aged(n, e) : e \in plain[n]}]
  BY DEF Tick
<1>2. ASSUME NEW n \in Namespaces, NEW e, e.age \in Ages, e.late \in Lates,
             e.late <= e.age + MaxFill
      PROVE  /\ Older(e.age, Ages) \in Ages /\ Late(n, e) \in Lates
             /\ Late(n, e) <= Older(e.age, Ages) + MaxFill
  <2>1. PlainTTL \in Nat /\ MaxFill \in Nat /\ PlainTTL + MaxFill \in Nat
    BY ConstantsAssumption
  <2>2. /\ Older(e.age, Ages) \in Ages
        /\ (Older(e.age, Ages) = e.age + 1 \/ (e.age = PlainTTL /\ Older(e.age, Ages) = e.age))
    BY <1>2, <2>1, OlderIs DEF Ages
  <2>3. /\ Late(n, e) \in Lates
        /\ Late(n, e) = e.late \/ Late(n, e) = e.late + 1
    BY <1>2, <2>1, OlderIs DEF Lates
  <2> QED
    BY <1>2, <2>1, <2>2, <2>3 DEF Ages, Lates
<1>3. ASSUME NEW n \in Namespaces, NEW e \in gate[n] \cup plain[n]
      PROVE  /\ Aged(n, e).edit = e.edit /\ (e.raced => Aged(n, e).raced)
             /\ Aged(n, e).late <= Aged(n, e).age + MaxFill
             /\ e \in GateEntries => Aged(n, e) \in GateEntries
             /\ e \in PlainEntries => Aged(n, e) \in PlainEntries
  <2>1. e \in GateEntries \/ e \in PlainEntries
    BY <1>3, EntryTypes DEF IInv
  <2>2. e.age \in Ages /\ e.late \in Lates /\ e.late <= e.age + MaxFill
    BY <1>3, <2>1 DEF GateEntries, PlainEntries, IInv, AgeOK
  <2>3. /\ Older(e.age, Ages) \in Ages /\ Late(n, e) \in Lates
        /\ Late(n, e) <= Older(e.age, Ages) + MaxFill
    BY <1>2, <2>2
  <2> HIDE DEF Late
  <2> QED
    BY <2>1, <2>3 DEF GateEntries, PlainEntries
<1>4. ASSUME NEW r \in Readers
      PROVE  /\ fill'[r] \in Fills
             /\ fill'[r].at = fill[r].at
             /\ fill[r].at = "store" =>
                  /\ fill'[r].ns = fill[r].ns /\ fill'[r].edit = fill[r].edit
                  /\ fill'[r].raced = fill[r].raced
                  /\ fill'[r].late <= fill'[r].age
  <2>1. CASE fill[r].at # "store"
    BY <2>1 DEF Tick, IInv, Types
  <2>2. CASE fill[r].at = "store"
    <3>1. fill[r] \in Stores /\ fill[r].age < MaxFill /\ fill[r].late <= fill[r].age
      BY <2>2, StoreType DEF Tick, IInv, AgeOK
    <3>2. fill'[r] = [fill[r] EXCEPT !.age = @ + 1, !.late = Late(fill[r].ns, fill[r])]
      BY <2>2 DEF Tick
    <3>3. /\ Late(fill[r].ns, fill[r]) \in Lates
          /\ \/ Late(fill[r].ns, fill[r]) = fill[r].late
             \/ Late(fill[r].ns, fill[r]) = fill[r].late + 1
      <4>1. PlainTTL + MaxFill \in Nat /\ fill[r].late \in Lates
        BY <3>1, ConstantsAssumption DEF Stores
      <4> QED
        BY <4>1, OlderIs DEF Lates
    <3>4. fill[r].age + 1 \in 0..MaxFill /\ fill[r].age \in Nat /\ fill[r].late \in Nat
      BY <3>1, ConstantsAssumption DEF Stores, Lates
    <3> HIDE DEF Late
    <3>5. fill'[r] \in Stores
      BY <3>1, <3>2, <3>3, <3>4 DEF Stores
    <3>6. /\ fill'[r].at = fill[r].at
          /\ fill'[r].ns = fill[r].ns /\ fill'[r].edit = fill[r].edit
          /\ fill'[r].raced = fill[r].raced
          /\ fill'[r].age = fill[r].age + 1
          /\ fill'[r].late = Late(fill[r].ns, fill[r])
      BY <3>1, <3>2 DEF Stores
    <3> QED
      BY <3>1, <3>3, <3>4, <3>5, <3>6 DEF Fills
  <2> QED
    BY <2>1, <2>2
<1> HIDE DEF Aged
<1>5. Types'
  <2>1. gate' \in [Namespaces -> SUBSET GateEntries]
    BY <1>1, <1>3, EntryTypes DEF IInv
  <2>2. plain' \in [Namespaces -> SUBSET PlainEntries]
    BY <1>1, <1>3, EntryTypes DEF IInv
  <2>3. fill' \in [Readers -> Fills]
    BY <1>4 DEF Tick
  <2> QED
    BY <2>1, <2>2, <2>3 DEF Tick, IInv, Types
<1>6. AgeOK'
  BY <1>1, <1>3, <1>4 DEF AgeOK
<1>7. AnnouncedOK'
  BY DEF Tick, IInv, AnnouncedOK
<1>8. RacedOK'
  <2>1. \A n \in Namespaces : \A e \in gate'[n] \cup plain'[n] : e.edit < returned'[n] => e.raced
    <3>1. returned' = returned
      BY DEF Tick
    <3>2. ASSUME NEW n \in Namespaces, NEW e \in gate[n] \cup plain[n],
                 Aged(n, e).edit < returned[n]
          PROVE  Aged(n, e).raced
      BY <1>3, <3>2 DEF IInv, RacedOK
    <3> QED
      BY <1>1, <3>1, <3>2
  <2>2. \A n \in Namespaces : \A e \in gate'[n] : e.edit < told'[n] => e.raced
    <3>1. told' = told
      BY DEF Tick
    <3>2. ASSUME NEW n \in Namespaces, NEW e \in gate[n], Aged(n, e).edit < told[n]
          PROVE  Aged(n, e).raced
      BY <1>3, <3>2 DEF IInv, RacedOK
    <3> QED
      BY <1>1, <3>1, <3>2
  <2>3. \A r \in Readers :
          /\ fill'[r].at = "store"
          /\ fill'[r].edit < returned'[fill'[r].ns] \/ fill'[r].edit < told'[fill'[r].ns]
          => fill'[r].raced
    BY <1>4, ZenonT(40) DEF Tick, IInv, RacedOK
  <2> QED
    BY <2>1, <2>2, <2>3 DEF RacedOK
<1> QED
  BY <1>5, <1>6, <1>7, <1>8 DEF IInv

LEMMA RestartStep ==
    ASSUME IInv, Restart
    PROVE  IInv'
<1>1. /\ gate' \in [Namespaces -> SUBSET GateEntries]
      /\ plain' \in [Namespaces -> SUBSET PlainEntries]
      /\ \A n \in Namespaces : gate'[n] = {} /\ plain'[n] = {}
  BY DEF Restart
<1>2. /\ fill' \in [Readers -> Fills] /\ write' \in [Writers -> Writes]
      /\ \A r \in Readers : fill'[r].at = "idle"
      /\ \A w \in Writers : write'[w].at = "committed" => write'[w] = write[w]
  BY DEF Restart, IInv, Types, Fills, Writes, NoFill, NoWrite
<1>3. wire' \in Seq(Notices) /\ DOMAIN wire' = {}
  BY DEF Restart
<1>4. Types'
  BY <1>1, <1>2, <1>3 DEF Restart, IInv, Types
<1>5. AgeOK'
  BY <1>1, <1>2 DEF AgeOK
<1>6. AnnouncedOK'
  BY <1>2, <1>3 DEF Restart, IInv, AnnouncedOK
<1>7. RacedOK'
  BY <1>1, <1>2 DEF RacedOK
<1> QED
  BY <1>4, <1>5, <1>6, <1>7 DEF IInv

-----------------------------------------------------------------------------
(* The invariant, and what follows from it.                                 *)

LEMMA Initially ==
    ASSUME Init
    PROVE  IInv
<1>1. Types
  <2>1. wire \in Seq(Notices)
    BY DEF Init
  <2>2. /\ write \in [Writers -> Writes] /\ fill \in [Readers -> Fills]
        /\ gate \in [Namespaces -> SUBSET GateEntries]
        /\ plain \in [Namespaces -> SUBSET PlainEntries]
    BY DEF Init, Writes, Fills
  <2>3. /\ db \in [Namespaces -> Nat]
        /\ told \in [Namespaces -> Nat] /\ returned \in [Namespaces -> Nat]
    BY DEF Init
  <2>4. /\ seq \in 0..MaxSeq /\ version \in Nat /\ linked \in BOOLEAN
        /\ listener \in {"off", "connecting", "reloading", "up"}
    <3>1. seq = 0 /\ version = 0 /\ linked = FALSE /\ listener \in {"off", "connecting"}
      BY DEF Init
    <3>2. linked \in BOOLEAN
      BY <3>1
    <3>3. seq \in 0..MaxSeq /\ version \in Nat
      BY <3>1, ConstantsAssumption
    <3> QED
      BY <3>1, <3>2, <3>3
  <2> QED
    BY <2>1, <2>2, <2>3, <2>4 DEF Types
<1>2. AgeOK /\ RacedOK
  BY DEF Init, AgeOK, RacedOK, NoFill
<1>3. AnnouncedOK
  BY DEF Init, AnnouncedOK, NoWrite
<1> QED
  BY <1>1, <1>2, <1>3 DEF IInv

LEMMA Stutter ==
    ASSUME IInv, UNCHANGED vars
    PROVE  IInv'
BY DEF vars, IInv, Types, AgeOK, AnnouncedOK, RacedOK

LEMMA InvariantHolds == Spec => []IInv
<1>1. IInv /\ [Next]_vars => IInv'
  BY HitStep, MissStep, SelectStep, StoreStep, UpsertStep, CommitEditStep, AbortEditStep,
     WriteReturnsStep, ListenStep, ReloadStep, NotifiedStep, LinkLostStep, TickStep,
     RestartStep, Stutter DEF Next
<1> QED
  BY <1>1, Initially, PTL DEF Spec

\* Entries are stored under the version of the moment, and the version moves
\* forwards or else the cache is emptied.
LEMMA StampsKept ==
    ASSUME IInv, StampsOK, [Next]_vars
    PROVE  StampsOK'
<1> SUFFICES ASSUME NEW n \in Namespaces, NEW e \in gate'[n]
             PROVE  e.stamp <= version'
  BY DEF StampsOK
<1>1. version \in Nat /\ gate \in [Namespaces -> SUBSET GateEntries]
  BY DEF IInv, Types
<1>2. CASE Tick
  <2>1. \E d \in gate[n] : e.stamp = d.stamp
    <3> DEFINE Late(m, x) == IF x.edit = db[m] THEN x.late ELSE Older(x.late, Lates)
               Aged(m, x) == [x EXCEPT !.age = Older(@, Ages), !.late = Late(m, x)]
    <3>3. gate' = [m \in Namespaces |-> {Aged(m, x) : x \in gate[m]}]
      BY <1>2 DEF Tick
    <3>4. e \in {Aged(n, x) : x \in gate[n]}
      BY <3>3, Zenon
    <3>1. PICK d \in gate[n] : e = Aged(n, d)
      BY <3>4
    <3>2. d \in GateEntries
      BY <1>1
    <3> QED
      BY <3>1, <3>2 DEF GateEntries
  <2> QED
    BY <1>2, <2>1 DEF Tick, StampsOK
<1>3. CASE Notified
  <2>1. wire # <<>> /\ Head(wire).number \in Nat
    BY <1>3, TailOfWire, ConstantsAssumption DEF Notified, Notices, IInv
  <2>2. version' \in Nat /\ version' >= version
    BY <1>1, <1>3, <2>1 DEF Notified, ApplyNotification
  <2>3. e \in gate[n]
    BY <1>1, <1>3 DEF Notified, ApplyNotification
  <2>4. e.stamp <= version /\ e.stamp \in Nat
    BY <1>1, <2>3 DEF StampsOK, GateEntries
  <2> QED
    BY <1>1, <2>2, <2>4
<1>4. CASE \E r \in Readers : Store(r)
  <2>1. e.stamp = version \/ e \in gate[n]
    BY <1>1, <1>4 DEF Store
  <2> QED
    BY <1>1, <1>4, <2>1 DEF Store, StampsOK
<1>5. CASE Reload \/ Restart
  BY <1>5 DEF Reload, Restart
<1>6. CASE /\ version' = version
           /\ \A m \in Namespaces : gate'[m] \subseteq gate[m]
  BY <1>6 DEF StampsOK
<1>7. CASE \E m \in Namespaces : Hit(m) \/ \E r \in Readers : Miss(r, m)
  <2>1. /\ version' = version
        /\ \A m \in Namespaces : gate'[m] \subseteq gate[m]
    BY <1>1, <1>7, ServedIsStored DEF Hit, Miss, DropExpired
  <2> QED
    BY <1>6, <2>1
<1>8. CASE \E w \in Writers : WriteReturns(w)
  <2>1. /\ version' = version
        /\ \A m \in Namespaces : gate'[m] \subseteq gate[m]
    BY <1>1, <1>8 DEF WriteReturns, InvalidateProfile
  <2> QED
    BY <1>6, <2>1
<1>9. CASE UNCHANGED <<version, gate>>
  BY <1>6, <1>9
<1> QED
  BY <1>2, <1>3, <1>4, <1>5, <1>7, <1>8, <1>9
     DEF Next, vars, Select, Upsert, CommitEdit, AbortEdit, Listen, LinkLost

\* The caches, the wire and the fills hold what they are declared to hold, and no
\* entry is stamped with a version the gate cache has not reached.
THEOREM TypeCorrect == Spec => []TypeOK
<1>1. Init => StampsOK
  BY DEF Init, StampsOK
<1>2. IInv /\ StampsOK /\ [Next]_vars => StampsOK'
  BY StampsKept
<1>3. Spec => []StampsOK
  BY <1>1, <1>2, InvariantHolds, PTL DEF Spec
<1>4. IInv /\ StampsOK => TypeOK
  BY TypesAreTypeOK DEF IInv
<1> QED
  BY <1>3, <1>4, InvariantHolds, PTL

\* A profile is served only for its TTL, plus the time its fill took, after it
\* was replaced, whatever became of its notification.
THEOREM StalenessIsBounded == Spec => []ServedRecently
<1>1. IInv => ServedRecently
  <2> SUFFICES ASSUME IInv, NEW n \in Namespaces
               PROVE  /\ \A e \in GateLive(n) : e.late <= GateTTL + MaxFill
                      /\ \A e \in PlainLive(n) : e.late < PlainTTL + MaxFill
    BY DEF ServedRecently
  <2>1. \A e \in gate[n] \cup plain[n] :
          e.age \in Nat /\ e.late \in Nat /\ e.late <= e.age + MaxFill
    BY EntryTypes, ConstantsAssumption
       DEF IInv, AgeOK, GateEntries, PlainEntries, Ages, Lates
  <2>2. \A e \in GateLive(n) : e.late <= GateTTL + MaxFill
    BY <2>1, ConstantsAssumption DEF GateLive
  <2>3. \A e \in PlainLive(n) : e.late < PlainTTL + MaxFill
    BY <2>1, ConstantsAssumption DEF PlainLive
  <2> QED
    BY <2>2, <2>3
<1> QED
  BY <1>1, InvariantHolds, PTL

\* Once write_variant_profile has returned, nothing older is served, unless it
\* was on its way.
THEOREM OwnWritesAreVisible == Spec => []WriteVisible
<1>1. IInv => WriteVisible
  BY ServedIsStored DEF IInv, RacedOK, WriteVisible
<1> QED
  BY <1>1, InvariantHolds, PTL

\* Once a notification has been obeyed, the gate cache serves nothing older,
\* unless it was on its way.
THEOREM NotificationsAreObeyed == Spec => []GateObeysNotifications
<1>1. IInv => GateObeysNotifications
  BY ServedIsStored DEF IInv, RacedOK, GateObeysNotifications
<1> QED
  BY <1>1, InvariantHolds, PTL

\* The version moves back only with an emptied cache, out of order as the
\* numbers arrive.
THEOREM VersionIsMonotone == Spec => VersionNeverBack
<1>1. IInv /\ [Next]_vars =>
        [version' >= version \/ gate' = [n \in Namespaces |-> {}]]_<<version, gate>>
  <2> SUFFICES ASSUME IInv, [Next]_vars, ~(UNCHANGED <<version, gate>>)
               PROVE  version' >= version \/ gate' = [n \in Namespaces |-> {}]
    OBVIOUS
  <2>1. version \in Nat
    BY DEF IInv, Types
  <2>2. CASE Notified
    <3>1. wire # <<>> /\ Head(wire).number \in Nat
      BY <2>2, TailOfWire, ConstantsAssumption DEF Notified, Notices
    <3> QED
      BY <2>1, <2>2, <3>1 DEF Notified, ApplyNotification
  <2>3. CASE Reload \/ Restart
    BY <2>3 DEF Reload, Restart
  <2>4. CASE UNCHANGED version
    BY <2>1, <2>4
  <2> QED
    BY <2>2, <2>3, <2>4
       DEF Next, vars, Hit, Miss, Select, Store, Upsert, CommitEdit, AbortEdit,
           WriteReturns, Listen, LinkLost, Tick
<1> QED
  BY <1>1, InvariantHolds, PTL DEF Spec, VersionNeverBack
=============================================================================
