------------------------------- MODULE Reading -------------------------------
(***************************************************************************)
(* memory_list walked page by page, memory_search and recall, each of them   *)
(* several statements between which writers append.                          *)
(***************************************************************************)
EXTENDS Entries

CONSTANTS
    Cosine,     \* what a query finds: vector -> content -> closeness in percent
    Hits,       \* contents in which the query's text occurs
    Floor,      \* gate_similarity_floor, in percent
    Alpha       \* gate_top_fraction_alpha, in percent

ASSUME ReadingAssumption ==
    /\ Cosine \in [{"text", "hyde"} -> [Values -> 0..100]]
    /\ Hits \subseteq Values
    /\ {Floor, Alpha} \subseteq 0..100
    /\ \A w \in Workloads : \A j \in Jobs :
         w.task[j].op \in {"list", "search", "recall"} => w.task[j].limit \in Nat

VARIABLES
    walk,     \* job -> pages read so far: when, what they show, the next cursor
    legs,     \* job -> the ranked legs read so far: when, which positions
    answer    \* job -> what a search answers: [row, cosine, admitted]

readVars == <<walk, legs, answer>>

ReadingInit ==
    /\ walk = [j \in Jobs |-> <<>>]
    /\ legs = [j \in Jobs |-> <<>>]
    /\ answer = [j \in Jobs |-> <<>>]

-----------------------------------------------------------------------------
(* memory_list_page.                                                        *)

Whatever == "any"
BeforeAll == -1
Matches(q, r) ==
    /\ q.kind \in {Whatever, r.kind}
    /\ q.tag = Whatever \/ q.tag \in r.tags
    /\ r.key # MetaKey

Cursor(j) == IF walk[j] = <<>> THEN BeforeAll ELSE Last(walk[j]).next

InKeyOrder(S) == InOrder(S, LAMBDA i, i2 : log[i].key < log[i2].key)

\* The filters and the cursor apply before the latest revision is taken,
\* liveness and quarantine after it.
Listed(q, after) ==
    {i \in DistinctOn({i \in DOMAIN log : Matches(q, log[i]) /\ log[i].key > after}) :
        IsLive(log[i]) /\ ~log[i].quarantined}

\* One page, by limit; a page without a row has no cursor.
PageSkipping(q, after) ==
    LET live == InKeyOrder(Listed(q, after))
        page == SubSeq(live, 1, Min({q.limit, Len(live)}))
        truncated == Len(live) > q.limit
    IN [at |-> Len(log), shown |-> page,
        next |-> IF truncated THEN log[live[q.limit + 1]].key ELSE BeforeAll]
Page(q, after) ==
    LET live == InKeyOrder(Listed(q, after))
        page == SubSeq(live, 1, Min({q.limit, Len(live)}))
        truncated == Len(live) > q.limit
    IN [at |-> Len(log), shown |-> page,
        next |-> IF truncated /\ page # <<>> THEN log[Last(page)].key ELSE BeforeAll]

ListPage(j) ==
    /\ task[j].op = "list"
    /\ pc[j] \in {"idle", "page"}
    /\ LET page == Page(task[j], Cursor(j)) IN
       /\ walk' = [walk EXCEPT ![j] = Append(@, page)]
       /\ Goto(j, IF page.next = BeforeAll THEN "done" ELSE "page")
    /\ UNCHANGED <<log, now, task, head, legs, answer>>

-----------------------------------------------------------------------------
(* The retrieval guard and the fusion of ranked legs.                        *)

NoCosine == -1

\* apply_guard on one cosine, given all the cosines judged with it.
Admitted(cos, all) ==
    \/ cos = NoCosine
    \/ /\ cos >= Floor
       /\ cos * 100 >= Alpha * Max({0} \cup all)

RankIn(leg, k) ==
    LET P == {p \in DOMAIN leg : log[leg[p]].key = k} IN
    IF P = {} THEN 0 ELSE Min(P)

K == 60
\* 1 / (K + rank) over a common denominator, for the ranks there are.
Share(rank, most) ==
    IF rank = 0 THEN 0
    ELSE FoldSet(LAMBDA r, p : IF r = rank THEN p ELSE p * (K + r), 1, 1..most)

\* What a key's ranks add up to, over all legs.
ScoreByRank(ls, k, most) == FoldLeft(LAMBDA s, leg : s + RankIn(leg, k), 0, ls)
Score(ls, k, most) == FoldLeft(LAMBDA s, leg : s + Share(RankIn(leg, k), most), 0, ls)

\* _rrf_fuse: the keys by score, ties by best rank, then by key; each with the
\* row of the first leg that saw it.
Fuse(ls, limit) ==
    LET keys == {log[i].key : i \in UNION {ToSet(ls[n]) : n \in DOMAIN ls}}
        most == Max({0} \cup {Len(ls[n]) : n \in DOMAIN ls})
        best(k) == Min({RankIn(ls[n], k) : n \in DOMAIN ls} \ {0})
        ahead(a, b) ==
            LET sa == Score(ls, a, most)
                sb == Score(ls, b, most)
            IN \/ sa > sb
               \/ sa = sb /\ best(a) < best(b)
               \/ sa = sb /\ best(a) = best(b) /\ a < b
        row(k) == LET n == Min({m \in DOMAIN ls : RankIn(ls[m], k) # 0}) IN
                  ls[n][RankIn(ls[n], k)]
        ordered == InOrder(keys, ahead)
    IN [p \in 1..Min({limit, Len(ordered)}) |-> row(ordered[p])]

-----------------------------------------------------------------------------
(* memory_search and recall.                                                *)

\* The entries every leg starts from: the latest revision of a key first, then
\* only live ones outside the house band.
SearchableBeforeLatest ==
    DistinctOn({i \in DOMAIN log : /\ IsLive(log[i])
                                   /\ ~log[i].quarantined
                                   /\ log[i].key \in Plain})
Searchable ==
    {i \in DistinctOn(DOMAIN log) : /\ IsLive(log[i])
                                    /\ ~log[i].quarantined
                                    /\ log[i].key \in Plain}

Closeness(v, i) == Cosine[v][log[i].val]

\* A leg by closeness to one of the two vectors, and the keyword leg, which has
\* no order of its own.
VectorLeg(v, limit) ==
    LET S == {i \in Searchable : v \in log[i].vectors}
        nearer(a, b) == \/ Closeness(v, a) > Closeness(v, b)
                        \/ Closeness(v, a) = Closeness(v, b) /\ a < b
        all == InOrder(S, nearer)
    IN SubSeq(all, 1, Min({limit, Len(all)}))
KeywordLegs(limit) ==
    {SubSeq(s, 1, Min({limit, Len(s)})) :
        s \in SetToSeqs({i \in Searchable : log[i].val \in Hits})}

\* recall asks memory_search for more than it will return.
Fetch(q) == IF q.op = "recall" THEN Max({3 * q.limit, 24}) ELSE q.limit

IsSearch(j) == task[j].op \in {"search", "recall"}
NextPoint == [text |-> "hyde", hyde |-> "keyword"]

\* One semantic leg.  A query that has no vector goes to the keyword leg alone.
ReadVectorLeg(j, v) ==
    /\ IsSearch(j)
    /\ IF v = "text" THEN pc[j] = "idle" /\ task[j].embed ELSE pc[j] = v
    /\ legs' = [legs EXCEPT ![j] =
         Append(@, [by |-> v, at |-> Len(log), rows |-> VectorLeg(v, Fetch(task[j]))])]
    /\ Goto(j, NextPoint[v])
    /\ UNCHANGED <<log, now, task, head, walk, answer>>

\* The best cosine a key got from the semantic legs.
CosineOrZero(ls, k) ==
    Max({0} \cup
        UNION {{Closeness(ls[n].by, i) : i \in {m \in ToSet(ls[n].rows) : log[m].key = k}} :
               n \in {m \in DOMAIN ls : ls[m].by # "keyword"}})
CosineOf(ls, k) ==
    Max({NoCosine} \cup
        UNION {{Closeness(ls[n].by, i) : i \in {m \in ToSet(ls[n].rows) : log[m].key = k}} :
               n \in {m \in DOMAIN ls : ls[m].by # "keyword"}})

\* Rows in order, each with its cosine and the guard's verdict on it.
Judge(rows, ls) ==
    LET cos == [p \in DOMAIN rows |-> CosineOf(ls, log[rows[p]].key)] IN
    [p \in DOMAIN rows |-> [row |-> rows[p], cosine |-> cos[p],
                            admitted |-> Admitted(cos[p], ToSet(cos))]]

\* memory_search marks what the guard refuses; recall leaves it out, or puts it
\* after what is admitted.
FirstOf(s, n) == SubSeq(s, 1, Min({n, Len(s)}))
Answer(q, ls) ==
    LET rows == Fuse([n \in DOMAIN ls |-> ls[n].rows], Fetch(q))
        judged == Judge(rows, ls)
        kept == ItemsAt(judged, {p \in DOMAIN judged : judged[p].admitted})
        refused == ItemsAt(judged, {p \in DOMAIN judged : ~judged[p].admitted})
    IN IF q.op = "search" THEN judged
       ELSE FirstOf(kept, q.limit)
            \o IF q.include_below_floor THEN FirstOf(refused, q.limit) ELSE <<>>

\* The keyword leg, and the answer.
ReadKeywordLeg(j) ==
    /\ IsSearch(j)
    /\ IF task[j].embed THEN pc[j] = "keyword" ELSE pc[j] = "idle"
    /\ \E rows \in KeywordLegs(Fetch(task[j])) :
         /\ legs' = [legs EXCEPT ![j] =
              Append(@, [by |-> "keyword", at |-> Len(log), rows |-> rows])]
         /\ answer' = [answer EXCEPT ![j] = Answer(task[j], legs'[j])]
    /\ Goto(j, "done")
    /\ UNCHANGED <<log, now, task, head, walk>>

ReadingStep(j) ==
    \/ ListPage(j)
    \/ \E v \in {"text", "hyde"} : ReadVectorLeg(j, v)
    \/ ReadKeywordLeg(j)
=============================================================================
