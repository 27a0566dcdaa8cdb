------------------------------- MODULE Knowledge -------------------------------
(***************************************************************************)
(* What walks, searches, curation passes, reconciling passes and bootstraps  *)
(* promise each other and their callers, over the entries of one namespace.  *)
(***************************************************************************)
EXTENDS Reading, Curation, Claims

-----------------------------------------------------------------------------
(* Reads.                                                                   *)

\* What a list would show of a key at moment n, were it asked for that key alone.
MatchesAt(q, k, n) ==
    LET i == LatestAt(k, n) IN
    i # 0 /\ Matches(q, log[i]) /\ IsLive(log[i]) /\ ~log[i].quarantined

\* A finished walk over memory_list's pages shows no key twice, misses none
\* that matched from its first page to its last while writers were at work,
\* and shows of a key its latest revision at the time, or an earlier one only
\* when the latest had left the filter (memory_list_page, cursor and truncation).
\* A limit of 0 is not refused: such a walk is one empty page.
WalkIsFaithful ==
    \A j \in Jobs : task[j].op = "list" /\ pc[j] = "done" =>
        LET pages == walk[j]
            slots(k) == {s \in (DOMAIN pages) \X (1..task[j].limit) :
                           s[2] \in DOMAIN pages[s[1]].shown
                             /\ log[pages[s[1]].shown[s[2]]].key = k}
        IN \A k \in Keys :
             /\ Cardinality(slots(k)) <= 1
             /\ task[j].limit > 0
                  /\ (\A n \in pages[1].at..Last(pages).at : MatchesAt(task[j], k, n))
                  => slots(k) # {}
             /\ \A s \in slots(k) :
                  LET newest == LatestAt(k, pages[s[1]].at) IN
                  \/ pages[s[1]].shown[s[2]] = newest /\ MatchesAt(task[j], k, pages[s[1]].at)
                  \/ ~Matches(task[j], log[newest])

\* What memory_list's tool promises: "List the latest live entry per key in a
\* namespace, optionally filtered by kind/tag/prefix".  Every row a page shows is
\* the latest revision of its key when the page is read (memory_list_page filters
\* by kind and tag before it takes the latest revision, so it is not).
ListedIsLatest ==
    \A j \in Jobs : \A p \in DOMAIN walk[j] : \A i \in ToSet(walk[j][p].shown) :
        i = LatestAt(log[i].key, walk[j][p].at)

\* Whatever memory_search and recall answer was, at the moment of one of their
\* legs, the latest revision of its key, live and not quarantined; no key is
\* answered twice, and nothing of the house band (memory_search's three legs,
\* each a statement with its own snapshot).
SearchedRowsWereLive ==
    \A j \in Jobs : \A p \in DOMAIN answer[j] :
        LET i == answer[j][p].row
            k == log[i].key
        IN /\ k \in Plain
           /\ ~log[i].quarantined /\ ~log[i].dead /\ ~log[i].closed
           /\ \E n \in DOMAIN legs[j] : i = LatestAt(k, legs[j][n].at)
           /\ \A p2 \in DOMAIN answer[j] : log[answer[j][p2].row].key = k => p2 = p

\* A key that every leg which found a rival ranks ahead of that rival is not
\* answered after it (_rrf_fuse: ranks of all legs add up).
FusionRespectsLegs ==
    \A j \in Jobs : task[j].op = "search" =>
        LET key(p) == log[answer[j][p].row].key
            rank(n, k) == RankIn(legs[j][n].rows, k)
            dominates(a, b) ==
                \A n \in DOMAIN legs[j] :
                    rank(n, b) # 0 => rank(n, a) # 0 /\ rank(n, a) < rank(n, b)
        IN \A p \in DOMAIN answer[j] : \A a \in Plain :
             dominates(a, key(p)) => \E p2 \in 1..(p - 1) : key(p2) = a

\* The cosine a row is judged by is that of the row, unless its key was written
\* while the legs were read; a row no semantic leg found has none and is never
\* refused; no refused row is as close as an admitted one; and where one that
\* clears the floor is refused, a closer one is answered, unless recall's limit
\* is used up by what it admitted (_guard_search_rows, apply_guard, recall).
VerdictIsAboutTheRow ==
    \A j \in Jobs : \A p \in DOMAIN answer[j] :
        LET e == answer[j][p]
            semantic == {n \in DOMAIN legs[j] : /\ legs[j][n].by # "keyword"
                                                /\ RankIn(legs[j][n].rows, log[e.row].key) # 0}
            rewritten == LatestAt(log[e.row].key, legs[j][1].at)
                           # LatestAt(log[e.row].key, Last(legs[j]).at)
        IN /\ (e.cosine = NoCosine) = (semantic = {})
           /\ e.cosine # NoCosine =>
                rewritten \/ e.cosine = Max({Closeness(legs[j][n].by, e.row) : n \in semantic})
           /\ ~e.admitted =>
                /\ e.cosine # NoCosine
                /\ task[j].op = "recall" => task[j].include_below_floor
                /\ \A p2 \in DOMAIN answer[j] :
                     answer[j][p2].admitted /\ answer[j][p2].cosine # NoCosine
                       => e.cosine < answer[j][p2].cosine
                /\ e.cosine >= Floor =>
                     \/ \E p2 \in DOMAIN answer[j] : answer[j][p2].cosine > e.cosine
                     \/ /\ task[j].op = "recall"
                        /\ Cardinality({p2 \in DOMAIN answer[j] : answer[j][p2].admitted})
                             = task[j].limit

-----------------------------------------------------------------------------
(* Curation.                                                                *)

\* Knowledge that curation closed is not lost silently: the survivor its op
\* asked for is in the log, or the pass is at that op, or broke off at it and
\* failed, or counted it as an idempotency_conflict (_write_curation_op closes
\* before it writes).
ClosuresAreAccountedFor ==
    \A b \in DOMAIN log : log[b].closed =>
        LET j == log[b].by IN
        \E i \in DOMAIN task[j].ops :
            LET op == task[j].ops[i] IN
            /\ log[b].key \in ToSet(OldKeys(op))
            /\ \/ i = step[j] /\ out[j] \in {"none", "failed"}
               \/ i < step[j] /\ told[j][i] = "idempotency_conflict"
               \/ /\ i < step[j] /\ told[j][i] = "applied"
                  /\ \E r \in DOMAIN log :
                       /\ log[r].event = <<task[j].session, op.key, op.action>>
                       /\ log[r].val = op.val /\ log[r].kind = KindOf(op)

\* A session closes a key once, however often it is curated, so that what is
\* saved afterwards stays; and a revision a closing hides is the one it read,
\* or landed between its read and its append (_set_validity_boundary, the
\* deterministic event_id).
SavesAreNotBuried ==
    \A b \in DOMAIN log : log[b].closed =>
        /\ \A b2 \in DOMAIN log :
             /\ log[b2].closed /\ log[b2].key = log[b].key
             /\ task[log[b2].by].session = task[log[b].by].session
             => b2 = b
        /\ LET hidden == LatestAt(log[b].key, b - 1) IN
           \/ hidden = log[b].basis /\ IsLive(log[hidden])
           \/ hidden > log[b].span[1]

-----------------------------------------------------------------------------
(* Claims.                                                                  *)

\* Upstream, as it was at some state, bears the claim out.
BornOut(m, u) ==
    \/ m.mode = "timeless"
    \/ m.mode = "historical_snapshot" /\ m.sha.commit \in u.commits
    \/ /\ m.mode \notin {"timeless", "historical_snapshot"}
       /\ IF m.pr
            THEN IF u.merged THEN m.merge.len # "short" /\ m.merge.commit = u.merge
                 ELSE m.merge = NoRef
            ELSE m.branch /\ m.sha.commit = u.head

\* A verdict of current was seen to hold: upstream bore the claim out at some
\* moment between the reading of the claim and the verdict, a sha attested
\* locally had been seen upstream by then, and the resolver was not blind; a
\* stale one was seen not to hold at some moment (reconcile_claim: a blind
\* resolver is never silently current).
CurrentMeansSeen ==
    \A i \in DOMAIN log : log[i].key > PlainKeys =>
        LET m == log[log[i].basis].meta
            seen == {Upstream[u] : u \in log[i].span[1]..log[i].span[2]}
        IN /\ log[log[i].basis].kind = "claim"
           /\ log[i].val # "unverifiable" => task[log[i].by].enabled
           /\ log[i].val = "current" =>
                /\ \E u \in seen : BornOut(m, u)
                /\ m.evidence # "none" => \E u \in seen : m.sha.commit \in u.commits
           /\ log[i].val = "stale" => \E u \in seen : ~BornOut(m, u)

\* A session that was opened is told how many claims were not verified within
\* the window, and how many live entries descend from a quarantined or falsified
\* one (what holds their sources, and the sources of what it holds, holds such a
\* one): the count, or the limit where it is larger, so none is told only where
\* there is none.  It is told the batons nobody consumed, except those behind as
\* many other handoffs as are listed, consumed ones among them; and of each it is
\* told, no later handoff had consumed it.  Or it is told which of these could not
\* be looked at (session_bootstrap, coord_health, _pending_batons).
BootstrapIsCandid ==
    \A j \in Jobs : task[j].op = "bootstrap" /\ pc[j] = "done" =>
        LET r == report[j]
            row(k) == log[LatestAt(k, r.at)]
            live(k) == LatestAt(k, r.at) # 0 /\ IsLive(row(k))
            sources(k) == IF live(k) THEN row(k).derived_from ELSE {}
            closed(T) == \A b \in T : sources(b) \subseteq T
            tainted(k) == \/ live(k) /\ row(k).quarantined
                          \/ live(VerdictOf(k)) /\ row(VerdictOf(k)).val = "stale"
            verified(k) == /\ live(VerdictOf(k))
                           /\ task[row(VerdictOf(k)).by].enabled
                           /\ row(VerdictOf(k)).val # "unverifiable"
                           /\ r.time <= row(VerdictOf(k)).at + Staleness
            unverified == {k \in Plain : live(k) /\ row(k).kind = "claim" /\ ~verified(k)}
            descendants == {k \in Plain : live(k) /\
                              \A T \in SUBSET Plain :
                                sources(k) \subseteq T /\ closed(T)
                                  => \E a \in T : tainted(a)}
            handoff(i) == log[i].kind = "handoff" /\ IsLive(log[i]) /\ ~log[i].quarantined
            before(k) == {k2 \in Keys : k2 < k /\
                            \E i \in 1..r.looked : log[i].key = k2 /\ handoff(i)}
        IN "session_create" \notin r.degraded =>
             /\ \/ "coord_health" \in r.degraded
                \/ /\ r.needs = Min({HealthLimit, Cardinality(unverified)})
                   /\ r.tainted = Min({HealthLimit, Cardinality(descendants)})
             /\ \/ "pending_batons" \in r.degraded
                \/ /\ \A k \in Plain :
                        LET i == LatestAt(k, r.looked) IN
                        i # 0 /\ handoff(i) /\ ~log[i].meta.consumed
                        => i \in r.batons \/ Cardinality(before(k)) >= BatonLimit
                   /\ \A i \in r.batons :
                        /\ i \in 1..r.looked /\ handoff(i) /\ ~log[i].meta.consumed
                        /\ \A i2 \in 1..r.looked :
                             i2 > i /\ log[i2].key = log[i].key => log[i2].kind # "handoff"
=============================================================================
