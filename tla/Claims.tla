-------------------------------- MODULE Claims --------------------------------
(***************************************************************************)
(* Claims, the verdicts the reconciler appends beside them, and what         *)
(* coord_health and session_bootstrap tell a session about them.             *)
(*                                                                          *)
(* A pass reads its claims once, then resolves them one by one over the      *)
(* network while the log and the upstream repository move on.                *)
(***************************************************************************)
EXTENDS Entries

CONSTANTS
    Staleness,        \* claim_staleness_hours
    HealthLimit,      \* entries a list of coord_health is cut to
    BatonLimit,       \* handoffs _pending_batons lists
    ReconcileLimit,   \* claims a pass of coord_reconcile takes
    WebhookLimit      \* claims a webhook's pass takes, in the whole store

ASSUME ClaimsAssumption ==
    /\ {Staleness, HealthLimit, BatonLimit, ReconcileLimit, WebhookLimit} \subseteq Nat
    /\ \A i \in DOMAIN Upstream : "none" \notin {Upstream[i].head, Upstream[i].merge}

VARIABLES
    batch,     \* job -> claims (positions) it has still to resolve
    since,     \* job -> the upstream state when it began with the current one
    verdict,   \* job -> the state resolved for it
    report     \* job -> what a bootstrap found

claimVars == <<batch, since, verdict, report>>

NoReport ==
    [at |-> 0, time |-> 0, degraded |-> {}, entries |-> 0, quarantined |-> 0,
     needs |-> 0, tainted |-> 0, stale |-> 0, duplicates |-> 0, batons |-> {},
     looked |-> 0]

ClaimsInit ==
    /\ batch = [j \in Jobs |-> {}]
    /\ since = [j \in Jobs |-> 0]
    /\ verdict = [j \in Jobs |-> "none"]
    /\ report = [j \in Jobs |-> NoReport]

-----------------------------------------------------------------------------
(* The resolver: any call may fail, which is None.                           *)

Truth == Upstream[head]

CommitExists(ref) == ref # NoRef /\ ref.len # "short" /\ ref.commit \in Truth.commits
FullRef(c) == [commit |-> c, len |-> "full"]

\* _subject_verdict, by the claim's temporal mode and subject, for an upstream
\* that answers or not.
HeadVerdict(m, answered) ==
    IF m.repo /\ m.pr THEN
      IF ~answered THEN "unverifiable"
      ELSE IF Truth.merged
             THEN IF ShaMatch(m.merge, FullRef(Truth.merge)) THEN "current" ELSE "stale"
             ELSE IF m.merge = NoRef THEN "current" ELSE "stale"
    ELSE IF m.repo /\ m.branch /\ answered
      THEN IF ShaMatch(m.sha, FullRef(Truth.head)) THEN "current" ELSE "stale"
    ELSE "unverifiable"

SubjectVerdictBlindIsCurrent(m, answered) ==
    CASE m.mode = "timeless" -> "current"
      [] m.mode = "interval" -> "unverifiable"
      [] m.mode = "historical_snapshot" ->
           IF m.repo /\ answered /\ CommitExists(m.sha) THEN "current" ELSE "unverifiable"
      [] OTHER -> IF m.repo /\ ~answered THEN "current" ELSE HeadVerdict(m, answered)
SubjectVerdict(m, answered) ==
    CASE m.mode = "timeless" -> "current"
      [] m.mode = "interval" -> "unverifiable"
      [] m.mode = "historical_snapshot" ->
           IF m.repo /\ answered /\ CommitExists(m.sha) THEN "current" ELSE "unverifiable"
      [] OTHER -> HeadVerdict(m, answered)

-----------------------------------------------------------------------------
(* coord_reconcile, and coord_reconcile_repo on behalf of the webhook.       *)

\* A limit: the rows of the first keys.
FirstByKey(S, limit) ==
    {i \in S : Cardinality({k \in {log[n].key : n \in S} : k < log[i].key}) < limit}

\* Both filter before they take a key's latest revision, and cut what is left.
ClaimsOf(q, limit) ==
    FirstByKey(
        {i \in DistinctOn({n \in DOMAIN log :
                        log[n].kind = "claim" /\ (q.op = "webhook" => log[n].meta.repo)}) :
            /\ IsLive(log[i])
            /\ q.op = "webhook" => (q.pr => log[i].meta.pr) /\ (q.branch => log[i].meta.branch)},
        limit)

\* What a webhook takes of this namespace depends on those that sort before it.
Limits(q) == IF q.op = "webhook" THEN 0..WebhookLimit ELSE {ReconcileLimit}

Goes(j, b) ==
    /\ batch' = [batch EXCEPT ![j] = b]
    /\ since' = [since EXCEPT ![j] = head]
    /\ Goto(j, IF b = {} THEN "done" ELSE "attest")

ReadClaims(j) ==
    /\ pc[j] = "idle"
    /\ task[j].op \in {"reconcile", "webhook"}
    /\ \E limit \in Limits(task[j]) : Goes(j, ClaimsOf(task[j], limit))
    /\ UNCHANGED <<log, now, task, head, verdict, report>>

\* They are taken in key order.
NextClaim(j) == CHOOSE i \in batch[j] : \A i2 \in batch[j] : log[i].key <= log[i2].key
Claim(j) == log[NextClaim(j)].meta
Settle(j, s) == verdict' = [verdict EXCEPT ![j] = s] /\ Goto(j, "verdict")

\* reconcile_claim up to the evidence gate: no resolver, no verdict; a sha that
\* is only attested locally has first to be seen upstream.
Observed(j) ==
    IF ~task[j].enabled THEN Settle(j, "unverifiable")
    ELSE \/ /\ Claim(j).evidence = "none" \/ (Claim(j).repo /\ CommitExists(Claim(j).sha))
            /\ Goto(j, "subject")
            /\ UNCHANGED verdict
         \/ Claim(j).evidence # "none" /\ Settle(j, "unverifiable")

Attest(j) ==
    /\ pc[j] = "attest"
    /\ Observed(j)
    /\ UNCHANGED <<log, now, task, head, batch, since, report>>

ResolveSubject(j) ==
    /\ pc[j] = "subject"
    /\ \E answered \in BOOLEAN : Settle(j, SubjectVerdict(Claim(j), answered))
    /\ UNCHANGED <<log, now, task, head, batch, since, report>>

\* _reconcile_rows appends the verdict beside the claim, whatever has become of
\* the claim meanwhile, and goes on to the next.
SaveVerdict(j) ==
    /\ pc[j] = "verdict"
    /\ AppendRow(j, [Blank EXCEPT
         !.key = VerdictOf(log[NextClaim(j)].key), !.kind = "config",
         !.val = verdict[j], !.tags = {"reconcile"},
         !.basis = NextClaim(j), !.span = <<since[j], head>>])
    /\ Goes(j, batch[j] \ {NextClaim(j)})
    /\ UNCHANGED <<now, task, head, verdict, report>>

-----------------------------------------------------------------------------
(* coord_health, from one reading of the latest live entries.                *)

LiveRows == {i \in DistinctOn(DOMAIN log) : IsLive(log[i]) /\ log[i].key # MetaKey}
LiveKeys == {log[i].key : i \in LiveRows}
RowOf(k) == log[Latest(k)]
LiveClaims == {k \in LiveKeys \cap Plain : RowOf(k).kind = "claim"}

\* Entries bound to a head that is not the newest one recorded.
HeadBound == {i \in LiveRows : log[i].meta.sha # NoRef
                /\ log[i].meta.mode \in {"none", "head_tracking"}}
StaleEntries ==
    {log[i].key : i \in {n \in HeadBound :
        ~Equivalent(log[n].meta.sha, log[Max(HeadBound)].meta.sha)}}

\* Contents that several keys hold (a verdict's name their moment: none equal
\* another's).
Duplicates ==
    {v \in Values \cup {Deleted} :
        Cardinality({k \in LiveKeys \cap Plain : RowOf(k).val = v}) > 1}

\* Roots of taint: quarantined entries, and claims whose verdict is stale.
TaintedRoots ==
    {k \in LiveKeys : RowOf(k).quarantined}
      \cup {k \in Plain : VerdictOf(k) \in LiveKeys /\ RowOf(VerdictOf(k)).val = "stale"}

\* What the search through derived_from reaches from a key; a verdict has no
\* sources.
Parents(k) == IF k \in LiveKeys THEN RowOf(k).derived_from ELSE {}
Ancestors(k) ==
    LET up[n \in Nat] ==
          IF n = 0 THEN Parents(k) ELSE up[n - 1] \cup UNION {Parents(p) : p \in up[n - 1]}
    IN up[PlainKeys]
TaintedLineage == {k \in LiveKeys \cap Plain : Ancestors(k) \cap TaintedRoots # {}}

\* A claim with no verdict, an unverifiable one whatever its age, or an old one.
NeedsReverificationByAge ==
    {k \in LiveClaims :
        \/ VerdictOf(k) \notin LiveKeys
        \/ now - RowOf(VerdictOf(k)).at > Staleness}
NeedsReverification ==
    {k \in LiveClaims :
        \/ VerdictOf(k) \notin LiveKeys
        \/ RowOf(VerdictOf(k)).val = "unverifiable"
        \/ now - RowOf(VerdictOf(k)).at > Staleness}

-----------------------------------------------------------------------------
(* session_bootstrap: each step may fail and says so; only a session that    *)
(* cannot be opened fails the call.                                         *)

\* _pending_batons lists handoffs, filter first as memory_list does, and drops
\* the consumed ones from what the limit has left.
PendingBatons ==
    LET handoffs == {i \in DistinctOn({n \in DOMAIN log : log[n].kind = "handoff"}) :
                       IsLive(log[i]) /\ ~log[i].quarantined}
    IN {i \in FirstByKey(handoffs, BatonLimit) : ~log[i].meta.consumed}

\* Of coord_health's lists, cut to the limit, a bootstrap hands over the lengths.
Cut(S) == Min({HealthLimit, Cardinality(S)})

Degrade(j, name, p) ==
    /\ report' = [report EXCEPT ![j].degraded = @ \cup {name}]
    /\ Goto(j, p)

BootstrapHealth(j) ==
    /\ pc[j] = "idle"
    /\ task[j].op = "bootstrap"
    /\ \/ Degrade(j, "coord_health", "batons")
       \/ /\ report' = [report EXCEPT ![j] =
               [@ EXCEPT !.at = Len(log), !.time = now,
                  !.entries = Cardinality(LiveRows),
                  !.quarantined = Cardinality({i \in LiveRows : log[i].quarantined}),
                  !.needs = Cut(NeedsReverification), !.tainted = Cut(TaintedLineage),
                  !.stale = Cut(StaleEntries), !.duplicates = Cut(Duplicates)]]
          /\ Goto(j, "batons")
    /\ UNCHANGED <<log, now, task, head, batch, since, verdict>>

BootstrapBatons(j) ==
    /\ pc[j] = "batons"
    /\ \/ Degrade(j, "pending_batons", "session")
       \/ /\ report' = [report EXCEPT ![j].batons = PendingBatons, ![j].looked = Len(log)]
          /\ Goto(j, "session")
    /\ UNCHANGED <<log, now, task, head, batch, since, verdict>>

\* session_create, in Sessions; here it is done or the call fails.
BootstrapSession(j) ==
    /\ pc[j] = "session"
    /\ Goto(j, "done")
    /\ \/ UNCHANGED report
       \/ report' = [report EXCEPT ![j] = [NoReport EXCEPT !.degraded = {"session_create"}]]
    /\ UNCHANGED <<log, now, task, head, batch, since, verdict>>

\* A reconciling pass that breaks off leaves the rest of its claims as they were.
BreakPass(j) ==
    /\ pc[j] \in {"attest", "subject", "verdict"}
    /\ batch' = [batch EXCEPT ![j] = {}]
    /\ Goto(j, "done")
    /\ UNCHANGED <<log, now, task, head, since, verdict, report>>

ClaimsStep(j) ==
    \/ ReadClaims(j) \/ Attest(j) \/ ResolveSubject(j) \/ SaveVerdict(j) \/ BreakPass(j)
    \/ BootstrapHealth(j) \/ BootstrapBatons(j) \/ BootstrapSession(j)
=============================================================================
