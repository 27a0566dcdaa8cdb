------------------------------- MODULE Entries -------------------------------
(***************************************************************************)
(* The entries of one namespace as the parts above the write path see them: *)
(* a log of revisions in commit order, to which every writer appends in one *)
(* step, which is what ExactlyOnceLog promises of memory_save,               *)
(* memory_delete and of the appends of other components.                     *)
(*                                                                          *)
(* A position in the log stands for a revision, and a length of the log for *)
(* a moment: what was latest or live at a moment is a question about a      *)
(* prefix, so properties can speak of what a statement could have read.     *)
(***************************************************************************)
EXTENDS Integers, FiniteSets, FiniteSetsExt, SequencesExt, TLC

CONSTANTS
    Jobs,        \* concurrent calls
    Workloads,   \* what was saved before, and which call is asked for what
    PlainKeys,   \* keys 1..PlainKeys name what users save, in key order
    Values,      \* contents a user or the curator may save
    Kinds,       \* the kinds the CHECK constraint accepts
    Commits,     \* commits of the upstream repository
    Upstream,    \* the repository on GitHub: the states it goes through
    Reconnects,  \* _CONN_RETRIES: runs a call gets when its connection drops
    MaxNow       \* bound on the clock

ASSUME EntriesAssumption ==
    /\ PlainKeys \in Nat \ {0}
    /\ Upstream \in Seq(ToSet(Upstream)) /\ Upstream # <<>>
    /\ \A i \in DOMAIN Upstream :
         DOMAIN Upstream[i] = {"head", "merged", "merge", "commits"}
    /\ Reconnects \in Nat \ {0}
    /\ MaxNow \in Nat
    /\ {"note", "claim", "handoff", "config"} \subseteq Kinds

VARIABLES
    log,    \* revisions of memory_entry in commit order
    now,    \* the clock
    task,   \* job -> what it was asked for
    pc,     \* job -> control point
    head    \* how far the upstream repository has come

entryVars == <<log, now, task, pc, head>>

-----------------------------------------------------------------------------
(* Keys.  The house band: _meta/observations sorts before, the verdict       *)
(* record of a key sorts after the plain keys.                               *)

MetaKey == 0
Plain == 1..PlainKeys
VerdictOf(k) == PlainKeys + k
Keys == {MetaKey} \cup Plain \cup {VerdictOf(k) : k \in Plain}

\* A recorded sha: a commit and how much of it was written down.
NoRef == [commit |-> "none", len |-> "none"]
Refs == {NoRef} \cup [commit : Commits, len : {"short", "abbrev", "full"}]

\* One is a prefix of the other, and long enough to be trusted.
ShaMatch(a, b) ==
    /\ NoRef \notin {a, b}
    /\ a.commit = b.commit
    /\ "short" \notin {a.len, b.len}
Equivalent(a, b) == a # NoRef /\ (a = b \/ ShaMatch(a, b))

\* What meta says: the provenance of a claim, or that a baton was consumed.
NoMeta ==
    [repo |-> FALSE, pr |-> FALSE, branch |-> FALSE, sha |-> NoRef,
     merge |-> NoRef, mode |-> "none", evidence |-> "none",
     consumed |-> FALSE]
Metas ==
    [repo : BOOLEAN, pr : BOOLEAN, branch : BOOLEAN, sha : Refs, merge : Refs,
     mode : {"none", "head_tracking", "historical_snapshot", "interval", "timeless"},
     evidence : {"none", "local_attested", "pending_remote"},
     consumed : BOOLEAN]

Deleted == "deleted"
States == {"current", "stale", "unverifiable"}   \* the values of verdicts
NoEvent == <<>>

\* A revision.  `closed` is a valid_until that has passed (the boundary is
\* always written with now()); `family` is an origin_model_family equal to the
\* curator's; `given` is the sha as the writer gave it, which idem_fingerprint
\* keeps where the row has the canonical one.  Ghosts: `by` is the writing job, `basis` the position its writer
\* read, `span` between which upstream states a verdict was resolved, or at
\* which lengths of the log a boundary was read and written.
Blank ==
    [key |-> MetaKey, kind |-> "note", val |-> Deleted, tags |-> {},
     dead |-> FALSE, closed |-> FALSE, quarantined |-> FALSE,
     derived_from |-> {}, meta |-> NoMeta, vectors |-> {}, family |-> FALSE,
     given |-> NoRef, event |-> NoEvent, at |-> 0, by |-> 0, basis |-> 0, span |-> <<0, 0>>]

\* What users save: under plain keys, of a kind the table accepts, still valid,
\* embedded only if it has contents.  The ghosts are the log's to set.
UserRow(r) ==
    /\ DOMAIN r = DOMAIN Blank
    /\ r.key \in Plain /\ r.kind \in Kinds /\ r.meta \in Metas
    /\ r.val \in Values \/ (r.val = Deleted /\ r.vectors = {})
    /\ {r.dead, r.closed, r.quarantined, r.family} \subseteq BOOLEAN /\ ~r.closed
    /\ r.derived_from \subseteq Plain /\ r.vectors \subseteq {"text", "hyde"}
    /\ <<r.given, r.at, r.by, r.basis>> = <<Blank.given, Blank.at, Blank.by, Blank.basis>>

\* 0 is nobody; what was saved before is a log.
ASSUME LogAssumption ==
    /\ 0 \notin Jobs
    /\ \A w \in Workloads :
         /\ w.seed \in Seq(ToSet(w.seed))
         /\ \A r \in ToSet(w.seed) : UserRow(r) /\ r.meta.sha.len # "short"
         /\ \A j \in Jobs :
              /\ w.task[j].op = "save" => UserRow(w.task[j].row)
              /\ w.task[j].op = "delete" => w.task[j].key \in Plain
              /\ w.task[j].op = "observe" => w.task[j].val \in Values

RowOK(r) ==
    /\ DOMAIN r = DOMAIN Blank
    /\ r.key \in Keys
    /\ r.kind \in Kinds
    /\ r.val \in Values \cup States \cup {Deleted}
    /\ {r.dead, r.closed, r.quarantined, r.family} \subseteq BOOLEAN
    /\ r.derived_from \subseteq Plain
    /\ r.meta \in Metas /\ r.meta.sha.len # "short" /\ r.given \in Refs
    /\ r.vectors \subseteq {"text", "hyde"}
    /\ r.at \in 0..MaxNow
    /\ r.by \in Jobs \cup {Blank.by}
    /\ r.basis \in 0..Len(log)

-----------------------------------------------------------------------------
(* What the statements read.                                                *)

\* ORDER BY: the members of a finite set, as a strict order has them.
InOrder(S, before(_, _)) ==
    CHOOSE s \in SetToSeqs(S) : \A p, q \in DOMAIN s : p < q => before(s[p], s[q])

\* The items of a sequence that stand at some positions.
ItemsAt(s, P) == LET ps == InOrder(P, <) IN [n \in DOMAIN ps |-> s[ps[n]]]

\* SELECT DISTINCT ON (key) ... ORDER BY key, revision DESC over some rows.
DistinctOn(S) == {i \in S : \A j \in S : log[j].key = log[i].key => j <= i}

\* The latest revision of a key, at moment n and now; 0 when there is none.
LatestAt(k, n) == Max({0} \cup {i \in 1..n : log[i].key = k})
Latest(k) == LatestAt(k, Len(log))

IsLive(r) == ~r.dead /\ ~r.closed

\* memory_get: the position of the entry it returns, 0 for None.
MemoryGet(k, include_quarantined) ==
    LET i == Latest(k) IN
    IF i # 0 /\ IsLive(log[i]) /\ (include_quarantined \/ ~log[i].quarantined)
      THEN i ELSE 0

-----------------------------------------------------------------------------
Goto(j, p) == pc' = [pc EXCEPT ![j] = p]
Running(j) == pc[j] \notin {"idle", "done"}

EntriesInit ==
    /\ \E w \in Workloads : task = w.task /\ log = w.seed
    /\ now = 0
    /\ pc = [j \in Jobs |-> "idle"]
    /\ head = 1

\* The sha a write may store for the one it was given: the full one when the
\* resolver answers in time, else what was given.  None is stored for a ref
\* below git's default length: the write is refused.
Full(ref) == [ref EXCEPT !.len = "full"]
CanonicalAnything(m) == {m.sha, Full(m.sha)}
Canonical(m) ==
    IF m.sha = NoRef THEN {NoRef}
    ELSE {r \in {m.sha, Full(m.sha)} :
            /\ m.sha.len # "short"
            /\ r # m.sha => m.repo /\ m.sha.commit \in Upstream[head].commits}

\* A row enters the log, with the sha its write may store.
AppendRow(j, r) ==
    \E ref \in Canonical(r.meta) :
        log' = Append(log, [r EXCEPT !.meta.sha = ref, !.given = r.meta.sha,
                                        !.at = now, !.by = j])

\* memory_save and handoff_save, as ExactlyOnceLog lets them be seen.
Save(j) ==
    /\ pc[j] = "idle"
    /\ task[j].op = "save"
    /\ \/ AppendRow(j, task[j].row)
       \/ Canonical(task[j].row.meta) = {} /\ UNCHANGED log
    /\ Goto(j, "done")
    /\ UNCHANGED <<now, task, head>>

\* memory_delete: the tombstone keeps the latest kind, and nothing else.
Delete(j) ==
    /\ pc[j] = "idle"
    /\ task[j].op = "delete"
    /\ LET i == Latest(task[j].key) IN
       AppendRow(j, [Blank EXCEPT !.key = task[j].key, !.dead = TRUE,
                                  !.kind = IF i = 0 THEN @ ELSE log[i].kind])
    /\ Goto(j, "done")
    /\ UNCHANGED <<now, task, head>>

\* observation_log: a revision of the one key under _meta/; refused where the
\* profile says clinical.
ObservationLog(j) ==
    /\ pc[j] = "idle"
    /\ task[j].op = "observe"
    /\ IF task[j].clinical THEN UNCHANGED log
       ELSE AppendRow(j, [Blank EXCEPT !.val = task[j].val, !.tags = {"observation"}])
    /\ Goto(j, "done")
    /\ UNCHANGED <<now, task, head>>

\* Time passes, as long as a call has still to look at the clock.
LooksAtClock(t) == t.op \in {"bootstrap", "call"}
Tick ==
    /\ now < MaxNow
    /\ \E j \in Jobs : pc[j] # "done" /\ LooksAtClock(task[j])
    /\ now' = now + 1
    /\ UNCHANGED <<log, task, pc, head>>

\* The repository moves on, a push or a merge, as long as a call has still to
\* look at it.
LooksUpstream(t) ==
    t.op \in {"reconcile", "webhook"} \/ (t.op = "save" /\ t.row.meta.sha # NoRef)
Push ==
    /\ head < Len(Upstream)
    /\ \E j \in Jobs : pc[j] # "done" /\ LooksUpstream(task[j])
    /\ head' = head + 1
    /\ UNCHANGED <<log, now, task, pc>>
=============================================================================
