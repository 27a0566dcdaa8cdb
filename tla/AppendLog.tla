------------------------------ MODULE AppendLog ------------------------------
(***************************************************************************)
(* The write path of the memory store: memory_save and memory_delete down  *)
(* to PostgresBackend._append, as concurrent calls on one event loop over   *)
(* a pool of database connections.                                          *)
(*                                                                          *)
(* A call's control point changes only where the code awaits the database,  *)
(* so every action below is one round trip (or one wait) of one call.       *)
(* `rows` is what is committed in memory_entry; `tx` is the one row a call   *)
(* has inserted and not yet committed.  The table's two unique indexes make  *)
(* an INSERT wait for a rival uncommitted row and fail on a committed one.   *)
(***************************************************************************)
EXTENDS Integers, FiniteSets, FiniteSetsExt

CONSTANTS
    Calls,         \* client calls; each is made once, its retries are inside it
    Requests,      \* what a call may ask for
    Workloads,     \* which call asks for what: a set of functions
    Kinds,         \* the kinds the table's CHECK constraint accepts
    NoEvent,       \* the event_id of a call that carries none
    MaxRetries,    \* _MAX_RETRIES: INSERT attempts of one _append
    ConnRetries,   \* _CONN_RETRIES: runs of one call over dropped connections
    HistoryLimit,  \* memory_history's limit, 50 in the code
    PoolSize       \* connections in the pool

Tools == {"memory_save", "memory_delete"}
Deleted == "deleted"   \* the value {"deleted": true} every delete writes
DefaultKind == "note"  \* the kind of a delete that finds no entry

ASSUME RequestsAssumption ==
    /\ \A q \in Requests :
         /\ DOMAIN q = {"tool", "key", "kind", "payload", "actor", "event"}
         /\ q.tool \in Tools
         /\ q.tool = "memory_delete" => q.payload = Deleted
    /\ Workloads \subseteq [Calls -> Requests]
    /\ DefaultKind \in Kinds

ASSUME BoundsAssumption ==
    /\ MaxRetries \in Nat \ {0}
    /\ ConnRetries \in Nat \ {0}
    /\ HistoryLimit \in Nat \ {0}
    /\ PoolSize \in Nat \ {0}

VARIABLES
    rows,      \* committed rows of memory_entry
    tx,        \* call -> set of the (at most one) row it inserted, uncommitted
    pc,        \* call -> control point
    req,       \* call -> its request
    kind,      \* call -> the kind it writes (a delete reads it from the table)
    snap,      \* call -> the revision its INSERT statement computed
    attempts,  \* call -> INSERT attempts used by the current run of _append
    tries,     \* call -> dropped runs so far
    ack        \* call -> its answer

vars == <<rows, tx, pc, req, kind, snap, attempts, tries, ack>>

Keys == {q.key : q \in Requests}

\* A revision of a key.  `by` is the call that wrote it (a ghost: the table
\* does not record it).
Row == [key : Keys, rev : Nat \ {0}, tool : Tools,
        kind : Kinds, payload : {q.payload : q \in Requests},
        actor : {q.actor : q \in Requests}, event : {q.event : q \in Requests},
        by : Calls]

Points == {"idle", "readkind", "precheck", "insert", "place", "recheck",
           "commit", "readback", "done"}
Statuses == {"none", "ok", "deduplicated_replay", "idempotency_conflict",
             "invalid_kind", "write_conflict", "write_verification_failed",
             "unavailable"}
NoAck == [status |-> "none", rev |-> 0]

-----------------------------------------------------------------------------
(* What the SQL statements read.                                            *)

RowsOf(k) == {r \in rows : r.key = k}

\* COALESCE(MAX(revision), 0) of a key.
LastRev(k) == Max({0} \cup {r.rev : r \in RowsOf(k)})

LatestKind(k) ==
    IF RowsOf(k) = {} THEN DefaultKind
    ELSE (CHOOSE r \in RowsOf(k) : r.rev = LastRev(k)).kind

\* memory_history: the newest HistoryLimit revisions of a key.
HistoryShort(k) == {r \in RowsOf(k) : r.rev > LastRev(k) - HistoryLimit + 1}
History(k) == {r \in RowsOf(k) : r.rev > LastRev(k) - HistoryLimit}

\* _seen_event: rows under the call's (namespace, actor, event_id).
SeenEventAnyActor(c) ==
    {r \in rows : req[c].event # NoEvent /\ r.event = req[c].event}
SeenEventNever(c) == {}
SeenEvent(c) ==
    {r \in rows : /\ req[c].event # NoEvent
                  /\ r.actor = req[c].actor
                  /\ r.event = req[c].event}

\* idem_fingerprint of a row, and of what the call is about to write.
Fingerprint(r) == <<r.tool, r.key, r.kind, r.payload>>
OwnFingerprint(c) == <<req[c].tool, req[c].key, kind[c], req[c].payload>>

\* The row the call's INSERT would add.
NewRow(c) ==
    [key |-> req[c].key, rev |-> snap[c], tool |-> req[c].tool,
     kind |-> kind[c], payload |-> req[c].payload,
     actor |-> req[c].actor, event |-> req[c].event, by |-> c]

\* The two unique indexes: (namespace, key, revision), and
\* (namespace, actor, event_id) where event_id is not null.
SameRevision(r, s) == r.key = s.key /\ r.rev = s.rev
SameEvent(r, s) ==
    /\ r.event # NoEvent
    /\ r.actor = s.actor
    /\ r.event = s.event
ConflictsByEventOnly(r, s) == SameEvent(r, s)
Conflicts(r, s) == SameRevision(r, s) \/ SameEvent(r, s)

-----------------------------------------------------------------------------
(* The pool.  A call holds its connection from the event_id check to the     *)
(* commit; every other statement borrows one for its own duration.           *)

HoldsConn == {c \in Calls : pc[c] \in {"insert", "place", "recheck", "commit"}}
ConnFree == Cardinality(HoldsConn) < PoolSize

-----------------------------------------------------------------------------
Goto(c, p) == pc' = [pc EXCEPT ![c] = p]
Answer(c, s, n) == ack' = [ack EXCEPT ![c] = [status |-> s, rev |-> n]]

\* Where a run of the call starts: a delete first reads the latest kind.
Entry(q) == IF q.tool = "memory_delete" THEN "readkind" ELSE "precheck"

Init ==
    /\ rows = {}
    /\ tx = [c \in Calls |-> {}]
    /\ pc = [c \in Calls |-> "idle"]
    /\ req \in Workloads
    /\ kind = [c \in Calls |-> req[c].kind]
    /\ snap = [c \in Calls |-> 0]
    /\ attempts = [c \in Calls |-> 0]
    /\ tries = [c \in Calls |-> 0]
    /\ ack = [c \in Calls |-> NoAck]

Start(c) ==
    /\ pc[c] = "idle"
    /\ Goto(c, Entry(req[c]))
    /\ UNCHANGED <<rows, tx, req, kind, snap, attempts, tries, ack>>

\* memory_delete reads the kind of the latest revision on a connection of its
\* own, before anything else.
ReadKind(c) ==
    /\ pc[c] = "readkind"
    /\ ConnFree
    /\ kind' = [kind EXCEPT ![c] = LatestKind(req[c].key)]
    /\ Goto(c, "precheck")
    /\ UNCHANGED <<rows, tx, req, snap, attempts, tries, ack>>

\* The answer to an event_id that already landed: the original, visibly
\* deduplicated, when the fingerprints agree, idempotency_conflict otherwise.
AnswerSeenBlindly(c, r) ==
    Goto(c, "done") /\ Answer(c, "deduplicated_replay", r.rev)
AnswerSeen(c, r) ==
    /\ Goto(c, "done")
    /\ IF Fingerprint(r) = OwnFingerprint(c)
         THEN Answer(c, "deduplicated_replay", r.rev)
         ELSE Answer(c, "idempotency_conflict", 0)

\* Check out a connection and look the event_id up.
Precheck(c) ==
    /\ pc[c] = "precheck"
    /\ ConnFree
    /\ \/ \E r \in SeenEvent(c) : AnswerSeen(c, r)
       \/ /\ SeenEvent(c) = {}
          /\ Goto(c, "insert")
          /\ UNCHANGED ack
    /\ UNCHANGED <<rows, tx, req, kind, snap, attempts, tries>>

NextRevisionKept(c) == IF snap[c] = 0 THEN LastRev(req[c].key) + 1 ELSE snap[c]
NextRevision(c) == LastRev(req[c].key) + 1

\* The INSERT ... SELECT starts: its snapshot fixes the revision.  A kind the
\* CHECK constraint refuses ends the call.
Insert(c) ==
    /\ pc[c] = "insert"
    /\ \/ /\ kind[c] \in Kinds
          /\ snap' = [snap EXCEPT ![c] = NextRevision(c)]
          /\ attempts' = [attempts EXCEPT ![c] = @ + 1]
          /\ Goto(c, "place")
          /\ UNCHANGED ack
       \/ /\ kind[c] \notin Kinds
          /\ Goto(c, "done")
          /\ Answer(c, "invalid_kind", 0)
          /\ UNCHANGED <<snap, attempts>>
    /\ UNCHANGED <<rows, tx, req, kind, tries>>

\* What the unique indexes hold: committed rows and other calls' uncommitted
\* ones.
IndexEntriesCommitted == rows
IndexEntries == rows \cup UNION {tx[d] : d \in Calls}

\* The row enters both unique indexes once no committed and no uncommitted
\* row conflicts with it; while an uncommitted one does, the statement waits.
Place(c) ==
    /\ pc[c] = "place"
    /\ \A r \in IndexEntries : ~Conflicts(NewRow(c), r)
    /\ tx' = [tx EXCEPT ![c] = {NewRow(c)}]
    /\ Goto(c, "commit")
    /\ UNCHANGED <<rows, req, kind, snap, attempts, tries, ack>>

\* After a UniqueViolation that leaves attempts to use, the loop runs again;
\* otherwise the call is refused.
RetryInsertOnceMore(c) ==
    IF attempts[c] <= MaxRetries
      THEN Goto(c, "insert") /\ UNCHANGED ack
      ELSE Goto(c, "done") /\ Answer(c, "write_conflict", 0)
RetryInsert(c) ==
    IF attempts[c] < MaxRetries
      THEN Goto(c, "insert") /\ UNCHANGED ack
      ELSE Goto(c, "done") /\ Answer(c, "write_conflict", 0)

\* UniqueViolation on a committed row.  A call with an event_id goes and looks
\* whether a racing duplicate won, on a second connection.
Collide(c) ==
    /\ pc[c] = "place"
    /\ \E r \in rows : Conflicts(NewRow(c), r)
    /\ IF req[c].event # NoEvent
         THEN Goto(c, "recheck") /\ UNCHANGED ack
         ELSE RetryInsert(c)
    /\ UNCHANGED <<rows, tx, req, kind, snap, attempts, tries>>

Recheck(c) ==
    /\ pc[c] = "recheck"
    /\ ConnFree
    /\ \/ \E r \in SeenEvent(c) : AnswerSeen(c, r)
       \/ /\ SeenEvent(c) = {}
          /\ RetryInsert(c)
    /\ UNCHANGED <<rows, tx, req, kind, snap, attempts, tries>>

Commit(c) ==
    /\ pc[c] = "commit"
    /\ rows' = rows \cup tx[c]
    /\ tx' = [tx EXCEPT ![c] = {}]
    /\ Goto(c, "readback")
    /\ UNCHANGED <<req, kind, snap, attempts, tries, ack>>

\* The ack is given only when memory_history returns, at that revision, the
\* value and the tombstone flag that were written.
Verified(c) ==
    \E h \in History(req[c].key) :
      /\ h.rev = snap[c]
      /\ h.payload = req[c].payload
      /\ h.tool = req[c].tool

\* memory_history retries its own dropped connections; a drop that gets past it
\* is a Disconnect of the call.
Readback(c) ==
    /\ pc[c] = "readback"
    /\ ConnFree
    /\ Goto(c, "done")
    /\ IF Verified(c)
         THEN Answer(c, "ok", snap[c])
         ELSE Answer(c, "write_verification_failed", snap[c])
    /\ UNCHANGED <<rows, tx, req, kind, snap, attempts, tries>>

-----------------------------------------------------------------------------
(* Dropped connections, a pool that stays empty, and the process's death.    *)

\* _retry_if_idempotent: a call with an event_id is run again from its start
\* until its tries are used up; without one the drop surfaces at once.
RetryAnyWrite(c) == tries[c] + 1 < ConnRetries
MayRetry(c) == req[c].event # NoEvent /\ tries[c] + 1 < ConnRetries

Drop(c) ==
    /\ tries' = [tries EXCEPT ![c] = @ + 1]
    /\ IF MayRetry(c)
         THEN /\ Goto(c, Entry(req[c]))
              /\ attempts' = [attempts EXCEPT ![c] = 0]
              /\ UNCHANGED ack
         ELSE /\ Goto(c, "done")
              /\ Answer(c, "unavailable", 0)
              /\ UNCHANGED attempts
    /\ UNCHANGED <<req, kind, snap>>

\* The connection drops: an open transaction is rolled back.
LeaveOpen(c) == UNCHANGED tx
Rollback(c) == tx' = [tx EXCEPT ![c] = {}]
Disconnect(c) ==
    /\ pc[c] \notin {"idle", "done"}
    /\ Rollback(c)
    /\ Drop(c)
    /\ UNCHANGED rows

\* The connection drops after the server committed and before the client heard.
CommitAckLost(c) ==
    /\ pc[c] = "commit"
    /\ rows' = rows \cup tx[c]
    /\ tx' = [tx EXCEPT ![c] = {}]
    /\ Drop(c)

\* PoolTimeout: no connection came free in time.  It is an OperationalError
\* with no SQLSTATE, so it counts as a dropped connection.
PoolTimeout(c) ==
    /\ pc[c] \in {"readkind", "precheck", "recheck", "readback"}
    /\ ~ConnFree
    /\ Drop(c)
    /\ UNCHANGED <<rows, tx>>

\* The database cancels a statement that ran past statement_timeout, or a lock
\* was not to be had: an OperationalError with a SQLSTATE that is no lost
\* connection, which surfaces at once whatever the call carries.
Cancelled(c) ==
    /\ pc[c] \notin {"idle", "done"}
    /\ Rollback(c)
    /\ Goto(c, "done")
    /\ Answer(c, "unavailable", 0)
    /\ UNCHANGED <<rows, req, kind, snap, attempts, tries>>

\* The server process dies: its transactions are rolled back and its callers
\* see their calls fail.  The table stays.
InFlight == {c \in Calls : pc[c] \notin {"idle", "done"}}
Crash ==
    /\ InFlight # {}
    /\ tx' = [c \in Calls |-> {}]
    /\ pc' = [c \in Calls |-> IF c \in InFlight THEN "done" ELSE pc[c]]
    /\ ack' = [c \in Calls |->
                 IF c \in InFlight THEN [status |-> "unavailable", rev |-> 0]
                                   ELSE ack[c]]
    /\ UNCHANGED <<rows, req, kind, snap, attempts, tries>>

-----------------------------------------------------------------------------
\* What the event loop and the database do for a call that has begun.
Proceed(c) ==
    \/ ReadKind(c) \/ Precheck(c) \/ Insert(c) \/ Place(c) \/ Collide(c)
    \/ Recheck(c) \/ Commit(c) \/ Readback(c) \/ PoolTimeout(c)

Next ==
    \/ \E c \in Calls :
         \/ Start(c)
         \/ Proceed(c)
         \/ Disconnect(c)
         \/ CommitAckLost(c)
         \/ Cancelled(c)
    \/ Crash

\* Clients need not call, and connections need not drop.  A call that has
\* begun keeps running: the event loop schedules every ready task, the database
\* answers every statement, and a checkout ends in a connection or a timeout.
Fairness == \A c \in Calls : WF_vars(Proceed(c))

Spec == Init /\ [][Next]_vars
FairSpec == Spec /\ Fairness

-----------------------------------------------------------------------------
(* Properties.                                                              *)

\* Types, with the bounds the two retry loops promise.
TypeOK ==
    /\ rows \subseteq Row
    /\ tx \in [Calls -> SUBSET Row]
    /\ pc \in [Calls -> Points]
    /\ req \in [Calls -> Requests]
    /\ kind \in [Calls -> Kinds \cup {q.kind : q \in Requests}]
    /\ snap \in [Calls -> Nat]
    /\ attempts \in [Calls -> 0..MaxRetries]
    /\ tries \in [Calls -> 0..ConnRetries]
    /\ ack \in [Calls -> [status : Statuses, rev : Nat]]

\* A key's revisions are numbered 1, 2, ... without a hole and without two
\* rows under one number, however its writers race and whichever of them drop.
RevisionsDense ==
    /\ \A r, s \in rows : SameRevision(r, s) => r = s
    /\ \A r \in rows : \A n \in 1..r.rev :
         \E s \in rows : s.key = r.key /\ s.rev = n

\* Exactly-once: an (actor, event_id) has one row, and a call one row, counting
\* every run the disconnect retry makes of it.
AppliedOnce == \A r, s \in rows : (SameEvent(r, s) \/ r.by = s.by) => r = s

\* Every answer that names a row is true: "ok" of the caller's own row,
\* "deduplicated_replay" of a row that is this very write under this event_id,
\* "idempotency_conflict" of a row that used the event_id for something else.
AckTrue(c) ==
    /\ ack[c].status = "ok" =>
         \E r \in rows : /\ r.by = c
                         /\ r.rev = ack[c].rev
                         /\ Fingerprint(r) = OwnFingerprint(c)
    /\ ack[c].status = "deduplicated_replay" =>
         \E r \in rows : /\ r.actor = req[c].actor
                         /\ r.event = req[c].event
                         /\ r.rev = ack[c].rev
                         /\ Fingerprint(r) = OwnFingerprint(c)
    /\ ack[c].status = "idempotency_conflict" =>
         \E r \in rows : /\ r.actor = req[c].actor
                         /\ r.event = req[c].event
                         /\ Fingerprint(r) # OwnFingerprint(c)
AckTruthful == \A c \in Calls : AckTrue(c)

\* A call that is refused has left no row behind, in any of its runs.  Deletes
\* are not held to it for idempotency_conflict: see ReplayCollapses.
Refused(c) ==
    \/ ack[c].status \in {"invalid_kind", "write_conflict"}
    \/ ack[c].status = "idempotency_conflict" /\ req[c].tool = "memory_save"
RefusedLeavesNothing ==
    \A c \in Calls : Refused(c) => \A r \in rows : r.by # c

\* The read-back can fail a write that landed, but only when the key gained
\* HistoryLimit newer revisions before the call read it back.
Overrun(c) ==
    \E r \in rows : /\ r.by = c
                    /\ r.rev = ack[c].rev
                    /\ LastRev(r.key) >= r.rev + HistoryLimit
VerificationFailureIsOverrun ==
    \A c \in Calls :
      ack[c].status = "write_verification_failed" => Overrun(c)

\* History only grows, and a new revision is always the newest of its key.
AppendOnly ==
    [][/\ rows \subseteq rows'
       /\ \A r \in rows' \ rows : r.rev > LastRev(r.key)]_rows

\* A call that has begun is answered, even when every connection is held by a
\* call waiting for a second one.
EveryCallAnswered ==
    \A c \in Calls : pc[c] \notin {"idle", "done"} ~> pc[c] = "done"

\* The rows, read as a log per key, and the answers behave as ExactlyOnceLog
\* says.
LogOf(k) ==
    [n \in 1..LastRev(k) |->
       LET r == CHOOSE r \in RowsOf(k) : r.rev = n
       IN  [tool |-> r.tool, kind |-> r.kind, payload |-> r.payload,
            actor |-> r.actor, event |-> r.event, by |-> r.by]]
Promise == INSTANCE ExactlyOnceLog WITH
             log <- [k \in Keys |-> LogOf(k)], asked <- req, answer <- ack
ImplementsExactlyOnceLog == Promise!Spec

\* What the retry decorator's comment and the fail-closed worksheet say of
\* every write with an event_id: a replay collapses to a no-op, so a call is
\* never told that its own write was somebody's different payload.
ReplayCollapses ==
    \A c \in Calls : ack[c].status = "idempotency_conflict" =>
      \A r \in rows : r.by # c

\* _append waits for a second connection while it holds one, which
\* memory_search's comment calls the way a pool deadlocks.  It cannot come to
\* that: a full pool always has a holder that is not waiting.
NoHoldAndWait == ConnFree \/ \E c \in HoldsConn : pc[c] # "recheck"
=============================================================================
