------------------------------- MODULE Sessions -------------------------------
(***************************************************************************)
(* session_create and session_append_event.  The number of an event is      *)
(* computed from the ones a statement sees, so concurrent appends collide on *)
(* it; a connection may go at any await, also between a commit and its ack.  *)
(***************************************************************************)
EXTENDS Entries

CONSTANTS
    Attempts     \* _MAX_RETRIES: collisions one run of a call survives

ASSUME SessionsAssumption == Attempts \in Nat \ {0}

VARIABLES
    sessions,   \* the session table: the ids of this namespace
    events,     \* session_event in commit order
    planned,    \* job -> the number its INSERT computed
    tries,      \* job -> collisions in this run
    drops,      \* job -> runs that lost their connection
    ack         \* job -> what it was answered

sessionVars == <<sessions, events, planned, tries, drops, ack>>

\* A session id: which job created it, in which of its runs.
Earlier == <<0, 0>>
None == "none"
NoAck == [how |-> None, row |-> 0]

SessionsInit ==
    /\ sessions = {Earlier}
    /\ events = <<>>
    /\ planned = [j \in Jobs |-> 0]
    /\ tries = [j \in Jobs |-> 0]
    /\ drops = [j \in Jobs |-> 0]
    /\ ack = [j \in Jobs |-> NoAck]

-----------------------------------------------------------------------------
NumbersOf(s) == {events[i].seq : i \in {n \in DOMAIN events : events[n].session = s}}

\* Rows with an event_id of an actor.  A call without one is like none.
SameEvent(t) ==
    {i \in DOMAIN events :
        t.event # None /\ events[i].event = t.event /\ events[i].actor = t.actor}

Replied(j, how, row) ==
    /\ ack' = [ack EXCEPT ![j] = [how |-> how, row |-> row]]
    /\ Goto(j, "done")

\* The look for a replay: neither session nor payload is compared.
AppendCheck(j) ==
    /\ task[j].op = "append"
    /\ pc[j] \in {"idle", "retry"}
    /\ IF SameEvent(task[j]) # {} THEN Replied(j, "replay", Min(SameEvent(task[j])))
       ELSE Goto(j, "guard") /\ UNCHANGED ack
    /\ UNCHANGED <<log, now, task, head, sessions, events, planned, tries, drops>>

\* The tenant guard, and the snapshot of the INSERT ... SELECT.
AppendPlan(j) ==
    /\ pc[j] = "guard"
    /\ IF task[j].session \notin sessions
         THEN Replied(j, "session_not_found", 0) /\ UNCHANGED planned
         ELSE /\ planned' = [planned EXCEPT ![j] = 1 + Max({0} \cup NumbersOf(task[j].session))]
              /\ Goto(j, "insert")
              /\ UNCHANGED ack
    /\ UNCHANGED <<log, now, task, head, sessions, events, tries, drops>>

\* The unique indexes: (session_id, seq), and (namespace, actor, event_id).
TakenBySeq(j) == planned[j] \in NumbersOf(task[j].session)
Taken(j) == planned[j] \in NumbersOf(task[j].session) \/ SameEvent(task[j]) # {}

\* The row is in, once rivals that were in doubt are decided; or it violates.
InsertRow(j) ==
    events' = Append(events, [session |-> task[j].session, seq |-> planned[j], by |-> j,
                              event |-> task[j].event, actor |-> task[j].actor])

AppendInsert(j) ==
    /\ pc[j] = "insert"
    /\ ~Taken(j)
    /\ InsertRow(j)
    /\ Replied(j, "ok", Len(events) + 1)
    /\ UNCHANGED <<log, now, task, head, sessions, planned, tries, drops>>

AppendCollide(j) ==
    /\ pc[j] = "insert"
    /\ Taken(j)
    /\ tries' = [tries EXCEPT ![j] = @ + 1]
    /\ IF tries[j] + 1 < Attempts THEN Goto(j, "retry") /\ UNCHANGED ack
       ELSE Replied(j, "write_conflict", 0)
    /\ UNCHANGED <<log, now, task, head, sessions, events, planned, drops>>

\* session_create: an id of its own each time it runs.
CreateSession(j) ==
    /\ task[j].op = "open"
    /\ pc[j] = "idle"
    /\ sessions' = sessions \cup {<<j, drops[j]>>}
    /\ Replied(j, "ok", 0)
    /\ UNCHANGED <<log, now, task, head, events, planned, tries, drops>>

\* The connection drops, before the statement or after its commit, and the call
\* is run again from its start, or fails.
Rerun(j) ==
    /\ drops' = [drops EXCEPT ![j] = @ + 1]
    /\ tries' = [tries EXCEPT ![j] = 0]
    /\ IF drops[j] + 1 < Reconnects THEN Goto(j, "idle") /\ UNCHANGED ack
       ELSE Replied(j, "error", 0)

SessionDrop(j) ==
    /\ task[j].op \in {"append", "open"}
    /\ pc[j] # "done"
    /\ \/ UNCHANGED <<sessions, events>>
       \/ pc[j] = "insert" /\ ~Taken(j) /\ InsertRow(j) /\ UNCHANGED sessions
       \/ /\ task[j].op = "open"
          /\ sessions' = sessions \cup {<<j, drops[j]>>}
          /\ UNCHANGED events
    /\ Rerun(j)
    /\ UNCHANGED <<log, now, task, head, planned>>

SessionsStep(j) ==
    \/ AppendCheck(j) \/ AppendPlan(j) \/ AppendInsert(j) \/ AppendCollide(j)
    \/ CreateSession(j) \/ SessionDrop(j)

-----------------------------------------------------------------------------
SessionsTypeOK ==
    /\ sessions \subseteq {Earlier} \cup (Jobs \X (0..Reconnects))
    /\ \A i \in DOMAIN events : events[i].seq \in 1..i /\ events[i].by \in Jobs
    /\ planned \in [Jobs -> Nat]
    /\ tries \in [Jobs -> 0..Attempts]
    /\ drops \in [Jobs -> 0..Reconnects]
    /\ \A j \in Jobs : ack[j].how \in {None, "ok", "replay", "session_not_found",
                                       "write_conflict", "error"}

\* The events of a session are numbered 1, 2, 3, ... in the order they came in;
\* an event_id of an actor has one row; a call that was told "ok" has a row, one
\* for each dropped run at most besides, and none besides if it has an event_id;
\* one told of a replay is told of a row with its event_id; one that was refused
\* has no row but those of runs that were dropped (session_append_event: MAX + 1
\* and the two unique indexes, "exactly-once" with an event_id).
EventsOnceInOrder ==
    /\ \A i \in DOMAIN events :
         events[i].seq = Cardinality({n \in 1..i : events[n].session = events[i].session})
    /\ \A i, i2 \in DOMAIN events :
         /\ events[i].event # None
         /\ events[i].event = events[i2].event /\ events[i].actor = events[i2].actor
         => i = i2
    /\ \A j \in Jobs : task[j].op = "append" =>
         LET rows == {i \in DOMAIN events : events[i].by = j}
             told == ack[j]
         IN /\ Cardinality(rows) <= drops[j] + (IF told.how = "ok" THEN 1 ELSE 0)
            /\ task[j].event # None => Cardinality(rows) <= 1
            /\ told.how = "ok" => told.row \in rows
            /\ told.how = "replay" =>
                 /\ events[told.row].event = task[j].event
                 /\ events[told.row].actor = task[j].actor
=============================================================================
