---------------------------- MODULE ExactlyOnceLog ----------------------------
(***************************************************************************)
(* What the store promises about writes, with no connection, transaction,   *)
(* retry or race in sight: a log per key, each call's effect entering it at  *)
(* once and at most once, one entry per (actor, event_id), and answers that  *)
(* are true of the log when they are given.  AppendLog implements it.        *)
(***************************************************************************)
EXTENDS Naturals, Sequences

CONSTANTS Calls, Requests, Kinds, NoEvent

VARIABLES
    log,      \* key -> its entries, oldest first
    asked,    \* call -> its request
    answer    \* call -> [status, rev]

Keys == {q.key : q \in Requests}
Unanswered(c) == answer[c].status = "none"
Answered(c, s, n) == answer' = [answer EXCEPT ![c] = [status |-> s, rev |-> n]]

Positions == UNION {{k} \X DOMAIN log[k] : k \in Keys}
At(p) == log[p[1]][p[2]]

\* The places where the call's (actor, event_id) is already used.
Used(c) == {p \in Positions : /\ asked[c].event # NoEvent
                              /\ At(p).actor = asked[c].actor
                              /\ At(p).event = asked[c].event}
LandedBy(c) == {p \in Positions : At(p).by = c}

\* An entry says what was asked, but a delete's kind is the store's choice.
EntryFor(c, kd) ==
    [tool |-> asked[c].tool, kind |-> kd, payload |-> asked[c].payload,
     actor |-> asked[c].actor, event |-> asked[c].event, by |-> c]

Init ==
    /\ log = [k \in Keys |-> <<>>]
    /\ asked \in [Calls -> Requests]
    /\ answer = [c \in Calls |-> [status |-> "none", rev |-> 0]]

\* The call takes effect; its client may lose touch at that very moment.
Land(c) ==
    /\ Unanswered(c)
    /\ LandedBy(c) = {}
    /\ Used(c) = {}
    /\ \E kd \in Kinds :
         /\ asked[c].tool = "memory_save" => kd = asked[c].kind
         /\ log' = [log EXCEPT ![asked[c].key] = Append(@, EntryFor(c, kd))]
    /\ answer' = answer \/ Answered(c, "unavailable", 0)
    /\ UNCHANGED asked

ReplyOk(c) ==
    /\ \E p \in LandedBy(c) : Answered(c, "ok", p[2])

\* A replay is answered with the entry that landed, and it is what was asked.
ReplySeen(c) ==
    \E p \in Used(c) :
      /\ p[1] = asked[c].key
      /\ At(p).tool = asked[c].tool
      /\ At(p).payload = asked[c].payload
      /\ asked[c].tool = "memory_save" => At(p).kind = asked[c].kind
      /\ Answered(c, "deduplicated_replay", p[2])

\* A save is told of a conflict only when its event_id was used for another
\* request.
ReplyConflict(c) ==
    /\ \E p \in Used(c) :
         asked[c].tool = "memory_save" => \/ p[1] # asked[c].key
                                          \/ At(p).tool # asked[c].tool
                                          \/ At(p).payload # asked[c].payload
                                          \/ At(p).kind # asked[c].kind
    /\ Answered(c, "idempotency_conflict", 0)

\* A refusal is final: nothing of the call is in the log.
ReplyRefused(c) ==
    /\ LandedBy(c) = {}
    /\ \E s \in {"invalid_kind", "write_conflict"} : Answered(c, s, 0)

\* The one answer that is wrong about its own write: it did land.
ReplyUnverified(c) ==
    \E p \in LandedBy(c) : Answered(c, "write_verification_failed", p[2])

Reply(c) ==
    /\ Unanswered(c)
    /\ \/ ReplyOk(c)
       \/ ReplySeen(c)
       \/ ReplyConflict(c)
       \/ ReplyRefused(c)
       \/ ReplyUnverified(c)
    /\ UNCHANGED <<log, asked>>

\* Some calls never hear: nothing is said about their effect.
LoseTouch(S) ==
    /\ \A c \in S : Unanswered(c)
    /\ answer' = [c \in Calls |-> IF c \in S
                                    THEN [status |-> "unavailable", rev |-> 0]
                                    ELSE answer[c]]
    /\ UNCHANGED <<log, asked>>

Next ==
    \/ \E c \in Calls : Land(c) \/ Reply(c)
    \/ \E S \in SUBSET Calls : LoseTouch(S)

Spec == Init /\ [][Next]_<<log, asked, answer>>
=============================================================================
