----------------------------- MODULE MCAppendLog -----------------------------
(* AppendLog on small sets: requests chosen so that calls race for a key, for *)
(* an event_id on one key and across keys, and for nothing.                   *)
EXTENDS AppendLog

CONSTANTS e1, e2

Save(k, kd, p, a, e) ==
    [tool |-> "memory_save", key |-> k, kind |-> kd, payload |-> p,
     actor |-> a, event |-> e]
Delete(k, a, e) ==
    [tool |-> "memory_delete", key |-> k, kind |-> "note", payload |-> Deleted,
     actor |-> a, event |-> e]

MCKinds == {"note", "claim"}
SaveNote   == Save("k1", "note", "p1", "alice", e1)
SaveClaim  == Save("k1", "claim", "p2", "alice", NoEvent)
SaveOther  == Save("k2", "note", "p1", "alice", e1)
SaveByBob  == Save("k1", "note", "p1", "bob", e1)
SaveBad    == Save("k1", "gossip", "p1", "bob", e2)
DeleteNote == Delete("k1", "alice", e2)

MCCalls == 1..3
MCWorkloads ==
    {<<SaveNote, SaveNote, SaveNote>>,      \* one event_id, three times
     <<SaveNote, SaveNote, SaveClaim>>,     \* a duplicate and a rival writer
     <<SaveClaim, SaveClaim, SaveClaim>>,   \* nothing but a revision race
     <<SaveNote, SaveNote, SaveOther>>,     \* one event_id, two payloads
     <<SaveNote, SaveByBob, SaveBad>>,      \* one event_id, two actors
     <<SaveNote, SaveClaim, DeleteNote>>,
     <<SaveClaim, DeleteNote, DeleteNote>>}
MCRequests == UNION {{w[c] : c \in MCCalls} : w \in MCWorkloads}
=============================================================================
