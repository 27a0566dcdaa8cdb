-------------------------------- MODULE MCGate --------------------------------
(* Gate on three calls: two bearers of one token, a blocked operation and its  *)
(* overrides, a preview confirmed after the key changed.                       *)
EXTENDS Gate

CONSTANT e1

Call(tool, kd, p, e, preview, override, confirms) ==
    [tool |-> tool, kind |-> kd, payload |-> p, event |-> e, session |-> "s1",
     preview |-> preview, override |-> override, confirms |-> confirms]

Delete(e, override, confirms) ==
    Call("memory_delete", "note", "deleted", e, FALSE, override, confirms)
Save(kd, p, e, preview, confirms) ==
    Call("memory_save", kd, p, e, preview, FALSE, confirms)
Handoff == Call("handoff_save", "handoff", "p1", NoEvent, FALSE, FALSE, FALSE)

MCCalls == 1..3
MCSessions == {"s1"}
MCKinds == {"note", "claim", "handoff"}
MCScopes == {{}, {"memory_delete"}}
MCWorkloads ==
    {<<Delete(NoEvent, FALSE, FALSE), Delete(e1, FALSE, TRUE), Delete(NoEvent, FALSE, TRUE)>>,
     <<Delete(NoEvent, FALSE, FALSE), Delete(e1, TRUE, FALSE), Delete(NoEvent, TRUE, FALSE)>>,
     <<Save("note", "p1", NoEvent, TRUE, FALSE), Save("note", "p1", e1, FALSE, TRUE),
       Save("claim", "p2", e1, FALSE, FALSE)>>,
     <<Delete(NoEvent, FALSE, FALSE), Delete(e1, FALSE, TRUE),
       Save("claim", "p2", NoEvent, FALSE, FALSE)>>,
     <<Delete(NoEvent, FALSE, FALSE), Delete(e1, TRUE, FALSE),
       Save("claim", "p2", e1, FALSE, FALSE)>>,
     <<Handoff, Handoff, Save("note", "p1", NoEvent, FALSE, TRUE)>>}
=============================================================================
