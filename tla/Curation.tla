------------------------------- MODULE Curation -------------------------------
(***************************************************************************)
(* coord_curate: a model's answer about a session, applied op by op.  An op  *)
(* that supersedes or merges closes the old keys first, each with a read and *)
(* an append, and then writes the survivor.                                 *)
(***************************************************************************)
EXTENDS Entries

VARIABLES
    step,   \* job -> the op it is at
    todo,   \* job -> old keys the op has still to close
    held,   \* job -> the revision read for the boundary, and when
    told,   \* job -> what it counted each op as
    out     \* job -> how the pass ended

curateVars == <<step, todo, held, told, out>>

NotHeld == [row |-> 0, at |-> 0]

CurationInit ==
    /\ step = [j \in Jobs |-> 1]
    /\ todo = [j \in Jobs |-> <<>>]
    /\ held = [j \in Jobs |-> NotHeld]
    /\ told = [j \in Jobs |-> <<>>]
    /\ out = [j \in Jobs |-> "none"]

Op(j) == task[j].ops[step[j]]

\* A claim without a repo and a PR or branch is written as a note.
HasProvenance(m) == m.repo /\ (m.pr \/ m.branch)
KindOf(op) == IF op.kind = "claim" /\ ~HasProvenance(op.meta) THEN "note" ELSE op.kind

\* The keys an op closes before it writes its own.
OldKeys(op) ==
    IF op.action = "SUPERSEDE" THEN op.old
    ELSE IF op.action = "MERGE" THEN ItemsAt(op.old, {n \in DOMAIN op.old : op.old[n] # op.key})
    ELSE <<>>

\* The answer speaks of plain keys, or leaves the key of an op out.
NoKey == -1
ASSUME CurationAssumption ==
    \A w \in Workloads : \A j \in Jobs : w.task[j].op = "curate" =>
        /\ w.task[j].ops \in Seq(ToSet(w.task[j].ops))
        /\ \A op \in ToSet(w.task[j].ops) :
             /\ op.key \in Plain \cup {NoKey}
             /\ OldKeys(op) \in Seq(Plain)
             /\ op.meta \in Metas /\ op.val \in Values
             /\ op.derived_from \subseteq Plain /\ op.vectors \subseteq {"text", "hyde"}

-----------------------------------------------------------------------------
(* coord_curate.  The trace and the similar memories only feed the model;    *)
(* its answer is the task, or a failure that yields no operations.           *)

End(j, how) == Goto(j, "done") /\ out' = [out EXCEPT ![j] = how]

Disabled(j) ==
    /\ pc[j] = "idle"
    /\ task[j].op = "curate"
    /\ ~task[j].enabled
    /\ End(j, "disabled")
    /\ UNCHANGED <<log, now, task, head, step, todo, held, told>>

AskModel(j) ==
    /\ pc[j] = "idle"
    /\ task[j].op = "curate"
    /\ task[j].enabled
    /\ \/ ~task[j].dry_run /\ task[j].ops # <<>> /\ Goto(j, "gates") /\ UNCHANGED out
       \/ End(j, "ok")
    /\ UNCHANGED <<log, now, task, head, step, todo, held, told>>

\* The pass goes on to its next op.
Advance(j, outcome) ==
    /\ told' = [told EXCEPT ![j] = Append(@, outcome)]
    /\ step' = [step EXCEPT ![j] = @ + 1]
    /\ IF step[j] < Len(task[j].ops) THEN Goto(j, "gates") /\ UNCHANGED out
       ELSE End(j, "ok")

\* apply_curation's gates before the first write of an op, in their order.
FamilyConflict(j) ==
    /\ task[j].family_must_differ
    /\ \E k \in {Op(j).key} \cup ToSet(Op(j).old) :
         MemoryGet(k, TRUE) # 0 /\ log[MemoryGet(k, TRUE)].family
Gate(j) ==
    CASE Op(j).action = "NOOP" -> "noop"
      [] Op(j).action \notin {"ADD", "UPDATE", "MERGE", "SUPERSEDE"} \/ Op(j).key = NoKey
           -> "invalid"
      [] Op(j).phi -> "phi_dropped"
      [] FamilyConflict(j) -> "family_conflict"
      [] OTHER -> "passed"

Gates(j) ==
    /\ pc[j] = "gates"
    /\ IF Gate(j) = "passed"
         THEN /\ todo' = [todo EXCEPT ![j] = OldKeys(Op(j))]
              /\ Goto(j, IF Op(j).action = "UPDATE" THEN "compare"
                         ELSE IF OldKeys(Op(j)) = <<>> THEN "write" ELSE "bound")
              /\ UNCHANGED <<step, told, out>>
         ELSE Advance(j, Gate(j)) /\ UNCHANGED todo
    /\ UNCHANGED <<log, now, task, head, held>>

\* An UPDATE that would say what the live entry says is no new revision.
Compare(j) ==
    /\ pc[j] = "compare"
    /\ LET i == MemoryGet(Op(j).key, FALSE) IN
       IF i # 0 /\ log[i].val = Op(j).val /\ log[i].kind = KindOf(Op(j))
         THEN Advance(j, "noop")
         ELSE Goto(j, "write") /\ UNCHANGED <<step, told, out>>
    /\ UNCHANGED <<log, now, task, head, todo, held>>

\* An old key done with: the next one, or the survivor.
NextOld(j) ==
    /\ todo' = [todo EXCEPT ![j] = Tail(@)]
    /\ Goto(j, IF Len(todo[j]) = 1 THEN "write" ELSE "bound")

\* _set_validity_boundary reads the latest revision ...
Bound(j) ==
    /\ pc[j] = "bound"
    /\ LET i == Latest(Head(todo[j])) IN
       IF i # 0 /\ IsLive(log[i])
         THEN /\ held' = [held EXCEPT ![j] = [row |-> i, at |-> Len(log)]]
              /\ Goto(j, "close")
              /\ UNCHANGED todo
         ELSE NextOld(j) /\ UNCHANGED held
    /\ UNCHANGED <<log, now, task, head, step, told, out>>

\* ... and later appends a copy of it that is no longer valid.  Event ids are
\* deterministic: one per session, key and action.
CurateEventFresh(j, k, suffix) == <<task[j].session, k, suffix, j>>
CurateEvent(j, k, suffix) == <<task[j].session, k, suffix>>

Seen(e) == {i \in DOMAIN log : log[i].event = e}

\* idem_fingerprint: what was written, with the meta its caller gave.
SameWrite(r, s) ==
    /\ r.key = s.key /\ r.kind = s.kind /\ r.val = s.val
    /\ [r.meta EXCEPT !.sha = r.given] = s.meta

\* _append of a row with an event_id: it lands, is a replay of an equal write,
\* or finds its event_id used for another one, which drops the op.
Conflicting(r) == \E i \in Seen(r.event) : ~SameWrite(log[i], r)
Land(j, r) == IF Seen(r.event) = {} THEN AppendRow(j, r) ELSE UNCHANGED log

Boundary(j) ==
    [log[held[j].row] EXCEPT !.closed = TRUE, !.vectors = {}, !.derived_from = {},
        !.family = FALSE, !.basis = held[j].row, !.span = <<held[j].at, Len(log)>>,
        !.event = CurateEvent(j, log[held[j].row].key, "supersede-boundary")]

Close(j) ==
    /\ pc[j] = "close"
    /\ IF Conflicting(Boundary(j))
         THEN Advance(j, "idempotency_conflict") /\ UNCHANGED <<log, todo>>
         ELSE Land(j, Boundary(j)) /\ NextOld(j) /\ UNCHANGED <<step, told, out>>
    /\ held' = [held EXCEPT ![j] = NotHeld]
    /\ UNCHANGED <<now, task, head>>

\* The survivor.  A sha or a kind that is refused ends the pass; only an
\* idempotency_conflict is counted and passed over.
Survivor(j) ==
    [Blank EXCEPT !.key = Op(j).key, !.kind = KindOf(Op(j)), !.val = Op(j).val,
        !.meta = Op(j).meta, !.vectors = Op(j).vectors, !.family = TRUE,
        !.derived_from = Op(j).derived_from,
        !.event = CurateEvent(j, Op(j).key, Op(j).action)]

Refused(r) == Canonical(r.meta) = {} \/ (Seen(r.event) = {} /\ r.kind \notin Kinds)
RefuseCounted(j) == Advance(j, "invalid")
Refuse(j) == End(j, "failed") /\ UNCHANGED <<step, told>>

Write(j) ==
    /\ pc[j] = "write"
    /\ \/ /\ Refused(Survivor(j))
          /\ Refuse(j)
          /\ UNCHANGED log
       \/ /\ ~Refused(Survivor(j)) /\ Conflicting(Survivor(j))
          /\ Advance(j, "idempotency_conflict")
          /\ UNCHANGED log
       \/ /\ ~Refused(Survivor(j)) /\ ~Conflicting(Survivor(j))
          /\ Land(j, Survivor(j))
          /\ Advance(j, "applied")
    /\ UNCHANGED <<now, task, head, todo, held>>

\* Any other error, or the death of the process, ends the pass where it is.
BreakOff(j) ==
    /\ task[j].op = "curate"
    /\ Running(j)
    /\ End(j, "failed")
    /\ UNCHANGED <<log, now, task, head, step, todo, held, told>>

CurationStep(j) ==
    \/ Disabled(j) \/ AskModel(j) \/ Gates(j) \/ Compare(j)
    \/ Bound(j) \/ Close(j) \/ Write(j) \/ BreakOff(j)
=============================================================================
