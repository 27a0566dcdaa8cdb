--------------------------------- MODULE Gate ---------------------------------
(***************************************************************************)
(* The intent gate's Tier-0 pre-flight around a write of one key: previews   *)
(* and their single-use confirm tokens, blocks and the verdicts that close   *)
(* them, the session's declared intent, and the disconnect retry that runs    *)
(* the gate and the write again from the start.                             *)
(*                                                                          *)
(* The write itself is one step here: AppendLog shows that _append behaves    *)
(* so.  Nothing the gate decides depends on its efficacy ledger, which is    *)
(* left out.                                                                *)
(***************************************************************************)
EXTENDS Naturals, Sequences, FiniteSets

CONSTANTS
    Calls,
    Workloads,     \* which call asks for what: a set of functions
    Sessions,
    NoSession,     \* the session of a call that names none
    NoEvent,       \* the event_id of a call that carries none
    Kinds,
    Scopes,        \* the tool sets an intent may declare; {} restricts nothing
    Tier2,         \* what Tier 2 may come to; "off" when it is not enabled
    ConnRetries,   \* _CONN_RETRIES
    MaxIntents     \* bound: intents opened

Tier2Outcomes == {"off", "approve", "conflict", "unavailable"}

ASSUME GateAssumption ==
    /\ NoSession \notin Sessions
    /\ Tier2 \subseteq Tier2Outcomes /\ Tier2 # {}
    /\ ConnRetries \in Nat \ {0} /\ MaxIntents \in Nat
    /\ "note" \in Kinds
    /\ \A w \in Workloads : \A c \in Calls :
         /\ w[c].session \in Sessions \cup {NoSession}
         /\ w[c].kind \in Kinds
         /\ {w[c].preview, w[c].override, w[c].confirms} \subseteq BOOLEAN

VARIABLES
    rows,      \* memory_entry, the key's revisions in order
    pending,   \* gate_pending: the confirm tokens, in the order of issue
    blocks,    \* gate_block_log, in order
    intent,    \* session -> the newest row of gate_intent
    opened,    \* intents opened so far
    req,       \* call -> its request
    pc,        \* call -> control point
    kind,      \* call -> the kind it writes (a delete reads it from the table)
    token,     \* call -> the confirm token it carries; 0 names no token
    saw,       \* call -> the open block it found; 0 for none
    due,       \* call -> what it has yet to write to gate_block_log
    tries,     \* call -> runs started again so far
    ack        \* call -> its answer

vars == <<rows, pending, blocks, intent, opened, req, pc, kind, token, saw, due,
          tries, ack>>
asks == <<intent, opened, req>>

NoIntent == [conflict |-> FALSE, scope |-> {}]
NoDue == [what |-> "none", status |-> "none"]

Destructive(c) == req[c].tool = "memory_delete"

\* gate_fingerprint leaves gate_override out of the meta it hashes,
\* idem_fingerprint does not.
GateFingerprint(c) ==
    <<req[c].tool, kind[c], req[c].payload, req[c].session>>
IdemFingerprint(c) == <<GateFingerprint(c), req[c].override>>

\* _seen_event: the revisions under the call's event_id.
SeenEvent(c) ==
    {i \in DOMAIN rows : req[c].event # NoEvent /\ rows[i].event = req[c].event}
SeenOther(c) == \E i \in SeenEvent(c) : rows[i].idem # IdemFingerprint(c)

\* _open_block: the open blocks of this very operation.
OpenBlocks(c) ==
    {b \in DOMAIN blocks : /\ blocks[b].fp = GateFingerprint(c)
                           /\ blocks[b].closed = "open"}

-----------------------------------------------------------------------------
Goto(c, p) == pc' = [pc EXCEPT ![c] = p]
Finish(c, s) == Goto(c, "done") /\ ack' = [ack EXCEPT ![c] = s]

\* Writes a block, then answers.
BlockAs(c, rule, status) ==
    /\ Goto(c, "record")
    /\ due' = [due EXCEPT ![c] = [what |-> rule, status |-> status]]
    /\ UNCHANGED ack

\* Closes the block the call found, then answers.
CloseAs(c, verdict, status) ==
    /\ Goto(c, "close")
    /\ due' = [due EXCEPT ![c] = [what |-> verdict, status |-> status]]
    /\ UNCHANGED ack

SettleAlways(c, verdict, status) == CloseAs(c, verdict, status)
Settle(c, verdict, status) ==
    IF saw[c] # 0 THEN CloseAs(c, verdict, status)
                  ELSE Finish(c, status) /\ UNCHANGED due

Entry(q) == IF q.tool = "memory_delete" THEN "readkind" ELSE "blocks"

Init ==
    /\ rows = <<>> /\ pending = <<>> /\ blocks = <<>>
    /\ intent = [s \in Sessions |-> NoIntent]
    /\ opened = 0
    /\ req \in Workloads
    /\ pc = [c \in Calls |-> "idle"]
    /\ kind = [c \in Calls |-> req[c].kind]
    /\ token = [c \in Calls |-> 0]
    /\ saw = [c \in Calls |-> 0]
    /\ due = [c \in Calls |-> NoDue]
    /\ tries = [c \in Calls |-> 0]
    /\ ack = [c \in Calls |-> "none"]

\* A client confirms with a token some preview gave out, or with none of them.
Start(c) ==
    /\ pc[c] = "idle"
    /\ Goto(c, Entry(req[c]))
    /\ \E t \in IF req[c].confirms THEN 0..Len(pending) ELSE {0} :
         token' = [token EXCEPT ![c] = t]
    /\ UNCHANGED <<rows, pending, blocks, asks, kind, saw, due, tries, ack>>

\* memory_delete reads the kind of the latest revision.
ReadKind(c) ==
    /\ pc[c] = "readkind"
    /\ kind' = [kind EXCEPT ![c] = IF rows = <<>> THEN "note"
                                   ELSE rows[Len(rows)].kind]
    /\ Goto(c, "blocks")
    /\ UNCHANGED <<rows, pending, blocks, asks, token, saw, due, tries, ack>>

\* The newest open block of the operation is noted for its closure.
FindBlock(c) ==
    /\ pc[c] = "blocks"
    /\ saw' = [saw EXCEPT ![c] =
                 IF OpenBlocks(c) = {} THEN 0
                 ELSE CHOOSE b \in OpenBlocks(c) : \A d \in OpenBlocks(c) : d <= b]
    /\ Goto(c, IF req[c].confirms THEN "consume"
               ELSE IF req[c].event # NoEvent THEN "seen" ELSE "decide")
    /\ UNCHANGED <<rows, pending, blocks, asks, kind, token, due, tries, ack>>

-----------------------------------------------------------------------------
(* The confirm path.                                                        *)

ValidReused(t) == t # 0 /\ ~pending[t].expired
Valid(t) == t # 0 /\ ~pending[t].expired /\ ~pending[t].consumed

\* _consume_confirm: one UPDATE ... RETURNING.
Spend(c) ==
    pending' = IF Valid(token[c])
                 THEN [pending EXCEPT ![token[c]].consumed = TRUE]
                 ELSE pending

\* Whether the call is, byte for byte, what the token's preview showed.
Matches(c) == pending[token[c]].fp = GateFingerprint(c)

\* The token is spent before it is compared: a mismatch loses it.  A match goes
\* straight to the write.
Consume(c) ==
    /\ pc[c] = "consume"
    /\ Spend(c)
    /\ \/ ~Valid(token[c]) /\ BlockAs(c, "confirm_invalid", "gate_blocked")
       \/ /\ Valid(token[c]) /\ ~Matches(c)
          /\ BlockAs(c, "confirm_mismatch", "gate_blocked")
       \/ Valid(token[c]) /\ Matches(c) /\ Goto(c, "append") /\ UNCHANGED <<due, ack>>
    /\ UNCHANGED <<rows, blocks, asks, kind, token, saw, tries>>

-----------------------------------------------------------------------------
(* The other path: the event_id, the intent, the preview.                    *)

\* An event_id that was used for something else fails again here, which proves
\* an earlier block of this operation right.
CheckEvent(c) ==
    /\ pc[c] = "seen"
    /\ \/ SeenOther(c) /\ saw[c] # 0
          /\ CloseAs(c, "confirmed_correct", "idempotency_conflict")
       \/ SeenOther(c) /\ saw[c] = 0
          /\ BlockAs(c, "idempotency_conflict", "idempotency_conflict")
       \/ ~SeenOther(c) /\ Goto(c, "decide") /\ UNCHANGED <<due, ack>>
    /\ UNCHANGED <<rows, pending, blocks, asks, kind, token, saw, tries>>

\* _load_intent, and the decision, which reads nothing else.
Declared(c) ==
    IF req[c].session = NoSession THEN NoIntent ELSE intent[req[c].session]
OutOfScope(c) ==
    Declared(c).scope # {} /\ req[c].tool \notin Declared(c).scope
TwoPhaseOnRequest(c) == req[c].preview \/ OutOfScope(c)
TwoPhase(c) == req[c].preview \/ Destructive(c) \/ OutOfScope(c)
Contradicted(c) == Destructive(c) /\ Declared(c).conflict

Decide(c) ==
    /\ pc[c] = "decide"
    /\ \/ /\ \/ req[c].override
             \/ ~Contradicted(c) /\ ~TwoPhase(c)
          /\ Goto(c, "append")
          /\ UNCHANGED <<due, ack>>
       \/ /\ ~req[c].override
          /\ TwoPhase(c)
          /\ Contradicted(c) => Tier2 \cap {"approve", "unavailable"} # {}
          /\ Goto(c, "preview")
          /\ UNCHANGED <<due, ack>>
       \/ /\ ~req[c].override /\ Contradicted(c)
          /\ \/ /\ "off" \in Tier2
                /\ BlockAs(c, "unresolved_conflict_destructive", "gate_blocked")
             \/ /\ "conflict" \in Tier2
                /\ BlockAs(c, "tier2_conflict", "gate_conflict")
    /\ UNCHANGED <<rows, pending, blocks, asks, kind, token, saw, tries>>

\* _store_confirm.
Issue(c) ==
    pending' = Append(pending, [fp |-> GateFingerprint(c), consumed |-> FALSE,
                                expired |-> FALSE])

Preview(c) ==
    /\ pc[c] = "preview"
    /\ Issue(c)
    /\ Finish(c, "gate_preview")
    /\ UNCHANGED <<rows, blocks, asks, kind, token, saw, due, tries>>

-----------------------------------------------------------------------------
(* The write and what follows it.                                           *)

\* Two ghosts: who wrote the row, and with which token.
Land(c) ==
    rows' = Append(rows, [tool |-> req[c].tool, kind |-> kind[c],
                          op |-> GateFingerprint(c), idem |-> IdemFingerprint(c),
                          event |-> req[c].event, by |-> c, token |-> token[c],
                          override |-> req[c].override])

\* on_write_error: a write that failed proves an open block right.
Fail(c, status) == Settle(c, "confirmed_correct", status)

\* A replay's answer: on_write_success closes nothing for a write that is not
\* fresh.
ReplayClosing(c) == Settle(c, "false_positive", "deduplicated_replay")
Replay(c) == Finish(c, "deduplicated_replay") /\ UNCHANGED due

\* _append: it lands, finds that it had landed, or is refused.
Write(c) ==
    /\ pc[c] = "append"
    /\ \/ /\ SeenEvent(c) = {}
          /\ Land(c)
          /\ Goto(c, "readback")
          /\ UNCHANGED <<due, ack>>
       \/ /\ SeenEvent(c) # {}
          /\ IF SeenOther(c) THEN Fail(c, "idempotency_conflict") ELSE Replay(c)
          /\ UNCHANGED rows
       \/ Fail(c, "write_conflict") /\ UNCHANGED rows
    /\ UNCHANGED <<pending, blocks, asks, kind, token, saw, tries>>

\* The read-back decides whether the write counts as one; then on_write_success
\* finds an open block wrong, on_write_error right.
Readback(c) ==
    /\ pc[c] = "readback"
    /\ \/ Settle(c, "false_positive", "ok")
       \/ Fail(c, "write_verification_failed")
    /\ UNCHANGED <<rows, pending, blocks, asks, kind, token, saw, tries>>

\* _close_block, which leaves a closed block alone, and _record_block.
MarkAgain(c) == blocks' = [blocks EXCEPT ![saw[c]].closed = due[c].what]
Mark(c) ==
    blocks' = IF blocks[saw[c]].closed = "open"
                THEN [blocks EXCEPT ![saw[c]].closed = due[c].what]
                ELSE blocks
\* A ghost: how many revisions the key had.
Log(c) ==
    blocks' = Append(blocks, [fp |-> GateFingerprint(c), rule |-> due[c].what,
                              closed |-> "open", at |-> Len(rows)])

Close(c) ==
    /\ pc[c] = "close"
    /\ Mark(c)
    /\ Finish(c, due[c].status)
    /\ due' = [due EXCEPT ![c] = NoDue]
    /\ UNCHANGED <<rows, pending, asks, kind, token, saw, tries>>

Record(c) ==
    /\ pc[c] = "record"
    /\ Log(c)
    /\ Finish(c, due[c].status)
    /\ due' = [due EXCEPT ![c] = NoDue]
    /\ UNCHANGED <<rows, pending, asks, kind, token, saw, tries>>

-----------------------------------------------------------------------------
(* Dropped connections, and the world around a call.                         *)

\* A call with an event_id runs again from its start, with the same token.
Drop(c) ==
    /\ IF req[c].event # NoEvent /\ tries[c] + 1 < ConnRetries
         THEN /\ tries' = [tries EXCEPT ![c] = @ + 1]
              /\ Goto(c, Entry(req[c]))
              /\ UNCHANGED ack
         ELSE Finish(c, "unavailable") /\ UNCHANGED tries
    /\ saw' = [saw EXCEPT ![c] = 0]
    /\ due' = [due EXCEPT ![c] = NoDue]
    /\ UNCHANGED <<asks, kind, token>>

InFlight(c) == pc[c] \notin {"idle", "done"}

Disconnect(c) ==
    /\ InFlight(c)
    /\ Drop(c)
    /\ UNCHANGED <<rows, pending, blocks>>

\* The statement committed and the client did not hear of it.
AckLost(c) ==
    /\ \/ pc[c] = "consume" /\ Spend(c) /\ UNCHANGED <<rows, blocks>>
       \/ pc[c] = "preview" /\ Issue(c) /\ UNCHANGED <<rows, blocks>>
       \/ pc[c] = "append" /\ SeenEvent(c) = {} /\ Land(c)
          /\ UNCHANGED <<pending, blocks>>
       \/ pc[c] = "close" /\ Mark(c) /\ UNCHANGED <<rows, pending>>
       \/ pc[c] = "record" /\ Log(c) /\ UNCHANGED <<rows, pending>>
    /\ Drop(c)

\* A statement is cancelled, or the process dies.
Abandon(c) ==
    /\ InFlight(c)
    /\ Finish(c, "unavailable")
    /\ saw' = [saw EXCEPT ![c] = 0]
    /\ due' = [due EXCEPT ![c] = NoDue]
    /\ UNCHANGED <<rows, pending, blocks, asks, kind, token, tries>>

\* CONFIRM_TTL_S passes for a token that is still good.
Expire(t) ==
    /\ ~pending[t].expired /\ ~pending[t].consumed
    /\ pending' = [pending EXCEPT ![t].expired = TRUE]
    /\ UNCHANGED <<rows, blocks, asks, pc, kind, token, saw, due, tries, ack>>

\* intent_open's INSERT: Tier 1 found a contradiction or it did not.
OpenIntent(s) ==
    /\ opened < MaxIntents
    /\ opened' = opened + 1
    /\ \E conflict \in BOOLEAN, scope \in Scopes :
         intent' = [intent EXCEPT ![s] = [conflict |-> conflict, scope |-> scope]]
    /\ UNCHANGED <<rows, pending, blocks, req, pc, kind, token, saw, due, tries, ack>>

Next ==
    \/ \E c \in Calls :
         \/ Start(c) \/ ReadKind(c) \/ FindBlock(c)
         \/ Consume(c) \/ CheckEvent(c) \/ Decide(c) \/ Preview(c)
         \/ Write(c) \/ Readback(c) \/ Close(c) \/ Record(c)
         \/ Disconnect(c) \/ AckLost(c) \/ Abandon(c)
    \/ \E t \in DOMAIN pending : Expire(t)
    \/ \E s \in Sessions : OpenIntent(s)

Spec == Init /\ [][Next]_vars

-----------------------------------------------------------------------------
(* Properties.                                                              *)

Statuses == {"none", "ok", "deduplicated_replay", "gate_preview", "gate_blocked",
             "gate_conflict", "idempotency_conflict", "write_conflict",
             "write_verification_failed", "unavailable"}

\* Types, and the links between calls, tokens and blocks.
TypeOK ==
    /\ \A i \in DOMAIN rows : /\ rows[i].by \in Calls
                              /\ rows[i].kind \in Kinds
                              /\ rows[i].token \in 0..Len(pending)
    /\ \A t \in DOMAIN pending : {pending[t].consumed, pending[t].expired} \subseteq BOOLEAN
    /\ \A b \in DOMAIN blocks :
         /\ blocks[b].closed \in {"open", "false_positive", "confirmed_correct"}
         /\ blocks[b].at \in 0..Len(rows)
    /\ \A s \in Sessions : intent[s] \in [conflict : BOOLEAN, scope : Scopes \cup {{}}]
    /\ opened \in 0..MaxIntents
    /\ \A c \in Calls :
         /\ kind[c] \in Kinds
         /\ token[c] \in 0..Len(pending)
         /\ saw[c] \in 0..Len(blocks)
         /\ pc[c] = "close" => saw[c] # 0
         /\ tries[c] \in 0..(ConnRetries - 1)
         /\ ack[c] \in Statuses

\* A confirm token writes at most one revision, of the operation its preview
\* showed, however its bearers race and retry.
TokenSpentOnce ==
    \A i \in DOMAIN rows : rows[i].token # 0 =>
      /\ pending[rows[i].token].consumed
      /\ pending[rows[i].token].fp = rows[i].op
      /\ \A j \in DOMAIN rows : rows[j].token = rows[i].token => j = i

\* No delete lands in a gated namespace but with a token or the operator's
\* override, in any run of its call.
DeletesAreConfirmed ==
    \A i \in DOMAIN rows :
      rows[i].tool = "memory_delete" => rows[i].token # 0 \/ rows[i].override

\* A block is found wrong only when its very operation has landed since.
FalsePositivesLanded ==
    \A b \in DOMAIN blocks : blocks[b].closed = "false_positive" =>
      \E i \in DOMAIN rows : i > blocks[b].at /\ rows[i].op = blocks[b].fp

\* Attempts that race to close one block do not overturn its verdict.
VerdictsFinal ==
    [][\A b \in DOMAIN blocks :
         blocks[b].closed # "open" => blocks'[b].closed = blocks[b].closed]_blocks

GateAnswers == {"gate_preview", "gate_blocked", "gate_conflict"}

\* What memory_delete's description says of a replay, that it returns the
\* original record: so no run of a call is told that nothing was persisted when
\* an earlier run persisted it.
ReplaysAreDeduplicated ==
    \A c \in Calls : ack[c] \in GateAnswers =>
      \A i \in DOMAIN rows : rows[i].by # c

\* What memory_delete's description says of an unresolved conflict: no delete
\* sets out to write while its session's intent has one, unless Tier 2 or the
\* operator lets it.
ConflictBlocksDelete ==
    [][\A c \in Calls :
         /\ pc[c] # "append" /\ pc'[c] = "append"
         /\ Contradicted(c)
         => req[c].override \/ Tier2 # {"off"}]_vars
=============================================================================
