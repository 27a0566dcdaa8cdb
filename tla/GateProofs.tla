------------------------------ MODULE GateProofs ------------------------------
(***************************************************************************)
(* Gate's safety, for any calls, workloads, sessions, kinds and retries.     *)
(***************************************************************************)
EXTENDS Gate, TLAPS, SequenceTheorems, WellFoundedInduction

-----------------------------------------------------------------------------
(* The inductive invariant.                                                 *)

Asked == {w[c] : w \in Workloads, c \in Calls}
ToolsAsked == {q.tool : q \in Asked}
Ops == ToolsAsked \X Kinds \X {q.payload : q \in Asked} \X (Sessions \cup {NoSession})
Rows == [tool : ToolsAsked, kind : Kinds, op : Ops, idem : Ops \X BOOLEAN,
         event : {q.event : q \in Asked}, by : Calls, token : Nat,
         override : BOOLEAN]
Tokens == [fp : Ops, consumed : BOOLEAN, expired : BOOLEAN]
Verdicts == {"false_positive", "confirmed_correct"}
Rules == {"confirm_invalid", "confirm_mismatch", "idempotency_conflict",
          "unresolved_conflict_destructive", "tier2_conflict"}
Blocks == [fp : Ops, rule : Rules, closed : Verdicts \cup {"open"}, at : Nat]
Points == {"idle", "readkind", "blocks", "consume", "seen", "decide", "preview",
           "append", "readback", "close", "record", "done"}

\* TypeOK, with what EXCEPT updates as functions and sequences.
Types ==
    /\ rows \in Seq(Rows)
    /\ pending \in Seq(Tokens)
    /\ blocks \in Seq(Blocks)
    /\ intent \in [Sessions -> [conflict : BOOLEAN, scope : Scopes \cup {{}}]]
    /\ opened \in 0..MaxIntents
    /\ req \in Workloads
    /\ pc \in [Calls -> Points]
    /\ kind \in [Calls -> Kinds]
    /\ token \in [Calls -> Nat]
    /\ saw \in [Calls -> Nat]
    /\ due \in [Calls -> [what : Rules \cup Verdicts \cup {"none"}, status : Statuses]]
    /\ tries \in [Calls -> 0..(ConnRetries - 1)]
    /\ ack \in [Calls -> Statuses]

\* The operation a block refused has landed after it.
Landed(b) ==
    \E i \in DOMAIN rows : i > blocks[b].at /\ rows[i].op = blocks[b].fp

\* Tokens reach the rows and the blocks' verdicts speak of them.
TablesOK ==
    /\ \A i \in DOMAIN rows : rows[i].token <= Len(pending)
    /\ \A b \in DOMAIN blocks : blocks[b].at <= Len(rows)
    /\ TokenSpentOnce
    /\ DeletesAreConfirmed
    /\ FalsePositivesLanded

\* A call at its write bears a token it has spent on this very operation, which
\* no row bears, or none, and then it is no delete unless overridden.
MayWrite(c) ==
    /\ token[c] # 0 =>
         /\ pending[token[c]].consumed
         /\ pending[token[c]].fp = GateFingerprint(c)
         /\ \A i \in DOMAIN rows : rows[i].token # token[c]
    /\ Destructive(c) => token[c] # 0 \/ req[c].override

CallOK(c) ==
    /\ token[c] <= Len(pending) /\ saw[c] <= Len(blocks)
    /\ ~req[c].confirms => token[c] = 0
    /\ pc[c] \in {"seen", "decide", "preview"} => token[c] = 0
    /\ saw[c] # 0 => /\ blocks[saw[c]].fp = GateFingerprint(c)
                     /\ pc[c] \notin {"idle", "readkind", "blocks"}
    /\ pc[c] = "append" => MayWrite(c)
    /\ pc[c] = "readback" /\ saw[c] # 0 => Landed(saw[c])
    /\ pc[c] = "close" =>
         /\ saw[c] # 0 /\ due[c].what \in Verdicts
         /\ due[c].what = "false_positive" => Landed(saw[c])
    /\ pc[c] = "record" => due[c].what \in Rules

\* No two calls write with one token.
OneBearer ==
    \A c, d \in Calls : c # d /\ pc[c] = "append" /\ pc[d] = "append" =>
      token[c] = 0 \/ token[c] # token[d]

IInv ==
    /\ Types
    /\ TablesOK
    /\ OneBearer
    /\ \A c \in Calls : CallOK(c)

-----------------------------------------------------------------------------
(* Sequences.                                                               *)

LEMMA AppendTo ==
    ASSUME NEW S, NEW s \in Seq(S), NEW e \in S, NEW t, t = Append(s, e)
    PROVE  /\ t \in Seq(S)
           /\ Len(t) = Len(s) + 1
           /\ DOMAIN t = DOMAIN s \cup {Len(s) + 1}
           /\ Len(s) \in Nat /\ DOMAIN s = 1..Len(s)
           /\ \A i \in DOMAIN s : t[i] = s[i]
           /\ t[Len(s) + 1] = e
<1>1. /\ t \in Seq(S)
      /\ Len(t) = Len(s) + 1
      /\ \A i \in 1..Len(s) : t[i] = s[i]
      /\ t[Len(s) + 1] = e
  BY AppendProperties
<1>2. Len(s) \in Nat /\ DOMAIN s = 1..Len(s) /\ DOMAIN t = 1..Len(t)
  BY <1>1, LenProperties
<1> QED
  BY <1>1, <1>2

LEMMA UpdateOf ==
    ASSUME NEW S, NEW s \in Seq(S), NEW i \in DOMAIN s, NEW e \in S,
           NEW t, t = [s EXCEPT ![i] = e]
    PROVE  /\ t \in Seq(S)
           /\ Len(t) = Len(s)
           /\ DOMAIN t = DOMAIN s
           /\ \A j \in DOMAIN s : j # i => t[j] = s[j]
           /\ t[i] = e
<1>1. /\ t \in Seq(S)
      /\ Len(t) = Len(s)
      /\ \A j \in 1..Len(s) : t[j] = IF j = i THEN e ELSE s[j]
  BY ExceptSeq
<1>2. DOMAIN s = 1..Len(s) /\ DOMAIN t = 1..Len(t)
  BY <1>1, LenProperties
<1> QED
  BY <1>1, <1>2

\* What the tables hold.
LEMMA TableIs ==
    ASSUME Types
    PROVE  /\ Len(rows) \in Nat /\ DOMAIN rows = 1..Len(rows)
           /\ Len(pending) \in Nat /\ DOMAIN pending = 1..Len(pending)
           /\ Len(blocks) \in Nat /\ DOMAIN blocks = 1..Len(blocks)
           /\ \A i \in DOMAIN rows : rows[i] \in Rows
           /\ \A t \in DOMAIN pending : pending[t] \in Tokens
           /\ \A b \in DOMAIN blocks : blocks[b] \in Blocks
BY ElementOfSeq, LenProperties DEF Types

\* A call's request, and the operation it asks for.
LEMMA AskedIs ==
    ASSUME Types, NEW c \in Calls
    PROVE  /\ req[c] \in Asked
           /\ GateFingerprint(c) \in Ops
           /\ IdemFingerprint(c) \in Ops \X BOOLEAN
           /\ req[c].preview \in BOOLEAN /\ req[c].override \in BOOLEAN
           /\ req[c].confirms \in BOOLEAN
           /\ req[c].session \in Sessions \cup {NoSession}
           /\ req[c].kind \in Kinds
<1>1. req[c] \in Asked
  BY DEF Types, Asked
<1>2. /\ req[c].session \in Sessions \cup {NoSession} /\ req[c].kind \in Kinds
      /\ {req[c].preview, req[c].override, req[c].confirms} \subseteq BOOLEAN
  BY GateAssumption DEF Types
<1>3. GateFingerprint(c) \in Ops
  BY <1>1, <1>2 DEF Types, GateFingerprint, Ops, ToolsAsked
<1> QED
  BY <1>1, <1>2, <1>3 DEF IdemFingerprint

-----------------------------------------------------------------------------
(* Types.                                                                   *)

\* A call's own variables after a step of the call.
Local(c) ==
    /\ \E p \in Points : Goto(c, p)
    /\ kind' \in [Calls -> Kinds]
    /\ token' \in [Calls -> Nat]
    /\ saw' \in [Calls -> Nat]
    /\ due' \in [Calls -> [what : Rules \cup Verdicts \cup {"none"}, status : Statuses]]
    /\ tries' \in [Calls -> 0..(ConnRetries - 1)]
    /\ ack' \in [Calls -> Statuses]
    /\ UNCHANGED asks

LEMMA LocalTypes ==
    ASSUME Types, NEW c \in Calls, Local(c), rows' \in Seq(Rows),
           pending' \in Seq(Tokens), blocks' \in Seq(Blocks)
    PROVE  Types'
<1>1. pc' \in [Calls -> Points]
  BY DEF Types, Local, Goto
<1> QED
  BY <1>1 DEF Types, Local, asks, Rows, Tokens, Blocks, Ops, ToolsAsked, Asked

LEMMA FinishTypes ==
    ASSUME Types, NEW c \in Calls, NEW s \in Statuses, Finish(c, s)
    PROVE  Goto(c, "done") /\ ack' \in [Calls -> Statuses]
BY DEF Types, Finish

LEMMA DueTypes ==
    ASSUME Types, NEW c \in Calls, NEW s \in Statuses,
           NEW w \in Rules \cup Verdicts \cup {"none"},
           due' = [due EXCEPT ![c] = [what |-> w, status |-> s]]
    PROVE  due' \in [Calls -> [what : Rules \cup Verdicts \cup {"none"}, status : Statuses]]
BY DEF Types

LEMMA BlockAsTypes ==
    ASSUME Types, NEW c \in Calls, NEW s \in Statuses, NEW r \in Rules, BlockAs(c, r, s)
    PROVE  /\ Goto(c, "record") /\ ack' \in [Calls -> Statuses]
           /\ due' \in [Calls -> [what : Rules \cup Verdicts \cup {"none"}, status : Statuses]]
BY DueTypes DEF Types, BlockAs

LEMMA CloseAsTypes ==
    ASSUME Types, NEW c \in Calls, NEW s \in Statuses, NEW v \in Verdicts, CloseAs(c, v, s)
    PROVE  /\ Goto(c, "close") /\ ack' \in [Calls -> Statuses]
           /\ due' \in [Calls -> [what : Rules \cup Verdicts \cup {"none"}, status : Statuses]]
BY DueTypes DEF Types, CloseAs

LEMMA SettleTypes ==
    ASSUME Types, NEW c \in Calls, NEW s \in Statuses, NEW v \in Verdicts, Settle(c, v, s)
    PROVE  /\ \E p \in {"close", "done"} : Goto(c, p)
           /\ ack' \in [Calls -> Statuses]
           /\ due' \in [Calls -> [what : Rules \cup Verdicts \cup {"none"}, status : Statuses]]
BY CloseAsTypes, FinishTypes DEF Types, Settle

LEMMA DropTypes ==
    ASSUME Types, NEW c \in Calls, Drop(c)
    PROVE  Local(c)
<1>1. /\ \E p \in Points : Goto(c, p)
      /\ ack' \in [Calls -> Statuses]
      /\ tries' \in [Calls -> 0..(ConnRetries - 1)]
  <2>1. Entry(req[c]) \in Points
    BY DEF Entry, Points
  <2>2. CASE /\ tries[c] + 1 < ConnRetries
             /\ tries' = [tries EXCEPT ![c] = @ + 1]
             /\ Goto(c, Entry(req[c]))
             /\ UNCHANGED ack
    BY <2>1, <2>2, GateAssumption DEF Types
  <2>3. CASE Finish(c, "unavailable") /\ UNCHANGED tries
    BY <2>3 DEF Types, Finish, Points, Statuses
  <2> QED
    BY <2>2, <2>3 DEF Drop
<1>2. saw' \in [Calls -> Nat] /\ kind' = kind /\ token' = token /\ UNCHANGED asks
  BY DEF Types, Drop
<1>3. due' \in [Calls -> [what : Rules \cup Verdicts \cup {"none"}, status : Statuses]]
  BY DueTypes DEF Drop, NoDue, Statuses
<1> QED
  BY <1>1, <1>2, <1>3 DEF Local, Types

\* The tables.
LEMMA SpendTypes ==
    ASSUME Types, NEW c \in Calls, token[c] <= Len(pending), Spend(c)
    PROVE  /\ pending' \in Seq(Tokens)
           /\ DOMAIN pending' = DOMAIN pending /\ Len(pending') = Len(pending)
           /\ \A t \in DOMAIN pending : t # token[c] => pending'[t] = pending[t]
           /\ token[c] \in DOMAIN pending =>
                /\ pending'[token[c]].fp = pending[token[c]].fp
                /\ pending[token[c]].consumed => pending'[token[c]].consumed
                /\ Valid(token[c]) => pending'[token[c]].consumed
<1>1. CASE Valid(token[c])
  <2>1. token[c] \in DOMAIN pending
    BY <1>1, TableIs DEF Valid, Types
  <2> DEFINE e == [pending[token[c]] EXCEPT !.consumed = TRUE]
  <2>2. e \in Tokens /\ e.fp = pending[token[c]].fp /\ e.consumed
    BY <2>1, TableIs DEF Tokens
  <2>3. pending' = [pending EXCEPT ![token[c]] = e]
    BY <1>1 DEF Spend
  <2> HIDE DEF e
  <2>4. /\ pending' \in Seq(Tokens)
        /\ Len(pending') = Len(pending) /\ DOMAIN pending' = DOMAIN pending
        /\ \A j \in DOMAIN pending : j # token[c] => pending'[j] = pending[j]
        /\ pending'[token[c]] = e
    BY <2>1, <2>2, <2>3, UpdateOf DEF Types
  <2> QED
    BY <2>2, <2>4
<1>2. CASE ~Valid(token[c])
  BY <1>2 DEF Spend, Types
<1> QED
  BY <1>1, <1>2

LEMMA IssueTypes ==
    ASSUME Types, NEW c \in Calls, Issue(c)
    PROVE  /\ pending' \in Seq(Tokens)
           /\ DOMAIN pending' = DOMAIN pending \cup {Len(pending) + 1}
           /\ Len(pending') = Len(pending) + 1
           /\ \A t \in DOMAIN pending : pending'[t] = pending[t]
<1> DEFINE e == [fp |-> GateFingerprint(c), consumed |-> FALSE, expired |-> FALSE]
<1>1. e \in Tokens
  BY AskedIs DEF Tokens
<1>2. pending' = Append(pending, e)
  BY DEF Issue
<1> HIDE DEF e
<1>3. pending \in Seq(Tokens)
  BY DEF Types
<1> QED
  BY <1>1, <1>2, <1>3, AppendTo

LEMMA LandTypes ==
    ASSUME Types, NEW c \in Calls, Land(c)
    PROVE  /\ rows' \in Seq(Rows)
           /\ DOMAIN rows' = DOMAIN rows \cup {Len(rows) + 1}
           /\ Len(rows') = Len(rows) + 1
           /\ \A i \in DOMAIN rows : rows'[i] = rows[i]
           /\ rows'[Len(rows) + 1].tool = req[c].tool
           /\ rows'[Len(rows) + 1].op = GateFingerprint(c)
           /\ rows'[Len(rows) + 1].token = token[c]
           /\ req[c].override => rows'[Len(rows) + 1].override
<1> DEFINE e == [tool |-> req[c].tool, kind |-> kind[c],
                 op |-> GateFingerprint(c), idem |-> IdemFingerprint(c),
                 event |-> req[c].event, by |-> c, token |-> token[c],
                 override |-> req[c].override]
<1>1. e \in Rows
  BY AskedIs DEF Rows, Types, ToolsAsked
<1>2. rows' = Append(rows, e)
  BY DEF Land
<1>3. /\ e.tool = req[c].tool /\ e.op = GateFingerprint(c) /\ e.token = token[c]
      /\ req[c].override => e.override
  OBVIOUS
<1> HIDE DEF e
<1>4. /\ rows' \in Seq(Rows)
      /\ DOMAIN rows' = DOMAIN rows \cup {Len(rows) + 1}
      /\ Len(rows') = Len(rows) + 1
      /\ \A i \in DOMAIN rows : rows'[i] = rows[i]
      /\ rows'[Len(rows) + 1] = e
  BY <1>1, <1>2, AppendTo DEF Types
<1> QED
  BY <1>3, <1>4

\* A verdict is given to an open block only.
LEMMA MarkTypes ==
    ASSUME Types, NEW c \in Calls, saw[c] \in DOMAIN blocks,
           due[c].what \in Verdicts, Mark(c)
    PROVE  /\ blocks' \in Seq(Blocks)
           /\ DOMAIN blocks' = DOMAIN blocks /\ Len(blocks') = Len(blocks)
           /\ \A b \in DOMAIN blocks :
                /\ blocks'[b].fp = blocks[b].fp
                /\ blocks'[b].at = blocks[b].at
                /\ blocks[b].closed # "open" => blocks'[b].closed = blocks[b].closed
                /\ \/ blocks'[b].closed = blocks[b].closed
                   \/ b = saw[c] /\ blocks'[b].closed = due[c].what
<1>1. CASE blocks[saw[c]].closed = "open"
  <2> DEFINE e == [blocks[saw[c]] EXCEPT !.closed = due[c].what]
  <2>1. /\ e \in Blocks /\ e.fp = blocks[saw[c]].fp /\ e.at = blocks[saw[c]].at
        /\ e.closed = due[c].what
    BY TableIs DEF Blocks
  <2>2. blocks' = [blocks EXCEPT ![saw[c]] = e]
    BY <1>1 DEF Mark
  <2> HIDE DEF e
  <2>3. /\ blocks' \in Seq(Blocks)
        /\ Len(blocks') = Len(blocks) /\ DOMAIN blocks' = DOMAIN blocks
        /\ \A j \in DOMAIN blocks : j # saw[c] => blocks'[j] = blocks[j]
        /\ blocks'[saw[c]] = e
    BY <2>1, <2>2, UpdateOf DEF Types
  <2> QED
    BY <1>1, <2>1, <2>3
<1>2. CASE blocks[saw[c]].closed # "open"
  BY <1>2 DEF Mark, Types
<1> QED
  BY <1>1, <1>2

LEMMA LogTypes ==
    ASSUME Types, NEW c \in Calls, due[c].what \in Rules, Log(c)
    PROVE  /\ blocks' \in Seq(Blocks)
           /\ DOMAIN blocks' = DOMAIN blocks \cup {Len(blocks) + 1}
           /\ Len(blocks') = Len(blocks) + 1
           /\ \A b \in DOMAIN blocks : blocks'[b] = blocks[b]
           /\ blocks'[Len(blocks) + 1].closed = "open"
           /\ blocks'[Len(blocks) + 1].at = Len(rows)
<1> DEFINE e == [fp |-> GateFingerprint(c), rule |-> due[c].what,
                 closed |-> "open", at |-> Len(rows)]
<1>1. e \in Blocks /\ e.closed = "open" /\ e.at = Len(rows)
  BY AskedIs, TableIs DEF Blocks
<1>2. blocks' = Append(blocks, e)
  BY DEF Log
<1> HIDE DEF e
<1>3. /\ blocks' \in Seq(Blocks)
      /\ DOMAIN blocks' = DOMAIN blocks \cup {Len(blocks) + 1}
      /\ Len(blocks') = Len(blocks) + 1
      /\ \A b \in DOMAIN blocks : blocks'[b] = blocks[b]
      /\ blocks'[Len(blocks) + 1] = e
  BY <1>1, <1>2, AppendTo DEF Types
<1> QED
  BY <1>1, <1>3

-----------------------------------------------------------------------------
(* Frames.                                                                  *)

\* The tables only grow, spend and close.
Extends ==
    /\ Len(rows) <= Len(rows') /\ Len(pending) <= Len(pending')
    /\ Len(blocks) <= Len(blocks')
    /\ \A i \in DOMAIN rows : i \in DOMAIN rows' /\ rows'[i] = rows[i]
    /\ \A t \in DOMAIN pending :
         /\ t \in DOMAIN pending'
         /\ pending'[t].fp = pending[t].fp
         /\ pending[t].consumed => pending'[t].consumed
    /\ \A b \in DOMAIN blocks :
         /\ b \in DOMAIN blocks'
         /\ blocks'[b].fp = blocks[b].fp
         /\ blocks'[b].at = blocks[b].at

\* What CallOK reads of a call.
Same(d) ==
    /\ pc'[d] = pc[d] /\ kind'[d] = kind[d] /\ token'[d] = token[d]
    /\ saw'[d] = saw[d] /\ due'[d] = due[d] /\ req'[d] = req[d]
Others(c) == \A d \in Calls \ {c} : Same(d)

LEMMA LandedStays ==
    ASSUME Types, Extends, NEW b \in DOMAIN blocks, Landed(b)
    PROVE  Landed(b)'
BY DEF Extends, Landed

\* A step that leaves a call alone leaves it in order, unless a row takes its
\* token.
LEMMA CallStays ==
    ASSUME IInv, Types', Extends, NEW d \in Calls, Same(d),
           pc[d] = "append" /\ token[d] # 0 =>
             \A i \in DOMAIN rows' : rows'[i].token = token[d] => i \in DOMAIN rows
    PROVE  CallOK(d)'
<1>1. Types /\ CallOK(d)
  BY DEF IInv
<1>2. /\ GateFingerprint(d)' = GateFingerprint(d)
      /\ Destructive(d)' <=> Destructive(d)
  BY DEF Same, GateFingerprint, Destructive
<1>3. token'[d] <= Len(pending') /\ saw'[d] <= Len(blocks')
  <2>1. /\ token[d] \in Nat /\ saw[d] \in Nat
        /\ Len(pending') \in Nat /\ Len(blocks') \in Nat
    BY <1>1, LenProperties DEF Types
  <2> QED
    BY <1>1, <2>1, TableIs DEF CallOK, Same, Extends
<1>4. saw[d] # 0 => saw[d] \in DOMAIN blocks
  BY <1>1, TableIs DEF CallOK, Types
<1>5. token[d] # 0 => token[d] \in DOMAIN pending
  BY <1>1, TableIs DEF CallOK, Types
<1>6. PICK b : b = saw[d]
  OBVIOUS
<1>9. b # 0 /\ Landed(b) => Landed(b)'
  BY <1>1, <1>4, <1>6, LandedStays
<1>7. saw'[d] # 0 => blocks'[saw'[d]].fp = GateFingerprint(d)'
  BY <1>1, <1>2, <1>4 DEF CallOK, Same, Extends
<1>8. pc[d] = "append" => MayWrite(d)'
  <2>1. ASSUME pc[d] = "append", token[d] # 0
        PROVE  /\ pending'[token[d]].consumed
               /\ pending'[token[d]].fp = GateFingerprint(d)
               /\ \A i \in DOMAIN rows' : rows'[i].token # token[d]
    BY <1>1, <1>5, <2>1 DEF CallOK, MayWrite, Extends
  <2> QED
    BY <1>1, <1>2, <2>1 DEF CallOK, MayWrite, Same
<1>10. saw[d] # 0 /\ Landed(saw[d]) => Landed(saw[d])'
  BY <1>6, <1>9 DEF Same, Landed
<1> QED
  BY <1>1, <1>3, <1>7, <1>8, <1>10 DEF CallOK, Same

\* A call that ends or starts again.
Resting(c) ==
    /\ req'[c] = req[c] /\ token'[c] = token[c] /\ kind'[c] = kind[c]
    /\ \/ pc'[c] \in {"readkind", "blocks", "done"} /\ saw'[c] = 0
       \/ pc'[c] = "done" /\ saw'[c] = saw[c]

LEMMA CallRests ==
    ASSUME IInv, Types', Extends, NEW c \in Calls, Resting(c)
    PROVE  CallOK(c)'
<1>1. Types /\ CallOK(c)
  BY DEF IInv
<1>2. GateFingerprint(c)' = GateFingerprint(c)
  BY DEF Resting, GateFingerprint
<1>3. token'[c] <= Len(pending') /\ saw'[c] <= Len(blocks')
  <2>1. /\ token[c] \in Nat /\ saw[c] \in Nat
        /\ Len(pending) \in Nat /\ Len(blocks) \in Nat
        /\ Len(pending') \in Nat /\ Len(blocks') \in Nat
    BY <1>1, LenProperties DEF Types
  <2> QED
    BY <1>1, <2>1 DEF CallOK, Resting, Extends
<1>4. saw'[c] # 0 => /\ saw'[c] = saw[c] /\ saw[c] \in DOMAIN blocks
                     /\ pc'[c] = "done"
  BY <1>1, TableIs DEF CallOK, Types, Resting
<1>5. saw'[c] # 0 => blocks'[saw'[c]].fp = GateFingerprint(c)'
  BY <1>1, <1>2, <1>4 DEF CallOK, Extends
<1> QED
  BY <1>1, <1>3, <1>4, <1>5 DEF CallOK, Resting

LEMMA BearersStay ==
    ASSUME IInv, NEW c \in Calls, Others(c),
           pc'[c] = "append" /\ token'[c] # 0 =>
             \/ pc[c] = "append" /\ token'[c] = token[c]
             \/ \A d \in Calls : pc[d] = "append" => token[d] # token'[c]
    PROVE  OneBearer'
BY DEF IInv, OneBearer, Others, Same

\* No row is written, and a block is found wrong only if its operation landed.
LEMMA TablesStay ==
    ASSUME IInv, Types', Extends, rows' = rows,
           \A b \in DOMAIN blocks' :
             \/ /\ b \in DOMAIN blocks
                /\ \/ blocks'[b].closed = blocks[b].closed
                   \/ blocks'[b].closed = "false_positive" => Landed(b)
             \/ blocks'[b].closed = "open" /\ blocks'[b].at <= Len(rows)
    PROVE  TablesOK'
<1>1. Types /\ TablesOK
  BY DEF IInv
<1>2. \A i \in DOMAIN rows : rows'[i].token <= Len(pending')
  <2>1. \A i \in DOMAIN rows : rows[i].token \in Nat /\ rows[i].token <= Len(pending)
    BY <1>1, TableIs DEF TablesOK, Rows
  <2>2. Len(pending) \in Nat /\ Len(pending') \in Nat
    BY <1>1, LenProperties DEF Types
  <2> QED
    BY <2>1, <2>2 DEF Extends
<1>3. \A b \in DOMAIN blocks' : blocks'[b].at <= Len(rows')
  BY <1>1 DEF TablesOK, Extends
<1>4. TokenSpentOnce'
  <2>1. ASSUME NEW i \in DOMAIN rows, rows[i].token # 0
        PROVE  rows[i].token \in DOMAIN pending
    BY <1>1, <2>1, TableIs DEF TablesOK, Rows
  <2> QED
    BY <1>1, <2>1 DEF TablesOK, TokenSpentOnce, Extends
<1>5. DeletesAreConfirmed'
  BY <1>1 DEF TablesOK, DeletesAreConfirmed
<1>6. FalsePositivesLanded'
  <2> SUFFICES ASSUME NEW b \in DOMAIN blocks', blocks'[b].closed = "false_positive"
               PROVE  \E i \in DOMAIN rows' :
                        i > blocks'[b].at /\ rows'[i].op = blocks'[b].fp
    BY DEF FalsePositivesLanded
  <2>1. b \in DOMAIN blocks
    OBVIOUS
  <2>2. Landed(b)
    BY <1>1, <2>1 DEF TablesOK, FalsePositivesLanded, Landed
  <2> QED
    BY <2>1, <2>2 DEF Landed, Extends
<1> QED
  BY <1>2, <1>3, <1>4, <1>5, <1>6 DEF TablesOK

\* A call writes its row.
LEMMA TablesGrow ==
    ASSUME IInv, NEW c \in Calls, pc[c] = "append", Land(c),
           UNCHANGED <<pending, blocks>>
    PROVE  TablesOK'
<1>1. Types /\ TablesOK /\ CallOK(c) /\ MayWrite(c)
  BY DEF IInv, CallOK
<1> DEFINE n == Len(rows) + 1
<1>2. /\ DOMAIN rows' = DOMAIN rows \cup {n} /\ Len(rows') = n
      /\ \A i \in DOMAIN rows : rows'[i] = rows[i]
      /\ rows'[n].tool = req[c].tool /\ rows'[n].op = GateFingerprint(c)
      /\ rows'[n].token = token[c]
      /\ req[c].override => rows'[n].override
  BY <1>1, LandTypes
<1>8. n \notin DOMAIN rows
  BY <1>1, TableIs
<1> HIDE DEF n
<1>3. \A i \in DOMAIN rows' : rows'[i].token <= Len(pending')
  BY <1>1, <1>2 DEF TablesOK, CallOK
<1>4. \A b \in DOMAIN blocks' : blocks'[b].at <= Len(rows')
  <2>1. \A b \in DOMAIN blocks : blocks[b].at \in Nat /\ blocks[b].at <= Len(rows)
    BY <1>1, TableIs DEF TablesOK, Blocks
  <2>2. Len(rows') = Len(rows) + 1 /\ Len(rows) \in Nat
    BY <1>1, <1>2, TableIs DEF n
  <2> QED
    BY <2>1, <2>2
<1>5. TokenSpentOnce'
  BY <1>1, <1>2, <1>8 DEF TablesOK, TokenSpentOnce, MayWrite
<1>6. DeletesAreConfirmed'
  BY <1>1, <1>2 DEF TablesOK, DeletesAreConfirmed, MayWrite, Destructive
<1>7. FalsePositivesLanded'
  BY <1>1, <1>2 DEF TablesOK, FalsePositivesLanded
<1> QED
  BY <1>3, <1>4, <1>5, <1>6, <1>7 DEF TablesOK

-----------------------------------------------------------------------------
(* Steps that leave the tables alone.                                        *)

LEMMA Greatest ==
    ASSUME NEW n \in Nat, NEW S \in SUBSET (1..n), S # {}
    PROVE  \E m \in S : \A k \in S : k <= m
<1> DEFINE T == {n - k : k \in S}
<1>1. T \subseteq Nat /\ T # {}
  <2>1. \A k \in S : n - k \in Nat
    OBVIOUS
  <2>2. PICK k \in S : TRUE
    OBVIOUS
  <2> QED
    BY <2>1, <2>2
<1>2. PICK x \in T : \A y \in T : ~(<<y, x>> \in OpToRel(<, Nat))
  BY <1>1, NatLessThanWellFounded, WFMin
<1>3. \A y \in T : ~(y < x)
  BY <1>1, <1>2 DEF OpToRel
<1>4. PICK m \in S : x = n - m
  BY <1>2
<1>5. \A k \in S : k <= m
  BY <1>3, <1>4
<1> QED
  BY <1>5

Quiet == UNCHANGED <<rows, pending, blocks>>

LEMMA QuietExtends ==
    ASSUME Types, Quiet
    PROVE  /\ Extends
           /\ rows' \in Seq(Rows) /\ pending' \in Seq(Tokens) /\ blocks' \in Seq(Blocks)
BY TableIs DEF Types, Quiet, Extends

LEMMA QuietStep ==
    ASSUME IInv, Quiet, NEW c \in Calls, Local(c), Others(c), CallOK(c)',
           pc'[c] = "append" /\ token'[c] # 0 =>
             \/ pc[c] = "append" /\ token'[c] = token[c]
             \/ \A d \in Calls : pc[d] = "append" => token[d] # token'[c]
    PROVE  IInv'
<1>1. Types' /\ Extends
  BY QuietExtends, LocalTypes DEF IInv
<1>2. TablesOK'
  BY <1>1, TablesStay DEF Quiet
<1>3. OneBearer'
  BY BearersStay
<1>4. \A d \in Calls \ {c} : CallOK(d)'
  BY <1>1, CallStays DEF Others, Quiet
<1> QED
  BY <1>1, <1>2, <1>3, <1>4 DEF IInv

\* ... and after which the call is at rest.
LEMMA QuietRest ==
    ASSUME IInv, Quiet, NEW c \in Calls, Local(c), Others(c), Resting(c)
    PROVE  IInv'
<1>1. Types' /\ Extends
  BY QuietExtends, LocalTypes DEF IInv
<1>2. CallOK(c)'
  BY <1>1, CallRests
<1> QED
  BY <1>2, QuietStep DEF Resting

LEMMA StartStep ==
    ASSUME IInv, NEW c \in Calls, Start(c)
    PROVE  IInv'
<1>1. Types /\ CallOK(c)
  BY DEF IInv
<1>2. PICK t \in 0..Len(pending) :
        token' = [token EXCEPT ![c] = t] /\ (~req[c].confirms => t = 0)
  <2>1. PICK t \in IF req[c].confirms THEN 0..Len(pending) ELSE {0} :
          token' = [token EXCEPT ![c] = t]
    BY DEF Start
  <2>2. t \in 0..Len(pending) /\ (~req[c].confirms => t = 0)
    BY <1>1, TableIs, AskedIs
  <2> QED
    BY <2>1, <2>2
<1>3. Local(c) /\ Others(c) /\ Quiet
  <2>1. token' \in [Calls -> Nat]
    BY <1>1, <1>2 DEF Types
  <2>2. Entry(req[c]) \in Points
    BY DEF Entry, Points
  <2> QED
    BY <1>1, <1>2, <2>1, <2>2 DEF Start, Types, Local, Others, Same, Quiet, Goto, asks
<1>4. /\ pc'[c] \in {"readkind", "blocks"} /\ token'[c] = t
      /\ saw'[c] = 0 /\ req' = req /\ pending' = pending
  BY <1>1, <1>2 DEF Start, Types, CallOK, Goto, Entry, asks
<1>5. CallOK(c)'
  BY <1>1, <1>2, <1>4, TableIs DEF CallOK, Start
<1> QED
  BY <1>3, <1>4, <1>5, QuietStep

LEMMA ReadKindStep ==
    ASSUME IInv, NEW c \in Calls, ReadKind(c)
    PROVE  IInv'
<1>1. Types /\ CallOK(c)
  BY DEF IInv
<1>2. kind' \in [Calls -> Kinds]
  <2>1. rows # <<>> => rows[Len(rows)].kind \in Kinds
    <3>1. rows # <<>> => Len(rows) \in DOMAIN rows
      BY <1>1, TableIs, EmptySeq DEF Types
    <3> QED
      BY <1>1, <3>1, TableIs DEF Rows
  <2> QED
    BY <1>1, <2>1, GateAssumption DEF ReadKind, Types
<1>3. Local(c) /\ Others(c) /\ Quiet
  BY <1>1, <1>2 DEF ReadKind, Types, Local, Others, Same, Quiet, Goto, asks, Points
<1>4. /\ pc'[c] = "blocks" /\ token' = token
      /\ saw'[c] = 0 /\ req' = req /\ pending' = pending
  BY <1>1 DEF ReadKind, Types, CallOK, Goto, asks
<1>5. CallOK(c)'
  BY <1>1, <1>4, TableIs DEF CallOK, ReadKind
<1> QED
  BY <1>3, <1>4, <1>5, QuietStep

LEMMA FindBlockStep ==
    ASSUME IInv, NEW c \in Calls, FindBlock(c)
    PROVE  IInv'
<1>1. Types /\ CallOK(c)
  BY DEF IInv
<1>2. PICK b \in 0..Len(blocks) :
        /\ saw' = [saw EXCEPT ![c] = b]
        /\ b # 0 => blocks[b].fp = GateFingerprint(c)
  <2>1. CASE OpenBlocks(c) = {}
    <3>1. saw' = [saw EXCEPT ![c] = 0] /\ 0 \in 0..Len(blocks)
      BY <1>1, <2>1, TableIs DEF FindBlock
    <3> QED
      BY <3>1
  <2>2. CASE OpenBlocks(c) # {}
    <3>1. OpenBlocks(c) \subseteq 1..Len(blocks) /\ Len(blocks) \in Nat
      BY <1>1, TableIs DEF OpenBlocks
    <3>2. \E b \in OpenBlocks(c) : \A d \in OpenBlocks(c) : d <= b
      BY <2>2, <3>1, Greatest
    <3> DEFINE b == CHOOSE e \in OpenBlocks(c) : \A d \in OpenBlocks(c) : d <= e
    <3>3. b \in OpenBlocks(c)
      BY <3>2
    <3>4. saw' = [saw EXCEPT ![c] = b]
      BY <2>2 DEF FindBlock
    <3> HIDE DEF b
    <3>5. b \in 0..Len(blocks) /\ blocks[b].fp = GateFingerprint(c)
      BY <3>1, <3>3 DEF OpenBlocks
    <3> QED
      BY <3>4, <3>5
  <2> QED
    BY <2>1, <2>2
<1>3. saw' \in [Calls -> Nat]
  BY <1>1, <1>2, TableIs DEF Types
<1>4. Local(c) /\ Others(c) /\ Quiet
  BY <1>1, <1>2, <1>3
  DEF FindBlock, Types, Local, Others, Same, Quiet, Goto, asks, Points
<1>5. /\ pc'[c] \in {"consume", "seen", "decide"}
      /\ pc'[c] # "consume" => ~req[c].confirms
      /\ saw'[c] = b /\ token' = token /\ UNCHANGED <<kind, req, blocks, pending>>
  BY <1>1, <1>2 DEF FindBlock, Types, Goto, asks
<1>6. GateFingerprint(c)' = GateFingerprint(c)
  BY <1>5 DEF GateFingerprint
<1>7. CallOK(c)'
  BY <1>1, <1>2, <1>5, <1>6, TableIs DEF CallOK
<1> QED
  BY <1>4, <1>5, <1>7, QuietStep

\* A call moves on with its request, its kind, its token and its block.
Stays == UNCHANGED <<kind, token, saw, asks>>

LEMMA CallMoves ==
    ASSUME IInv, Quiet, Stays, NEW c \in Calls,
           {pc[c], pc'[c]} \cap {"idle", "readkind", "blocks"} = {},
           pc'[c] \in {"seen", "decide", "preview"} => token[c] = 0,
           pc'[c] = "append" => MayWrite(c),
           pc'[c] = "readback" /\ saw[c] # 0 => Landed(saw[c]),
           pc'[c] = "close" =>
             /\ saw[c] # 0 /\ due'[c].what \in Verdicts
             /\ due'[c].what = "false_positive" => Landed(saw[c]),
           pc'[c] = "record" => due'[c].what \in Rules
    PROVE  CallOK(c)'
<1>1. CallOK(c)
  BY DEF IInv
<1>2. /\ req' = req /\ kind' = kind /\ token' = token /\ saw' = saw
      /\ rows' = rows /\ pending' = pending /\ blocks' = blocks
  BY DEF Quiet, Stays, asks
<1>3. GateFingerprint(c)' = GateFingerprint(c) /\ (Destructive(c)' <=> Destructive(c))
  BY <1>2 DEF GateFingerprint, Destructive
<1>4. MayWrite(c) => MayWrite(c)'
  BY <1>2, <1>3 DEF MayWrite
<1>5. saw[c] # 0 /\ Landed(saw[c]) => Landed(saw[c])'
  BY <1>2 DEF Landed
<1> QED
  BY <1>1, <1>2, <1>3, <1>4, <1>5 DEF CallOK

\* The call's points after a step, and the other calls'.
LEMMA Moves ==
    ASSUME Types, NEW c \in Calls
    PROVE  /\ \A p : Goto(c, p) => /\ pc'[c] = p
                                  /\ \A d \in Calls \ {c} : pc'[d] = pc[d]
           /\ \A r, s : BlockAs(c, r, s) =>
                /\ pc'[c] = "record" /\ due'[c].what = r
                /\ \A d \in Calls \ {c} : pc'[d] = pc[d] /\ due'[d] = due[d]
           /\ \A v, s : CloseAs(c, v, s) =>
                /\ pc'[c] = "close" /\ due'[c].what = v
                /\ \A d \in Calls \ {c} : pc'[d] = pc[d] /\ due'[d] = due[d]
           /\ \A s : Finish(c, s) =>
                /\ pc'[c] = "done"
                /\ \A d \in Calls \ {c} : pc'[d] = pc[d]
<1>1. ASSUME NEW p, Goto(c, p)
      PROVE  pc'[c] = p /\ \A d \in Calls \ {c} : pc'[d] = pc[d]
  BY <1>1 DEF Types, Goto
<1>2. ASSUME NEW r, NEW s, BlockAs(c, r, s)
      PROVE  due'[c].what = r /\ \A d \in Calls \ {c} : due'[d] = due[d]
  BY <1>2 DEF Types, BlockAs
<1>3. ASSUME NEW v, NEW s, CloseAs(c, v, s)
      PROVE  due'[c].what = v /\ \A d \in Calls \ {c} : due'[d] = due[d]
  BY <1>3 DEF Types, CloseAs
<1> QED
  BY <1>1, <1>2, <1>3 DEF BlockAs, CloseAs, Finish

LEMMA SettleMoves ==
    ASSUME Types, NEW c \in Calls, NEW v, NEW s, Settle(c, v, s)
    PROVE  /\ \/ pc'[c] = "close" /\ due'[c].what = v /\ saw[c] # 0
              \/ pc'[c] = "done"
           /\ \A d \in Calls \ {c} : pc'[d] = pc[d] /\ due'[d] = due[d]
BY Moves DEF Settle

LEMMA CheckEventStep ==
    ASSUME IInv, NEW c \in Calls, CheckEvent(c)
    PROVE  IInv'
<1>1. Types /\ CallOK(c) /\ pc[c] = "seen" /\ Quiet /\ Stays /\ UNCHANGED tries
  BY DEF IInv, CheckEvent, Quiet, Stays, asks
<1>2. CASE saw[c] # 0 /\ CloseAs(c, "confirmed_correct", "idempotency_conflict")
  <2>1. Local(c) /\ Others(c)
    BY <1>1, <1>2, CloseAsTypes, Moves
    DEF Local, Others, Same, Stays, asks, Types, Points, Statuses, Verdicts
  <2>2. pc'[c] = "close" /\ due'[c].what = "confirmed_correct"
    BY <1>1, <1>2, Moves
  <2>3. CallOK(c)'
    BY <1>1, <1>2, <2>2, CallMoves DEF Verdicts
  <2> QED
    BY <1>1, <2>1, <2>2, <2>3, QuietStep
<1>3. CASE BlockAs(c, "idempotency_conflict", "idempotency_conflict")
  <2>1. Local(c) /\ Others(c)
    BY <1>1, <1>3, BlockAsTypes, Moves
    DEF Local, Others, Same, Stays, asks, Types, Points, Statuses, Rules
  <2>2. pc'[c] = "record" /\ due'[c].what = "idempotency_conflict"
    BY <1>1, <1>3, Moves
  <2>3. CallOK(c)'
    BY <1>1, <2>2, CallMoves DEF Rules
  <2> QED
    BY <1>1, <2>1, <2>2, <2>3, QuietStep
<1>4. CASE Goto(c, "decide") /\ UNCHANGED <<due, ack>>
  <2>1. Local(c) /\ Others(c)
    BY <1>1, <1>4, Moves DEF Local, Others, Same, Stays, asks, Types, Points
  <2>2. pc'[c] = "decide"
    BY <1>1, <1>4, Moves
  <2>3. CallOK(c)'
    BY <1>1, <2>2, CallMoves DEF CallOK
  <2> QED
    BY <1>1, <2>1, <2>2, <2>3, QuietStep
<1> QED
  BY <1>2, <1>3, <1>4 DEF CheckEvent

\* A call decides with no token, so what it may write unconfirmed is no delete.
LEMMA DecideStep ==
    ASSUME IInv, NEW c \in Calls, Decide(c)
    PROVE  IInv'
<1>1. /\ Types /\ CallOK(c) /\ pc[c] = "decide" /\ Quiet /\ Stays /\ UNCHANGED tries
      /\ token[c] = 0
  BY DEF IInv, CallOK, Decide, Quiet, Stays, asks
<1>2. CASE /\ req[c].override \/ ~TwoPhase(c)
           /\ Goto(c, "append") /\ UNCHANGED <<due, ack>>
  <2>1. Local(c) /\ Others(c)
    BY <1>1, <1>2, Moves DEF Local, Others, Same, Stays, asks, Types, Points
  <2>2. pc'[c] = "append" /\ MayWrite(c) /\ token'[c] = 0
    BY <1>1, <1>2, Moves DEF MayWrite, TwoPhase, Stays
  <2>3. CallOK(c)'
    BY <1>1, <2>2, CallMoves
  <2> QED
    BY <1>1, <2>1, <2>2, <2>3, QuietStep
<1>3. CASE Goto(c, "preview") /\ UNCHANGED <<due, ack>>
  <2>1. Local(c) /\ Others(c)
    BY <1>1, <1>3, Moves DEF Local, Others, Same, Stays, asks, Types, Points
  <2>2. pc'[c] = "preview"
    BY <1>1, <1>3, Moves
  <2>3. CallOK(c)'
    BY <1>1, <2>2, CallMoves
  <2> QED
    BY <1>1, <2>1, <2>2, <2>3, QuietStep
<1>4. ASSUME NEW r \in Rules, NEW s \in Statuses, BlockAs(c, r, s)
      PROVE  IInv'
  <2>1. Local(c) /\ Others(c)
    BY <1>1, <1>4, BlockAsTypes, Moves
    DEF Local, Others, Same, Stays, asks, Types, Points
  <2>2. pc'[c] = "record" /\ due'[c].what = r
    BY <1>1, <1>4, Moves
  <2>3. CallOK(c)'
    BY <1>1, <2>2, CallMoves
  <2> QED
    BY <1>1, <2>1, <2>2, <2>3, QuietStep
<1> QED
  BY <1>2, <1>3, <1>4 DEF Decide, Rules, Statuses

\* What follows the write: an open block is closed, or not.
LEMMA SettleStep ==
    ASSUME IInv, NEW c \in Calls, pc[c] \in {"append", "readback"}, Quiet, Stays,
           UNCHANGED tries,
           NEW v \in Verdicts, NEW s \in Statuses, Settle(c, v, s),
           v = "false_positive" => pc[c] = "readback"
    PROVE  IInv'
<1>1. Types /\ CallOK(c)
  BY DEF IInv
<1>2. Local(c) /\ Others(c)
  BY <1>1, SettleTypes, SettleMoves
  DEF Local, Others, Same, Stays, asks, Types, Points
<1>3. \/ pc'[c] = "close" /\ due'[c].what = v /\ saw[c] # 0
      \/ pc'[c] = "done"
  BY <1>1, SettleMoves
<1>4. CallOK(c)'
  BY <1>1, <1>3, CallMoves DEF CallOK
<1> QED
  BY <1>2, <1>3, <1>4, QuietStep

LEMMA ReadbackStep ==
    ASSUME IInv, NEW c \in Calls, Readback(c)
    PROVE  IInv'
<1>1. pc[c] = "readback" /\ Quiet /\ Stays /\ UNCHANGED tries
  BY DEF Readback, Quiet, Stays, asks
<1> QED
  BY <1>1, SettleStep DEF Readback, Fail, Verdicts, Statuses

\* The row a call writes takes its token, which no other call may write with.
LEMMA LandStep ==
    ASSUME IInv, NEW c \in Calls, pc[c] = "append", Land(c),
           UNCHANGED <<pending, blocks>>, Local(c), Others(c),
           pc'[c] # "append", Types' /\ Extends => CallOK(c)'
    PROVE  IInv'
<1>1. Types /\ OneBearer
  BY DEF IInv
<1>2. /\ rows' \in Seq(Rows) /\ Len(rows') = Len(rows) + 1
      /\ DOMAIN rows' = DOMAIN rows \cup {Len(rows) + 1}
      /\ \A i \in DOMAIN rows : rows'[i] = rows[i]
      /\ rows'[Len(rows) + 1].token = token[c]
  BY <1>1, LandTypes
<1>3. Types'
  BY <1>1, <1>2, LocalTypes DEF Types
<1>4. Extends
  BY <1>1, <1>2, TableIs DEF Extends
<1>5. TablesOK'
  BY TablesGrow
<1>6. OneBearer'
  BY BearersStay
<1>7. ASSUME NEW d \in Calls \ {c}
      PROVE  CallOK(d)'
  <2>1. pc[d] = "append" /\ token[d] # 0 => token[d] # token[c]
    BY <1>1, <1>7 DEF OneBearer
  <2>2. pc[d] = "append" /\ token[d] # 0 =>
          \A i \in DOMAIN rows' : rows'[i].token = token[d] => i \in DOMAIN rows
    BY <1>2, <2>1
  <2> QED
    BY <1>3, <1>4, <2>2, CallStays DEF Others
<1> QED
  BY <1>3, <1>4, <1>5, <1>6, <1>7 DEF IInv

LEMMA WriteStep ==
    ASSUME IInv, NEW c \in Calls, Write(c)
    PROVE  IInv'
<1>1. /\ Types /\ TablesOK /\ CallOK(c) /\ pc[c] = "append" /\ Stays
      /\ UNCHANGED <<pending, blocks, tries>>
  BY DEF IInv, Write, Stays, asks
<1>2. CASE Land(c) /\ Goto(c, "readback") /\ UNCHANGED <<due, ack>>
  <2>1. Local(c) /\ Others(c)
    BY <1>1, <1>2, Moves DEF Local, Others, Same, Stays, asks, Types, Points
  <2>2. /\ pc'[c] = "readback" /\ req' = req /\ kind' = kind /\ token' = token
        /\ saw' = saw /\ pending' = pending /\ blocks' = blocks
    BY <1>1, <1>2, Moves DEF Stays, asks
  <2>3. GateFingerprint(c)' = GateFingerprint(c)
    BY <2>2 DEF GateFingerprint
  <2>4. saw[c] # 0 => Landed(saw[c])'
    <3>1. /\ Len(rows) + 1 \in DOMAIN rows'
          /\ rows'[Len(rows) + 1].op = GateFingerprint(c)
      BY <1>1, <1>2, LandTypes
    <3>2. saw[c] # 0 => /\ saw[c] \in DOMAIN blocks
                        /\ blocks[saw[c]].fp = GateFingerprint(c)
                        /\ blocks[saw[c]].at <= Len(rows)
                        /\ blocks[saw[c]].at \in Nat /\ Len(rows) \in Nat
      BY <1>1, TableIs DEF CallOK, TablesOK, Types, Blocks
    <3>3. saw[c] # 0 => Len(rows) + 1 > blocks[saw[c]].at
      BY <3>2
    <3> QED
      BY <2>2, <3>1, <3>2, <3>3 DEF Landed
  <2>5. CallOK(c)'
    BY <1>1, <2>2, <2>3, <2>4 DEF CallOK
  <2> QED
    BY <1>1, <1>2, <2>1, <2>2, <2>5, LandStep
<1>3. CASE UNCHANGED rows /\ Replay(c)
  <2>1. Local(c) /\ Others(c) /\ Quiet /\ Resting(c)
    BY <1>1, <1>3, FinishTypes, Moves
    DEF Replay, Local, Others, Same, Stays, asks, Types, Points, Statuses, Quiet,
        Resting
  <2> QED
    BY <2>1, QuietRest
<1>4. ASSUME NEW s \in Statuses, Fail(c, s), UNCHANGED rows
      PROVE  IInv'
  BY <1>1, <1>4, SettleStep DEF Fail, Verdicts, Quiet
<1> QED
  BY <1>2, <1>3, <1>4 DEF Write, Statuses

\* A call drops, or is given up.
LEMMA DropRests ==
    ASSUME Types, NEW c \in Calls, Drop(c)
    PROVE  Local(c) /\ Others(c) /\ Resting(c)
<1>1. Local(c)
  BY DropTypes
<1>2. /\ pc'[c] \in {"readkind", "blocks", "done"} /\ saw'[c] = 0
      /\ UNCHANGED <<kind, token, asks>>
  BY Moves DEF Drop, Types, Entry
<1>3. \A d \in Calls \ {c} : pc'[d] = pc[d] /\ saw'[d] = saw[d] /\ due'[d] = due[d]
  BY Moves DEF Drop, Types
<1> QED
  BY <1>1, <1>2, <1>3 DEF Others, Same, Resting, asks

LEMMA DisconnectStep ==
    ASSUME IInv, NEW c \in Calls, Disconnect(c)
    PROVE  IInv'
<1>1. Types /\ Quiet /\ Drop(c)
  BY DEF IInv, Disconnect, Quiet
<1> QED
  BY <1>1, DropRests, QuietRest

LEMMA AbandonStep ==
    ASSUME IInv, NEW c \in Calls, Abandon(c)
    PROVE  IInv'
<1>1. Types /\ Quiet
  BY DEF IInv, Abandon, Quiet
<1>2. saw' \in [Calls -> Nat] /\ UNCHANGED <<kind, token, tries, asks>>
  BY <1>1 DEF Abandon, Types, asks
<1>3. due' \in [Calls -> [what : Rules \cup Verdicts \cup {"none"}, status : Statuses]]
  BY <1>1, DueTypes DEF Abandon, NoDue, Statuses
<1>4. Goto(c, "done") /\ ack' \in [Calls -> Statuses]
  BY <1>1, FinishTypes DEF Abandon, Statuses
<1>5. Local(c)
  BY <1>1, <1>2, <1>3, <1>4 DEF Local, Types, Points
<1>6. /\ pc'[c] = "done" /\ saw'[c] = 0
      /\ \A d \in Calls \ {c} : pc'[d] = pc[d] /\ saw'[d] = saw[d] /\ due'[d] = due[d]
  BY <1>1, <1>4, Moves DEF Abandon, Types
<1>7. Others(c) /\ Resting(c)
  BY <1>2, <1>6 DEF Others, Same, Resting, asks
<1> QED
  BY <1>1, <1>5, <1>7, QuietRest

-----------------------------------------------------------------------------
(* Steps that write a token or a block.                                      *)

Tabled == pending' \in Seq(Tokens) /\ blocks' \in Seq(Blocks)
Closable ==
    \A b \in DOMAIN blocks' :
      \/ /\ b \in DOMAIN blocks
         /\ \/ blocks'[b].closed = blocks[b].closed
            \/ blocks'[b].closed = "false_positive" => Landed(b)
      \/ blocks'[b].closed = "open" /\ blocks'[b].at <= Len(rows)

LEMMA TableStep ==
    ASSUME IInv, NEW c \in Calls, rows' = rows, Tabled, Extends, Closable,
           Local(c), Others(c), Types' => CallOK(c)',
           pc'[c] = "append" /\ token'[c] # 0 =>
             \A d \in Calls : pc[d] = "append" => token[d] # token'[c]
    PROVE  IInv'
<1>1. Types'
  BY LocalTypes DEF IInv, Types, Tabled
<1>2. TablesOK'
  BY <1>1, TablesStay DEF Closable
<1>3. OneBearer'
  BY BearersStay
<1>4. \A d \in Calls \ {c} : CallOK(d)'
  BY <1>1, CallStays DEF Others
<1> QED
  BY <1>1, <1>2, <1>3, <1>4 DEF IInv

LEMMA TableRest ==
    ASSUME IInv, NEW c \in Calls, rows' = rows, Tabled, Extends, Closable,
           Local(c), Others(c), Resting(c)
    PROVE  IInv'
BY CallRests, TableStep DEF Resting

LEMMA SpendTable ==
    ASSUME IInv, NEW c \in Calls, Spend(c), UNCHANGED <<rows, blocks>>
    PROVE  Tabled /\ Extends /\ Closable
<1>1. Types /\ token[c] <= Len(pending)
  BY DEF IInv, CallOK
<1>2. Tabled
  BY <1>1, SpendTypes DEF Tabled, Types
<1>3. Extends
  BY <1>1, SpendTypes, TableIs DEF Extends
<1> QED
  BY <1>2, <1>3 DEF Closable

LEMMA IssueTable ==
    ASSUME IInv, NEW c \in Calls, Issue(c), UNCHANGED <<rows, blocks>>
    PROVE  Tabled /\ Extends /\ Closable
<1>1. Types
  BY DEF IInv
<1>2. Tabled
  BY <1>1, IssueTypes DEF Tabled, Types
<1>3. Extends
  BY <1>1, IssueTypes, TableIs DEF Extends
<1> QED
  BY <1>2, <1>3 DEF Closable

LEMMA MarkTable ==
    ASSUME IInv, NEW c \in Calls, pc[c] = "close", Mark(c), UNCHANGED <<rows, pending>>
    PROVE  Tabled /\ Extends /\ Closable
<1>1. /\ Types /\ saw[c] \in DOMAIN blocks /\ due[c].what \in Verdicts
      /\ due[c].what = "false_positive" => Landed(saw[c])
  BY TableIs DEF IInv, CallOK, Types
<1>2. Tabled
  BY <1>1, MarkTypes DEF Tabled, Types
<1>3. Extends
  BY <1>1, MarkTypes, TableIs DEF Extends
<1>4. Closable
  BY <1>1, MarkTypes DEF Closable
<1> QED
  BY <1>2, <1>3, <1>4

LEMMA LogTable ==
    ASSUME IInv, NEW c \in Calls, pc[c] = "record", Log(c), UNCHANGED <<rows, pending>>
    PROVE  Tabled /\ Extends /\ Closable
<1>1. Types /\ due[c].what \in Rules
  BY DEF IInv, CallOK
<1>2. Tabled
  BY <1>1, LogTypes DEF Tabled, Types
<1>3. Extends
  BY <1>1, LogTypes, TableIs DEF Extends
<1>4. Closable
  BY <1>1, LogTypes, TableIs DEF Closable
<1> QED
  BY <1>2, <1>3, <1>4

\* A token that is spent was good: no row bears it, and no call at its write.
LEMMA ConsumeStep ==
    ASSUME IInv, NEW c \in Calls, Consume(c)
    PROVE  IInv'
<1>1. /\ Types /\ TablesOK /\ CallOK(c) /\ pc[c] = "consume" /\ Spend(c)
      /\ UNCHANGED <<rows, blocks, asks, kind, token, saw, tries>>
  BY DEF IInv, Consume
<1>2. Tabled /\ Extends /\ Closable
  BY <1>1, SpendTable
<1>3. GateFingerprint(c)' = GateFingerprint(c) /\ (Destructive(c)' <=> Destructive(c))
  BY <1>1 DEF GateFingerprint, Destructive, asks
<1>4. Len(pending') = Len(pending)
  BY <1>1, SpendTypes DEF CallOK
<1>5. ASSUME NEW r \in Rules, NEW s \in Statuses, BlockAs(c, r, s)
      PROVE  IInv'
  <2>1. Local(c) /\ Others(c)
    BY <1>1, <1>5, BlockAsTypes, Moves DEF Local, Others, Same, asks, Types, Points
  <2>2. pc'[c] = "record" /\ due'[c].what = r
    BY <1>1, <1>5, Moves
  <2>3. CallOK(c)'
    BY <1>1, <1>3, <1>4, <2>2 DEF CallOK, asks
  <2> QED
    BY <1>1, <1>2, <2>1, <2>2, <2>3, TableStep
<1>6. CASE /\ Valid(token[c]) /\ Matches(c) /\ Goto(c, "append")
           /\ UNCHANGED <<due, ack>>
  <2>1. Local(c) /\ Others(c)
    BY <1>1, <1>6, Moves DEF Local, Others, Same, asks, Types, Points
  <2>2. pc'[c] = "append" /\ token' = token /\ req' = req /\ saw' = saw /\ rows' = rows
    BY <1>1, <1>6, Moves DEF asks
  <2>3. /\ token[c] # 0 /\ token[c] \in DOMAIN pending
        /\ ~pending[token[c]].consumed
        /\ pending[token[c]].fp = GateFingerprint(c)
    BY <1>1, <1>6, TableIs DEF Valid, Matches, CallOK, Types
  <2>4. \A i \in DOMAIN rows : rows[i].token # token[c]
    BY <1>1, <2>3 DEF TablesOK, TokenSpentOnce
  <2>5. \A d \in Calls : pc[d] = "append" => token[d] # token[c]
    BY <2>3 DEF IInv, CallOK, MayWrite
  <2>6. /\ pending'[token[c]].consumed
        /\ pending'[token[c]].fp = GateFingerprint(c)
    BY <1>1, <1>6, <2>3, SpendTypes DEF CallOK
  <2>7. MayWrite(c)'
    BY <1>3, <2>2, <2>3, <2>4, <2>6 DEF MayWrite
  <2>8. CallOK(c)'
    BY <1>1, <1>3, <1>4, <2>2, <2>7 DEF CallOK
  <2> QED
    BY <1>1, <1>2, <2>1, <2>2, <2>5, <2>8, TableStep
<1> QED
  BY <1>5, <1>6 DEF Consume, Rules, Statuses

LEMMA PreviewStep ==
    ASSUME IInv, NEW c \in Calls, Preview(c)
    PROVE  IInv'
<1>1. /\ Types /\ Issue(c) /\ Finish(c, "gate_preview")
      /\ UNCHANGED <<rows, blocks, asks, kind, token, saw, due, tries>>
  BY DEF IInv, Preview
<1>2. Local(c) /\ Others(c) /\ Resting(c)
  BY <1>1, FinishTypes, Moves
  DEF Local, Others, Same, Resting, asks, Types, Points, Statuses
<1> QED
  BY <1>1, <1>2, IssueTable, TableRest

LEMMA CloseRecordStep ==
    ASSUME IInv, NEW c \in Calls, Close(c) \/ Record(c)
    PROVE  IInv'
<1>1. /\ Types
      /\ \/ pc[c] = "close" /\ Mark(c)
         \/ pc[c] = "record" /\ Log(c)
      /\ Finish(c, due[c].status) /\ due' = [due EXCEPT ![c] = NoDue]
      /\ UNCHANGED <<rows, pending, asks, kind, token, saw, tries>>
  BY DEF IInv, Close, Record
<1>2. due[c].status \in Statuses
  BY <1>1 DEF Types
<1>3. due' \in [Calls -> [what : Rules \cup Verdicts \cup {"none"}, status : Statuses]]
  BY <1>1, DueTypes DEF NoDue, Statuses
<1>4. Local(c)
  BY <1>1, <1>2, <1>3, FinishTypes DEF Local, Types, Points
<1>5. \A d \in Calls \ {c} : due'[d] = due[d]
  BY <1>1 DEF Types
<1>6. Others(c) /\ Resting(c)
  BY <1>1, <1>5, Moves DEF Others, Same, Resting, asks
<1>7. Tabled /\ Extends /\ Closable
  BY <1>1, MarkTable, LogTable
<1> QED
  BY <1>1, <1>4, <1>6, <1>7, TableRest

LEMMA AckLostStep ==
    ASSUME IInv, NEW c \in Calls, AckLost(c)
    PROVE  IInv'
<1>1. Types /\ Drop(c)
  BY DEF IInv, AckLost
<1>2. Local(c) /\ Others(c) /\ Resting(c)
  BY <1>1, DropRests
<1>3. CASE pc[c] = "append" /\ Land(c) /\ UNCHANGED <<pending, blocks>>
  <2>1. pc'[c] # "append"
    BY <1>2 DEF Resting
  <2> QED
    BY <1>2, <1>3, <2>1, CallRests, LandStep
<1>4. CASE Spend(c) /\ UNCHANGED <<rows, blocks>>
  BY <1>2, <1>4, SpendTable, TableRest
<1>5. CASE Issue(c) /\ UNCHANGED <<rows, blocks>>
  BY <1>2, <1>5, IssueTable, TableRest
<1>6. CASE pc[c] = "close" /\ Mark(c) /\ UNCHANGED <<rows, pending>>
  BY <1>2, <1>6, MarkTable, TableRest
<1>7. CASE pc[c] = "record" /\ Log(c) /\ UNCHANGED <<rows, pending>>
  BY <1>2, <1>7, LogTable, TableRest
<1> QED
  BY <1>3, <1>4, <1>5, <1>6, <1>7 DEF AckLost

-----------------------------------------------------------------------------
(* Steps of no call.                                                        *)

LEMMA NobodyMoves ==
    ASSUME IInv, Types', Extends, UNCHANGED <<rows, blocks, req, pc, kind, token, saw, due>>
    PROVE  IInv'
<1>1. TablesOK'
  BY TablesStay
<1>2. OneBearer'
  BY DEF IInv, OneBearer
<1>3. \A d \in Calls : CallOK(d)'
  BY CallStays DEF Same
<1> QED
  BY <1>1, <1>2, <1>3 DEF IInv

LEMMA ExpireStep ==
    ASSUME IInv, NEW t \in DOMAIN pending, Expire(t)
    PROVE  IInv'
<1> DEFINE e == [pending[t] EXCEPT !.expired = TRUE]
<1>1. Types /\ UNCHANGED <<rows, blocks, asks, pc, kind, token, saw, due, tries, ack>>
  BY DEF IInv, Expire
<1>2. e \in Tokens /\ e.fp = pending[t].fp /\ e.consumed = pending[t].consumed
  BY <1>1, TableIs DEF Tokens
<1>3. pending' = [pending EXCEPT ![t] = e]
  BY DEF Expire
<1> HIDE DEF e
<1>4. /\ pending' \in Seq(Tokens)
      /\ Len(pending') = Len(pending) /\ DOMAIN pending' = DOMAIN pending
      /\ \A j \in DOMAIN pending : j # t => pending'[j] = pending[j]
      /\ pending'[t] = e
  BY <1>1, <1>2, <1>3, UpdateOf DEF Types
<1>5. Types'
  BY <1>1, <1>4 DEF Types, asks
<1>6. Extends
  BY <1>1, <1>2, <1>4, TableIs DEF Extends
<1> QED
  BY <1>1, <1>5, <1>6, NobodyMoves DEF asks

LEMMA OpenIntentStep ==
    ASSUME IInv, NEW s \in Sessions, OpenIntent(s)
    PROVE  IInv'
<1>1. Types
  BY DEF IInv
<1>2. intent' \in [Sessions -> [conflict : BOOLEAN, scope : Scopes \cup {{}}]]
  BY <1>1 DEF OpenIntent, Types
<1>3. opened' \in 0..MaxIntents
  BY <1>1, GateAssumption DEF OpenIntent, Types
<1>4. Types' /\ Quiet
  BY <1>1, <1>2, <1>3 DEF OpenIntent, Types, Quiet
<1> QED
  BY <1>1, <1>4, QuietExtends, NobodyMoves DEF OpenIntent, Quiet

-----------------------------------------------------------------------------
(* The invariant, and what follows from it.                                 *)

LEMMA InitInv == Init => IInv
<1> SUFFICES ASSUME Init
             PROVE  IInv
  OBVIOUS
<1>1. DOMAIN rows = {} /\ DOMAIN pending = {} /\ DOMAIN blocks = {}
  BY DEF Init
<1>2. \A c \in Calls : req[c].kind \in Kinds
  BY GateAssumption DEF Init
<1>3. Types
  BY <1>2, GateAssumption DEF Init, Types, NoIntent, NoDue, Points, Statuses
<1>4. TablesOK /\ OneBearer
  BY <1>1 DEF Init, TablesOK, TokenSpentOnce, DeletesAreConfirmed,
     FalsePositivesLanded, OneBearer
<1>5. \A c \in Calls : CallOK(c)
  BY DEF Init, CallOK
<1> QED
  BY <1>3, <1>4, <1>5 DEF IInv

LEMMA NextInv == IInv /\ [Next]_vars => IInv'
<1> SUFFICES ASSUME IInv, [Next]_vars
             PROVE  IInv'
  OBVIOUS
<1>1. CASE UNCHANGED vars
  <2>1. Types' /\ Extends
    BY <1>1, QuietExtends DEF IInv, Types, vars, asks, Quiet
  <2> QED
    BY <1>1, <2>1, NobodyMoves DEF vars, asks
<1>2. ASSUME NEW c \in Calls,
             \/ Start(c) \/ ReadKind(c) \/ FindBlock(c)
             \/ Consume(c) \/ CheckEvent(c) \/ Decide(c) \/ Preview(c)
             \/ Write(c) \/ Readback(c) \/ Close(c) \/ Record(c)
             \/ Disconnect(c) \/ AckLost(c) \/ Abandon(c)
      PROVE  IInv'
  BY <1>2, StartStep, ReadKindStep, FindBlockStep, ConsumeStep, CheckEventStep,
     DecideStep, PreviewStep, WriteStep, ReadbackStep, CloseRecordStep,
     DisconnectStep, AckLostStep, AbandonStep
<1> QED
  BY <1>1, <1>2, ExpireStep, OpenIntentStep DEF Next

\* The tables, the calls in flight and the tokens they bear agree, in every
\* behaviour of gate.py's preflight and of the calls it guards.
THEOREM InvariantHolds == Spec => []IInv
<1> QED
  BY InitInv, NextInv, PTL DEF Spec

\* Types, and the links from calls to tokens and blocks and from rows to tokens.
THEOREM TypeCorrect == Spec => []TypeOK
<1>1. ASSUME IInv
      PROVE  TypeOK
  <2>1. Types /\ TablesOK /\ \A c \in Calls : CallOK(c)
    BY <1>1 DEF IInv
  <2>2. ASSUME NEW i \in DOMAIN rows
        PROVE  /\ rows[i].by \in Calls /\ rows[i].kind \in Kinds
               /\ rows[i].token \in 0..Len(pending)
    BY <2>1, TableIs DEF Rows, TablesOK
  <2>3. ASSUME NEW t \in DOMAIN pending
        PROVE  {pending[t].consumed, pending[t].expired} \subseteq BOOLEAN
    BY <2>1, TableIs DEF Tokens
  <2>4. ASSUME NEW b \in DOMAIN blocks
        PROVE  /\ blocks[b].closed \in {"open", "false_positive", "confirmed_correct"}
               /\ blocks[b].at \in 0..Len(rows)
    BY <2>1, TableIs DEF Blocks, Verdicts, TablesOK
  <2>5. ASSUME NEW c \in Calls
        PROVE  /\ kind[c] \in Kinds /\ token[c] \in 0..Len(pending)
               /\ saw[c] \in 0..Len(blocks) /\ (pc[c] = "close" => saw[c] # 0)
               /\ tries[c] \in 0..(ConnRetries - 1) /\ ack[c] \in Statuses
    BY <2>1, TableIs DEF Types, CallOK
  <2> QED
    BY <2>1, <2>2, <2>3, <2>4, <2>5 DEF TypeOK, Types
<1> QED
  BY <1>1, InvariantHolds, PTL

\* _consume_confirm's single UPDATE: a token writes once, what its preview showed,
\* however many bearers race with it and run again.
THEOREM TokensAreSpentOnce == Spec => []TokenSpentOnce
<1>1. IInv => TokenSpentOnce
  BY DEF IInv, TablesOK
<1> QED
  BY <1>1, InvariantHolds, PTL

\* preflight lets no delete reach _append unconfirmed, in any run of its call.
THEOREM NoUnconfirmedDelete == Spec => []DeletesAreConfirmed
<1>1. IInv => DeletesAreConfirmed
  BY DEF IInv, TablesOK
<1> QED
  BY <1>1, InvariantHolds, PTL

\* on_write_success: a block is closed as wrong only after its operation landed.
THEOREM WrongBlocksHaveLanded == Spec => []FalsePositivesLanded
<1>1. IInv => FalsePositivesLanded
  BY DEF IInv, TablesOK
<1> QED
  BY <1>1, InvariantHolds, PTL

\* _close_block's guard: of the attempts that race to close a block, one decides.
LEMMA VerdictStep ==
    ASSUME IInv, [Next]_vars, NEW b \in DOMAIN blocks, blocks[b].closed # "open"
    PROVE  blocks'[b].closed = blocks[b].closed
<1>1. Types
  BY DEF IInv
<1>2. ASSUME NEW c \in Calls, pc[c] = "close", Mark(c)
      PROVE  blocks'[b].closed = blocks[b].closed
  <2>1. saw[c] \in DOMAIN blocks /\ due[c].what \in Verdicts
    BY <1>2, TableIs DEF IInv, CallOK, Types
  <2> QED
    BY <1>1, <1>2, <2>1, MarkTypes
<1>3. ASSUME NEW c \in Calls, pc[c] = "record", Log(c)
      PROVE  blocks'[b].closed = blocks[b].closed
  <2>1. due[c].what \in Rules
    BY <1>3 DEF IInv, CallOK
  <2> QED
    BY <1>1, <1>3, <2>1, LogTypes
<1>4. ASSUME NEW c \in Calls, Close(c) \/ Record(c) \/ AckLost(c)
      PROVE  blocks'[b].closed = blocks[b].closed
  <2>1. \/ UNCHANGED blocks
        \/ pc[c] = "close" /\ Mark(c)
        \/ pc[c] = "record" /\ Log(c)
    BY <1>4 DEF Close, Record, AckLost
  <2> QED
    BY <1>2, <1>3, <2>1
<1>5. ASSUME NEW c \in Calls,
             \/ Start(c) \/ ReadKind(c) \/ FindBlock(c)
             \/ Consume(c) \/ CheckEvent(c) \/ Decide(c) \/ Preview(c)
             \/ Write(c) \/ Readback(c) \/ Disconnect(c) \/ Abandon(c)
      PROVE  blocks' = blocks
  BY <1>5 DEF Start, ReadKind, FindBlock, Consume, CheckEvent, Decide, Preview,
     Write, Readback, Disconnect, Abandon
<1>6. ASSUME NEW t, Expire(t)
      PROVE  blocks' = blocks
  BY <1>6 DEF Expire
<1>7. ASSUME NEW s, OpenIntent(s)
      PROVE  blocks' = blocks
  BY <1>7 DEF OpenIntent
<1>8. UNCHANGED vars => blocks' = blocks
  BY DEF vars
<1> QED
  BY <1>4, <1>5, <1>6, <1>7, <1>8 DEF Next

\* A verdict, once given, stands.
THEOREM VerdictsStand == Spec => VerdictsFinal
<1>1. IInv /\ [Next]_vars =>
        [\A b \in DOMAIN blocks :
           blocks[b].closed # "open" => blocks'[b].closed = blocks[b].closed]_blocks
  BY VerdictStep
<1> QED
  BY <1>1, InvariantHolds, PTL DEF Spec, VerdictsFinal

=============================================================================
