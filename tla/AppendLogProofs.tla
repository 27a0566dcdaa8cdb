--------------------------- MODULE AppendLogProofs ---------------------------
(***************************************************************************)
(* AppendLog's safety, that its pool never stalls, and that it implements     *)
(* ExactlyOnceLog, for any calls, workloads, retry limits and pool.           *)
(***************************************************************************)
EXTENDS AppendLog, TLAPS, FiniteSetTheorems, SequenceTheorems

-----------------------------------------------------------------------------
(* The inductive invariant.                                                 *)

\* A run that has looked its event_id up and not committed.
Writing == {"insert", "place", "recheck", "commit"}
\* Control points at which snap is the revision of this run's row.
Placed == {"place", "recheck", "commit", "readback"}

Revs(k) == {r.rev : r \in RowsOf(k)}
NoneBy(c) == \A r \in rows : r.by # c
Undisturbed(c) == \A r \in rows : ~Conflicts(NewRow(c), r)

\* The committed rows: the unique indexes hold, a call has one row and it says
\* what the call asked for, and each key's revisions are 1..n.
TableOK ==
    /\ \A r, s \in rows : (Conflicts(r, s) \/ r.by = s.by) => r = s
    /\ \A r \in rows :
         LET q == req[r.by]
         IN  /\ <<r.tool, r.key, r.payload>> = <<q.tool, q.key, q.payload>>
             /\ r.actor = q.actor /\ r.event = q.event
             /\ r.tool = "memory_save" => r.kind = q.kind
    /\ \A k \in Keys : \E n \in Nat : Revs(k) = 1..n

\* What a call's control point says of its own variables.
ControlOK(c) ==
    /\ tx[c] = IF pc[c] = "commit" THEN {NewRow(c)} ELSE {}
    /\ pc[c] \in Placed => snap[c] # 0 /\ kind[c] \in Kinds
    /\ req[c].tool = "memory_save"
         => kind[c] = req[c].kind /\ pc[c] # "readkind"
    /\ pc[c] # "done" => ack[c] = NoAck /\ tries[c] < ConnRetries
    /\ pc[c] \in {"idle", "readkind", "precheck", "insert"}
         => attempts[c] < MaxRetries

\* ... and of the rows.  While a call writes it has no row yet, and one that
\* may not be retried has none before it; a revision computed from an old
\* snapshot is at most one past the key's revisions.
ProgressOK(c) ==
    /\ pc[c] \in Placed =>
         \A n \in Nat : Revs(req[c].key) = 1..n => snap[c] <= n + 1
    /\ \/ pc[c] \in Writing \cup {"idle"}
       \/ req[c].event = NoEvent /\ pc[c] \in {"readkind", "precheck"}
       => NoneBy(c)
    /\ pc[c] = "commit" => Undisturbed(c)
    /\ pc[c] = "readback" => NewRow(c) \in rows

\* What a call's answer says of the rows.
AckOK(c) ==
    /\ AckTrue(c)
    /\ Refused(c) => NoneBy(c)
    /\ ack[c].status = "write_verification_failed" => Overrun(c)

CallOK(c) == ControlOK(c) /\ ProgressOK(c) /\ AckOK(c)

\* Two uncommitted rows never conflict either.
TxOK ==
    \A c, d \in Calls :
      c # d /\ pc[c] = "commit" /\ pc[d] = "commit"
        => ~Conflicts(NewRow(c), NewRow(d))

IInv ==
    /\ TypeOK
    /\ TableOK
    /\ TxOK
    /\ \A c \in Calls : CallOK(c)

-----------------------------------------------------------------------------
(* Revisions.                                                               *)

LEMMA MaxUpTo ==
    ASSUME NEW n \in Nat
    PROVE  Max({0} \cup 1..n) = n
<1>1. n \in {0} \cup 1..n /\ \A y \in {0} \cup 1..n : n >= y
  OBVIOUS
<1>2. \A x \in {0} \cup 1..n : (\A y \in {0} \cup 1..n : x >= y) => x = n
  BY <1>1
<1> QED
  BY <1>1, <1>2 DEF Max

\* The largest of a key's revisions is what LastRev computes.
LEMMA LastRevIs ==
    ASSUME NEW k, NEW n \in Nat, Revs(k) = 1..n
    PROVE  LastRev(k) = n
BY MaxUpTo DEF LastRev, Revs

\* A key with rows has one at its last revision, so a delete finds a kind.
LEMMA LatestKindType ==
    ASSUME TypeOK, TableOK, NEW k \in Keys
    PROVE  LatestKind(k) \in Kinds
<1>1. PICK n \in Nat : Revs(k) = 1..n
  BY DEF TableOK
<1>2. LastRev(k) = n
  BY <1>1, LastRevIs
<1>3. CASE RowsOf(k) = {}
  BY <1>3, RequestsAssumption DEF LatestKind
<1>4. CASE RowsOf(k) # {}
  <2>1. PICK r \in RowsOf(k) : TRUE
    BY <1>4
  <2>2. r.rev \in 1..n
    BY <1>1 DEF Revs
  <2>3. n \in Revs(k)
    BY <1>1, <2>2
  <2>4. \E s \in RowsOf(k) : s.rev = LastRev(k)
    BY <1>2, <2>3 DEF Revs
  <2>5. \A s \in RowsOf(k) : s.kind \in Kinds
    BY DEF TypeOK, Row, RowsOf
  <2> QED
    BY <1>4, <2>4, <2>5 DEF LatestKind
<1> QED
  BY <1>3, <1>4

-----------------------------------------------------------------------------
(* The row a call commits.                                                  *)

LEMMA NewRowType ==
    ASSUME TypeOK, NEW c \in Calls, CallOK(c), pc[c] \in Placed
    PROVE  NewRow(c) \in Row
<1>1. req[c] \in Requests /\ req[c].tool \in Tools
  BY RequestsAssumption DEF TypeOK
<1>2. snap[c] \in Nat \ {0} /\ kind[c] \in Kinds
  BY DEF TypeOK, CallOK, ControlOK
<1> QED
  BY <1>1, <1>2 DEF NewRow, Row, Keys

\* The row a call commits is the next revision of its key, and the key's
\* revisions stay 1..n.
LEMMA CommitExtends ==
    ASSUME IInv, NEW c \in Calls, pc[c] = "commit", rows' = rows \cup tx[c],
           NEW k, k = req[c].key, NEW n \in Nat, Revs(k) = 1..n
    PROVE  /\ rows' = rows \cup {NewRow(c)}
           /\ snap[c] = n + 1
           /\ Revs(k)' = 1..(n + 1)
           /\ \A j : j # k => Revs(j)' = Revs(j)
<1>1. rows' = rows \cup {NewRow(c)}
  BY DEF IInv, CallOK, ControlOK
<1>2. snap[c] \in Nat /\ snap[c] # 0 /\ snap[c] <= n + 1
  BY DEF IInv, TypeOK, CallOK, ControlOK, ProgressOK, Placed
<1>3. snap[c] \notin Revs(k)
  BY DEF IInv, CallOK, ProgressOK, Undisturbed, Conflicts, SameRevision, Revs,
       RowsOf, NewRow
<1>4. snap[c] = n + 1
  BY <1>2, <1>3
<1>5. Revs(k)' = Revs(k) \cup {n + 1}
  <2>1. NewRow(c).rev = n + 1 /\ NewRow(c).key = k
    BY <1>4 DEF NewRow
  <2>2. RowsOf(k)' = RowsOf(k) \cup {NewRow(c)}
    BY <1>1, <2>1 DEF RowsOf
  <2> QED
    BY <2>1, <2>2 DEF Revs
<1>6. ASSUME NEW j, j # k
      PROVE  Revs(j)' = Revs(j)
  <2>1. RowsOf(j)' = RowsOf(j)
    BY <1>1, <1>6 DEF RowsOf, NewRow
  <2> QED
    BY <2>1 DEF Revs
<1>7. 1..n \cup {n + 1} = 1..(n + 1)
  OBVIOUS
<1> QED
  BY <1>1, <1>4, <1>5, <1>6, <1>7

-----------------------------------------------------------------------------
(* Steps that commit nothing: only the call that takes them is to be looked  *)
(* at.                                                                       *)

Others(c) ==
    \A d \in Calls \ {c} :
      /\ tx'[d] = tx[d]
      /\ pc'[d] = pc[d]
      /\ kind'[d] = kind[d]
      /\ snap'[d] = snap[d]
      /\ attempts'[d] = attempts[d]
      /\ tries'[d] = tries[d]
      /\ ack'[d] = ack[d]

LEMMA QuietStep ==
    ASSUME IInv, NEW c \in Calls, TypeOK', rows' = rows, req' = req, Others(c),
           CallOK(c)',
           pc'[c] = "commit" => \A r \in IndexEntries : ~Conflicts(NewRow(c), r),
           pc'[c] = "commit" => NewRow(c)' = NewRow(c)
    PROVE  IInv'
<1>1. TableOK'
  BY DEF IInv, TableOK, Revs, RowsOf
<1>2. ASSUME NEW d \in Calls \ {c}
      PROVE  CallOK(d)' /\ NewRow(d)' = NewRow(d)
  <2>1. NewRow(d)' = NewRow(d)
    BY DEF Others, NewRow
  <2>2. /\ AckTrue(d)' <=> AckTrue(d)
        /\ Refused(d)' <=> Refused(d)
        /\ NoneBy(d)' <=> NoneBy(d)
    BY <2>1 DEF Others, AckTrue, Refused, NoneBy, Fingerprint, OwnFingerprint
  <2>3. Undisturbed(d)' <=> Undisturbed(d)
    BY <2>1 DEF Undisturbed, Conflicts, SameRevision, SameEvent
  <2>4. \A k : RowsOf(k)' = RowsOf(k)
    BY DEF RowsOf
  <2>5. \A k : Revs(k)' = Revs(k) /\ LastRev(k)' = LastRev(k)
    BY <2>4 DEF Revs, LastRev
  <2>6. Overrun(d)' <=> Overrun(d)
    BY <2>5 DEF Others, Overrun
  <2> QED
    BY <2>1, <2>2, <2>3, <2>5, <2>6 DEF IInv, Others, CallOK, ControlOK, ProgressOK,
         AckOK
<1>3. TxOK'
  <2> SUFFICES ASSUME NEW a \in Calls, NEW b \in Calls, a # b,
                      pc'[a] = "commit", pc'[b] = "commit"
               PROVE  ~Conflicts(NewRow(a)', NewRow(b)')
    BY DEF TxOK, Conflicts, SameRevision, SameEvent
  <2>1. \A d \in Calls \ {c} : pc'[d] = "commit" =>
          /\ NewRow(d) \in IndexEntries
          /\ NewRow(d)' = NewRow(d)
          /\ pc[d] = "commit"
    BY <1>2 DEF IInv, CallOK, ControlOK, Others, IndexEntries
  <2>2. CASE a = c
    BY <2>1, <2>2 DEF Conflicts
  <2>3. CASE b = c
    BY <2>1, <2>3 DEF Conflicts, SameRevision, SameEvent
  <2>4. CASE a # c /\ b # c
    BY <2>1, <2>4 DEF IInv, TxOK
  <2> QED
    BY <2>2, <2>3, <2>4
<1> QED
  BY <1>1, <1>2, <1>3 DEF IInv

\* A row under the event_id of a call is the only one, and if the call wrote it
\* a save finds its own fingerprint in it.
LEMMA SeenOnce ==
    ASSUME IInv, NEW c \in Calls, NEW r \in SeenEvent(c)
    PROVE  /\ r \in rows /\ r.actor = req[c].actor /\ r.event = req[c].event
           /\ \A s \in rows : s.by = c => s = r
           /\ r.by = c /\ req[c].tool = "memory_save"
                => Fingerprint(r) = OwnFingerprint(c)
<1>1. /\ r \in rows /\ r.actor = req[c].actor /\ r.event = req[c].event
      /\ r.event # NoEvent
  BY DEF SeenEvent
<1>2. ASSUME NEW s \in rows, s.by = c
      PROVE  s = r
  <2>1. SameEvent(r, s)
    BY <1>1, <1>2 DEF IInv, TableOK, SameEvent
  <2> QED
    BY <1>1, <2>1 DEF IInv, TableOK, Conflicts
<1>3. ASSUME r.by = c, req[c].tool = "memory_save"
      PROVE  Fingerprint(r) = OwnFingerprint(c)
  BY <1>1, <1>3 DEF IInv, TableOK, CallOK, ControlOK, Fingerprint, OwnFingerprint
<1> QED
  BY <1>1, <1>2, <1>3

-----------------------------------------------------------------------------
(* One lemma per action.                                                    *)

LEMMA StartStep ==
    ASSUME IInv, NEW c \in Calls, Start(c)
    PROVE  IInv'
<1>1. /\ pc[c] = "idle" /\ pc'[c] = Entry(req[c])
      /\ rows' = rows /\ req' = req /\ Others(c)
  BY DEF IInv, TypeOK, Start, Goto, Others
<1>2. TypeOK'
  BY DEF IInv, TypeOK, Start, Goto, Entry, Points
<1>3. ControlOK(c)'
  BY <1>1 DEF IInv, CallOK, ControlOK, Start, Entry, Placed
<1>4. ProgressOK(c)'
  BY <1>1 DEF IInv, CallOK, ProgressOK, Entry, Placed, NoneBy, Writing
<1>5. AckOK(c)'
  <2>1. ack'[c] = NoAck
    BY <1>1 DEF IInv, CallOK, ControlOK, Start
  <2> QED
    BY <2>1 DEF AckOK, AckTrue, Refused, NoAck
<1> QED
  BY <1>1, <1>2, <1>3, <1>4, <1>5, QuietStep DEF CallOK, Entry

LEMMA ReadKindStep ==
    ASSUME IInv, NEW c \in Calls, ReadKind(c)
    PROVE  IInv'
<1>1. /\ pc[c] = "readkind" /\ pc'[c] = "precheck"
      /\ rows' = rows /\ req' = req /\ Others(c)
  BY DEF IInv, TypeOK, ReadKind, Goto, Others
<1>2. LatestKind(req[c].key) \in Kinds
  BY LatestKindType DEF IInv, TypeOK, Keys
<1>3. TypeOK'
  BY <1>2 DEF IInv, TypeOK, ReadKind, Goto, Points
<1>4. ControlOK(c)'
  BY <1>1 DEF IInv, CallOK, ControlOK, ReadKind, Placed
<1>5. ProgressOK(c)'
  BY <1>1 DEF IInv, CallOK, ProgressOK, Placed, NoneBy, Writing
<1>6. AckOK(c)'
  <2>1. ack'[c] = NoAck
    BY <1>1 DEF IInv, CallOK, ControlOK, ReadKind
  <2> QED
    BY <2>1 DEF AckOK, AckTrue, Refused, NoAck
<1> QED
  BY <1>1, <1>3, <1>4, <1>5, <1>6, QuietStep DEF CallOK

\* A call answered with a row under its event_id, at either of the two looks.
LEMMA AnswerSeenStep ==
    ASSUME IInv, NEW c \in Calls, pc[c] \in {"precheck", "recheck"},
           NEW r \in SeenEvent(c), AnswerSeen(c, r),
           UNCHANGED <<rows, tx, req, kind, snap, attempts, tries>>
    PROVE  IInv'
<1>1. /\ r \in rows /\ r.actor = req[c].actor /\ r.event = req[c].event
      /\ \A s \in rows : s.by = c => s = r
      /\ r.by = c /\ req[c].tool = "memory_save"
           => Fingerprint(r) = OwnFingerprint(c)
  BY SeenOnce
<1>2. pc'[c] = "done" /\ Others(c)
  BY DEF IInv, TypeOK, AnswerSeen, Answer, Goto, Others
<1>3. /\ Fingerprint(r) = OwnFingerprint(c) =>
           ack' = [ack EXCEPT ![c] = [status |-> "deduplicated_replay",
                                      rev |-> r.rev]]
      /\ Fingerprint(r) # OwnFingerprint(c) =>
           ack' = [ack EXCEPT ![c] = [status |-> "idempotency_conflict",
                                      rev |-> 0]]
  BY DEF AnswerSeen, Answer
<1>4. TypeOK'
  <2>1. r.rev \in Nat
    BY <1>1 DEF IInv, TypeOK, Row
  <2>2. pc' \in [Calls -> Points]
    BY DEF IInv, TypeOK, AnswerSeen, Goto, Points
  <2>3. ack' \in [Calls -> [status : Statuses, rev : Nat]]
    BY <1>3, <2>1 DEF IInv, TypeOK, Statuses
  <2> QED
    BY <2>2, <2>3 DEF IInv, TypeOK, Row
<1>5. /\ Fingerprint(r) = OwnFingerprint(c) =>
           ack'[c] = [status |-> "deduplicated_replay", rev |-> r.rev]
      /\ Fingerprint(r) # OwnFingerprint(c) =>
           ack'[c] = [status |-> "idempotency_conflict", rev |-> 0]
  BY <1>3 DEF IInv, TypeOK
<1>6. OwnFingerprint(c)' = OwnFingerprint(c)
  BY DEF OwnFingerprint
<1>7. AckTrue(c)'
  BY <1>1, <1>5, <1>6 DEF AckTrue, Fingerprint
<1>8. Refused(c)' => NoneBy(c)'
  BY <1>1, <1>5 DEF Refused, NoneBy
<1>9. AckOK(c)'
  BY <1>5, <1>7, <1>8 DEF AckOK
<1>10. ControlOK(c)' /\ ProgressOK(c)'
  BY <1>2 DEF IInv, CallOK, ControlOK, ProgressOK, Writing, Placed
<1> QED
  BY <1>2, <1>4, <1>9, <1>10, QuietStep DEF CallOK

LEMMA PrecheckStep ==
    ASSUME IInv, NEW c \in Calls, Precheck(c)
    PROVE  IInv'
<1>1. CASE \E r \in SeenEvent(c) : AnswerSeen(c, r)
  BY <1>1, AnswerSeenStep DEF Precheck
<1>2. CASE SeenEvent(c) = {} /\ Goto(c, "insert") /\ UNCHANGED ack
  <2>1. /\ pc[c] = "precheck" /\ pc'[c] = "insert"
        /\ rows' = rows /\ req' = req /\ Others(c)
        /\ UNCHANGED <<tx, kind, snap, attempts, tries, ack>>
    BY <1>2 DEF IInv, TypeOK, Precheck, Goto, Others
  <2>2. TypeOK'
    BY <1>2, <2>1 DEF IInv, TypeOK, Goto, Points
  <2>3. NoneBy(c)
    BY <1>2, <2>1
    DEF IInv, TableOK, CallOK, ProgressOK, NoneBy, SeenEvent
  <2>4. ControlOK(c)'
    BY <2>1 DEF IInv, CallOK, ControlOK, Placed
  <2>5. ProgressOK(c)'
    BY <2>1, <2>3 DEF ProgressOK, NoneBy, Writing, Placed
  <2>6. AckOK(c)'
    <3>1. ack'[c] = NoAck
      BY <2>1 DEF IInv, CallOK, ControlOK
    <3> QED
      BY <3>1 DEF AckOK, AckTrue, Refused, NoAck
  <2> QED
    BY <2>1, <2>2, <2>4, <2>5, <2>6, QuietStep DEF CallOK
<1> QED
  BY <1>1, <1>2 DEF Precheck

LEMMA InsertStep ==
    ASSUME IInv, NEW c \in Calls, Insert(c)
    PROVE  IInv'
<1>1. CASE kind[c] \in Kinds
  <2>1. /\ pc[c] = "insert" /\ pc'[c] = "place"
        /\ rows' = rows /\ req' = req /\ Others(c)
        /\ UNCHANGED <<tx, kind, tries, ack>>
        /\ snap'[c] = LastRev(req[c].key) + 1
        /\ attempts' = [attempts EXCEPT ![c] = @ + 1]
    BY <1>1 DEF IInv, TypeOK, Insert, NextRevision, Goto, Others
  <2>2. PICK n \in Nat : Revs(req[c].key) = 1..n
    BY DEF IInv, TypeOK, TableOK, Keys
  <2>3. snap'[c] = n + 1 /\ n + 1 \in Nat
    BY <2>1, <2>2, LastRevIs
  <2>4. attempts[c] + 1 \in 0..MaxRetries
    BY <2>1, BoundsAssumption DEF IInv, TypeOK, CallOK, ControlOK
  <2>5. TypeOK'
    <3>1. pc' \in [Calls -> Points] /\ snap' \in [Calls -> Nat]
      BY <1>1, <2>1, <2>3 DEF IInv, TypeOK, Insert, Goto, Points
    <3>2. attempts' \in [Calls -> 0..MaxRetries]
      BY <2>1, <2>4 DEF IInv, TypeOK
    <3> QED
      BY <2>1, <3>1, <3>2 DEF IInv, TypeOK, Row
  <2>6. ControlOK(c)'
    <3>1. snap'[c] # 0
      BY <2>2, <2>3
    <3> QED
      BY <1>1, <2>1, <3>1 DEF IInv, CallOK, ControlOK
  <2>7. ProgressOK(c)'
    <3>1. \A m \in Nat : Revs(req[c].key)' = 1..m => snap'[c] <= m + 1
      <4>1. Revs(req[c].key)' = 1..n
        BY <2>1, <2>2 DEF Revs, RowsOf
      <4>2. \A m \in Nat : 1..n = 1..m => n = m
        OBVIOUS
      <4> QED
        BY <2>3, <4>1, <4>2
    <3> QED
      BY <2>1, <3>1 DEF IInv, CallOK, ProgressOK, NoneBy, Writing
  <2>8. AckOK(c)'
    <3>1. ack'[c] = NoAck
      BY <2>1 DEF IInv, CallOK, ControlOK
    <3> QED
      BY <3>1 DEF AckOK, AckTrue, Refused, NoAck
  <2> QED
    BY <2>1, <2>5, <2>6, <2>7, <2>8, QuietStep DEF CallOK
<1>2. CASE kind[c] \notin Kinds
  <2>1. /\ pc[c] = "insert" /\ pc'[c] = "done"
        /\ rows' = rows /\ req' = req /\ Others(c)
        /\ UNCHANGED <<tx, kind, snap, attempts, tries>>
        /\ ack'[c] = [status |-> "invalid_kind", rev |-> 0]
    BY <1>2 DEF IInv, TypeOK, Insert, Goto, Answer, Others
  <2>2. TypeOK'
    BY <1>2, <2>1, SMTT(30) DEF IInv, TypeOK, Insert, Goto, Answer, Points, Statuses, Row
  <2>3. ControlOK(c)' /\ ProgressOK(c)'
    BY <2>1 DEF IInv, CallOK, ControlOK, ProgressOK, Placed, Writing
  <2>4. NoneBy(c)'
    BY <2>1 DEF IInv, CallOK, ProgressOK, NoneBy, Writing
  <2>5. AckOK(c)'
    BY <2>1, <2>4 DEF AckOK, AckTrue
  <2> QED
    BY <2>1, <2>2, <2>3, <2>5, QuietStep DEF CallOK
<1> QED
  BY <1>1, <1>2

LEMMA PlaceStep ==
    ASSUME IInv, NEW c \in Calls, Place(c)
    PROVE  IInv'
<1>1. /\ pc[c] = "place" /\ pc'[c] = "commit"
      /\ rows' = rows /\ req' = req /\ Others(c)
      /\ UNCHANGED <<kind, snap, attempts, tries, ack>>
      /\ tx' = [tx EXCEPT ![c] = {NewRow(c)}]
      /\ \A r \in IndexEntries : ~Conflicts(NewRow(c), r)
  BY DEF IInv, TypeOK, Place, Goto, Others
<1>2. NewRow(c)' = NewRow(c)
  BY <1>1 DEF NewRow
<1>3. NewRow(c) \in Row
  BY <1>1, NewRowType DEF IInv, Placed
<1>4. TypeOK'
  <2>1. tx' \in [Calls -> SUBSET Row]
    BY <1>1, <1>3 DEF IInv, TypeOK
  <2>2. pc' \in [Calls -> Points]
    BY DEF IInv, TypeOK, Place, Goto, Points
  <2> QED
    BY <1>1, <2>1, <2>2 DEF IInv, TypeOK, Row
<1>5. ControlOK(c)'
  <2>1. tx'[c] = {NewRow(c)}
    BY <1>1 DEF IInv, TypeOK
  <2> QED
    BY <1>1, <1>2, <2>1 DEF IInv, CallOK, ControlOK, Placed
<1>6. ProgressOK(c)'
  <2>1. Undisturbed(c)'
    BY <1>1, <1>2 DEF Undisturbed, IndexEntries, Conflicts, SameRevision, SameEvent
  <2>2. Revs(req[c].key)' = Revs(req[c].key)
    BY <1>1 DEF Revs, RowsOf
  <2> QED
    BY <1>1, <2>1, <2>2
    DEF IInv, CallOK, ProgressOK, NoneBy, Placed, Writing
<1>7. AckOK(c)'
  <2>1. ack'[c] = NoAck
    BY <1>1 DEF IInv, CallOK, ControlOK
  <2> QED
    BY <2>1 DEF AckOK, AckTrue, Refused, NoAck
<1> QED
  BY <1>1, <1>2, <1>4, <1>5, <1>6, <1>7, QuietStep DEF CallOK

\* After a UniqueViolation: another attempt, or the refusal.
LEMMA RetryInsertStep ==
    ASSUME IInv, NEW c \in Calls, pc[c] \in {"place", "recheck"}, RetryInsert(c),
           UNCHANGED <<rows, tx, req, kind, snap, attempts, tries>>
    PROVE  IInv'
<1>1. Others(c) /\ NoneBy(c)' /\ tx'[c] = {}
  <2>1. Others(c)
    BY DEF IInv, TypeOK, RetryInsert, Goto, Answer, Others
  <2>2. NoneBy(c)
    BY DEF IInv, CallOK, ProgressOK, Writing
  <2>3. tx[c] = {}
    BY DEF IInv, CallOK, ControlOK
  <2> QED
    BY <2>1, <2>2, <2>3 DEF NoneBy
<1>2. TypeOK'
  BY SMTT(30) DEF IInv, TypeOK, RetryInsert, Goto, Answer, Points, Statuses, Row
<1>3. CASE attempts[c] < MaxRetries
  <2>1. pc'[c] = "insert" /\ ack' = ack
    BY <1>3 DEF IInv, TypeOK, RetryInsert, Goto
  <2>2. ControlOK(c)' /\ ProgressOK(c)'
    BY <1>1, <1>3, <2>1 DEF IInv, CallOK, ControlOK, ProgressOK, Placed
  <2>3. AckOK(c)'
    <3>1. ack'[c] = NoAck
      BY <2>1 DEF IInv, CallOK, ControlOK
    <3> QED
      BY <3>1 DEF AckOK, AckTrue, Refused, NoAck
  <2> QED
    BY <1>1, <1>2, <2>1, <2>2, <2>3, QuietStep DEF CallOK
<1>4. CASE ~(attempts[c] < MaxRetries)
  <2>1. pc'[c] = "done" /\ ack'[c] = [status |-> "write_conflict", rev |-> 0]
    BY <1>4 DEF IInv, TypeOK, RetryInsert, Goto, Answer
  <2>2. ControlOK(c)' /\ ProgressOK(c)'
    BY <1>1, <2>1 DEF IInv, CallOK, ControlOK, ProgressOK, Placed, Writing
  <2>3. AckOK(c)'
    BY <1>1, <2>1 DEF AckOK, AckTrue
  <2> QED
    BY <1>1, <1>2, <2>1, <2>2, <2>3, QuietStep DEF CallOK
<1> QED
  BY <1>3, <1>4

LEMMA CollideStep ==
    ASSUME IInv, NEW c \in Calls, Collide(c)
    PROVE  IInv'
<1>1. CASE req[c].event # NoEvent
  <2>1. /\ pc[c] = "place" /\ pc'[c] = "recheck"
        /\ rows' = rows /\ req' = req /\ Others(c)
        /\ UNCHANGED <<tx, kind, snap, attempts, tries, ack>>
    BY <1>1 DEF IInv, TypeOK, Collide, Goto, Others
  <2>2. TypeOK'
    BY <1>1, <2>1 DEF IInv, TypeOK, Collide, Goto, Points
  <2>3. ControlOK(c)'
    BY <2>1 DEF IInv, CallOK, ControlOK, Placed
  <2>4. ProgressOK(c)'
    <3>1. Revs(req[c].key)' = Revs(req[c].key)
      BY <2>1 DEF Revs, RowsOf
    <3> QED
      BY <2>1, <3>1 DEF IInv, CallOK, ProgressOK, NoneBy, Placed, Writing
  <2>5. AckOK(c)'
    <3>1. ack'[c] = NoAck
      BY <2>1 DEF IInv, CallOK, ControlOK
    <3> QED
      BY <3>1 DEF AckOK, AckTrue, Refused, NoAck
  <2> QED
    BY <2>1, <2>2, <2>3, <2>4, <2>5, QuietStep DEF CallOK
<1>2. CASE req[c].event = NoEvent
  BY <1>2, RetryInsertStep DEF Collide
<1> QED
  BY <1>1, <1>2

LEMMA RecheckStep ==
    ASSUME IInv, NEW c \in Calls, Recheck(c)
    PROVE  IInv'
BY AnswerSeenStep, RetryInsertStep DEF Recheck

LEMMA ReadbackStep ==
    ASSUME IInv, NEW c \in Calls, Readback(c)
    PROVE  IInv'
<1> DEFINE w == NewRow(c)
<1>1. /\ pc[c] = "readback" /\ pc'[c] = "done"
      /\ rows' = rows /\ req' = req /\ Others(c)
      /\ UNCHANGED <<tx, kind, snap, attempts, tries>>
  BY DEF IInv, TypeOK, Readback, Goto, Answer, Others
<1>2. /\ Verified(c) => ack'[c] = [status |-> "ok", rev |-> snap[c]]
      /\ ~Verified(c) =>
           ack'[c] = [status |-> "write_verification_failed", rev |-> snap[c]]
  BY DEF IInv, TypeOK, Readback, Answer
<1>3. TypeOK'
  <2>1. pc' \in [Calls -> Points]
    BY DEF IInv, TypeOK, Readback, Goto, Points
  <2>2. ack' \in [Calls -> [status : Statuses, rev : Nat]]
    BY DEF IInv, TypeOK, Readback, Answer, Statuses
  <2> QED
    BY <1>1, <2>1, <2>2 DEF IInv, TypeOK, Row
<1>4. ControlOK(c)' /\ ProgressOK(c)'
  BY <1>1 DEF IInv, CallOK, ControlOK, ProgressOK, Placed, Writing
<1>5. /\ w \in rows /\ w.by = c /\ w.rev = snap[c] /\ w.key = req[c].key
      /\ w.payload = req[c].payload /\ w.tool = req[c].tool
      /\ Fingerprint(w) = OwnFingerprint(c)
  BY <1>1 DEF IInv, CallOK, ProgressOK, NewRow, Fingerprint, OwnFingerprint
<1>6. ~Verified(c) => Overrun(c)'
  <2> SUFFICES ASSUME ~Verified(c)
               PROVE  Overrun(c)'
    OBVIOUS
  <2>1. w \notin History(req[c].key)
    BY <1>5 DEF Verified
  <2>2. ~(snap[c] > LastRev(req[c].key) - HistoryLimit)
    BY <1>5, <2>1 DEF History, RowsOf
  <2>3. PICK n \in Nat : LastRev(req[c].key) = n
    <3>1. PICK n \in Nat : Revs(req[c].key) = 1..n
      BY DEF IInv, TypeOK, TableOK, Keys
    <3> QED
      BY <3>1, LastRevIs
  <2>4. snap[c] \in Nat /\ HistoryLimit \in Nat
    BY BoundsAssumption DEF IInv, TypeOK
  <2>5. LastRev(w.key) >= w.rev + HistoryLimit
    BY <1>5, <2>2, <2>3, <2>4
  <2>6. RowsOf(w.key)' = RowsOf(w.key)
    BY <1>1 DEF RowsOf, NewRow
  <2>7. (LastRev(w.key) >= w.rev + HistoryLimit)'
    BY <1>1, <2>5, <2>6 DEF LastRev, NewRow
  <2>8. w' = w
    BY <1>1 DEF NewRow
  <2>9. ack'[c].rev = snap[c]
    BY <1>2
  <2> QED
    BY <1>1, <1>5, <2>7, <2>8, <2>9 DEF Overrun
<1>7. AckOK(c)'
  <2>1. CASE Verified(c)
    <3>1. AckTrue(c)'
      BY <1>1, <1>2, <1>5, <2>1 DEF AckTrue, Fingerprint, OwnFingerprint
    <3> QED
      BY <1>2, <2>1, <3>1 DEF AckOK, Refused
  <2>2. CASE ~Verified(c)
    BY <1>2, <1>6, <2>2 DEF AckOK, AckTrue, Refused
  <2> QED
    BY <2>1, <2>2
<1> QED
  BY <1>1, <1>3, <1>4, <1>7, QuietStep DEF CallOK

\* A drop that commits nothing.
LEMMA DropStep ==
    ASSUME IInv, NEW c \in Calls, pc[c] \notin {"idle", "done"}, Drop(c),
           Rollback(c), rows' = rows
    PROVE  IInv'
<1>1. /\ tx'[c] = {} /\ req' = req /\ Others(c)
      /\ UNCHANGED <<kind, snap>>
      /\ tries'[c] = tries[c] + 1
  BY DEF IInv, TypeOK, Drop, Rollback, Goto, Answer, Others
<1>2. tries[c] + 1 \in 0..ConnRetries
  BY BoundsAssumption DEF IInv, TypeOK, CallOK, ControlOK
<1>3. CASE MayRetry(c)
  <2>1. /\ pc'[c] = Entry(req[c]) /\ attempts'[c] = 0 /\ ack' = ack
        /\ tries'[c] < ConnRetries /\ req[c].event # NoEvent
    BY <1>1, <1>3 DEF IInv, TypeOK, Drop, Goto, MayRetry
  <2>2. TypeOK'
    <3>1. tx' \in [Calls -> SUBSET Row]
      BY DEF IInv, TypeOK, Rollback
    <3>2. pc' \in [Calls -> Points] /\ attempts' \in [Calls -> 0..MaxRetries]
      BY <1>3, BoundsAssumption DEF IInv, TypeOK, Drop, Goto, Entry, Points
    <3>3. tries' \in [Calls -> 0..ConnRetries]
      BY <1>2 DEF IInv, TypeOK, Drop
    <3> QED
      BY <1>1, <2>1, <3>1, <3>2, <3>3 DEF IInv, TypeOK, Row
  <2>3. ControlOK(c)'
    <3>1. /\ pc'[c] \in {"readkind", "precheck"} /\ attempts'[c] < MaxRetries
          /\ req[c].tool = "memory_save" => pc'[c] # "readkind"
      BY <2>1, BoundsAssumption DEF Entry
    <3>2. ack'[c] = NoAck
      BY <2>1 DEF IInv, CallOK, ControlOK
    <3> QED
      BY <1>1, <2>1, <3>1, <3>2 DEF IInv, CallOK, ControlOK, Placed
  <2>4. ProgressOK(c)'
    BY <1>1, <2>1 DEF ProgressOK, Entry, Placed, Writing
  <2>5. AckOK(c)'
    <3>1. ack'[c] = NoAck
      BY <2>1 DEF IInv, CallOK, ControlOK
    <3> QED
      BY <3>1 DEF AckOK, AckTrue, Refused, NoAck
  <2> QED
    BY <1>1, <2>1, <2>2, <2>3, <2>4, <2>5, QuietStep DEF CallOK, Entry
<1>4. CASE ~MayRetry(c)
  <2>1. /\ pc'[c] = "done" /\ attempts' = attempts
        /\ ack'[c] = [status |-> "unavailable", rev |-> 0]
    BY <1>4 DEF IInv, TypeOK, Drop, Goto, Answer
  <2>2. TypeOK'
    <3>1. tx' \in [Calls -> SUBSET Row]
      BY DEF IInv, TypeOK, Rollback
    <3>2. /\ pc' \in [Calls -> Points]
          /\ ack' \in [Calls -> [status : Statuses, rev : Nat]]
      BY <1>4 DEF IInv, TypeOK, Drop, Goto, Answer, Points, Statuses
    <3>3. tries' \in [Calls -> 0..ConnRetries]
      BY <1>2 DEF IInv, TypeOK, Drop
    <3> QED
      BY <1>1, <2>1, <3>1, <3>2, <3>3 DEF IInv, TypeOK, Row
  <2>3. ControlOK(c)' /\ ProgressOK(c)'
    BY <1>1, <2>1 DEF IInv, CallOK, ControlOK, ProgressOK, Placed, Writing
  <2>4. AckOK(c)'
    BY <2>1 DEF AckOK, AckTrue, Refused
  <2> QED
    BY <1>1, <2>1, <2>2, <2>3, <2>4, QuietStep DEF CallOK
<1> QED
  BY <1>3, <1>4

LEMMA DisconnectStep ==
    ASSUME IInv, NEW c \in Calls, Disconnect(c)
    PROVE  IInv'
BY DropStep DEF Disconnect

\* A call that waits for a connection outside its transaction has no open row.
LEMMA PoolTimeoutStep ==
    ASSUME IInv, NEW c \in Calls, PoolTimeout(c)
    PROVE  IInv'
<1>1. tx[c] = {}
  BY DEF IInv, CallOK, ControlOK, PoolTimeout
<1>2. Rollback(c)
  BY <1>1 DEF IInv, TypeOK, PoolTimeout, Rollback
<1> QED
  BY <1>2, DropStep DEF PoolTimeout

LEMMA CancelledStep ==
    ASSUME IInv, NEW c \in Calls, Cancelled(c)
    PROVE  IInv'
<1>1. /\ tx'[c] = {} /\ rows' = rows /\ req' = req /\ Others(c)
      /\ UNCHANGED <<kind, snap, attempts, tries>>
      /\ pc'[c] = "done"
      /\ ack'[c] = [status |-> "unavailable", rev |-> 0]
  BY DEF IInv, TypeOK, Cancelled, Rollback, Goto, Answer, Others
<1>2. TypeOK'
  <2>1. tx' \in [Calls -> SUBSET Row]
    BY DEF IInv, TypeOK, Cancelled, Rollback
  <2>2. /\ pc' \in [Calls -> Points]
        /\ ack' \in [Calls -> [status : Statuses, rev : Nat]]
    BY DEF IInv, TypeOK, Cancelled, Goto, Answer, Points, Statuses
  <2> QED
    BY <1>1, <2>1, <2>2 DEF IInv, TypeOK, Row
<1>3. ControlOK(c)' /\ ProgressOK(c)'
  BY <1>1 DEF IInv, CallOK, ControlOK, ProgressOK, Placed, Writing
<1>4. AckOK(c)'
  BY <1>1 DEF AckOK, AckTrue, Refused
<1> QED
  BY <1>1, <1>2, <1>3, <1>4, QuietStep DEF CallOK

-----------------------------------------------------------------------------
(* The two steps that commit.                                               *)

\* What committing its row does to the table and to the other calls.
LEMMA CommitTable ==
    ASSUME IInv, NEW c \in Calls, pc[c] = "commit", rows' = rows \cup tx[c],
           req' = req
    PROVE  TableOK' /\ \A k \in Keys : LastRev(k) \in Nat
                                       /\ LastRev(k)' \in Nat
                                       /\ LastRev(k)' >= LastRev(k)
<1> DEFINE w == NewRow(c)
           key == req[c].key
<1>1. PICK n \in Nat : Revs(key) = 1..n
  BY DEF IInv, TypeOK, TableOK, Keys
<1>2. /\ rows' = rows \cup {w}
      /\ Revs(key)' = 1..(n + 1)
      /\ \A j : j # key => Revs(j)' = Revs(j)
  BY <1>1, CommitExtends
<1>3. Undisturbed(c) /\ NoneBy(c)
  BY DEF IInv, CallOK, ProgressOK, Writing
<1>4. \A r, s \in rows' : (Conflicts(r, s) \/ r.by = s.by) => r = s
  <2>1. w.by = c
    BY DEF NewRow
  <2>2. \A r \in rows : ~Conflicts(w, r) /\ ~Conflicts(r, w) /\ r.by # w.by
    BY <1>3, <2>1 DEF Undisturbed, Conflicts, SameRevision, SameEvent, NoneBy
  <2> QED
    BY <1>2, <2>2 DEF IInv, TableOK
<1>5. \A r \in rows' :
        LET q == req[r.by]
        IN  /\ <<r.tool, r.key, r.payload>> = <<q.tool, q.key, q.payload>>
            /\ r.actor = q.actor /\ r.event = q.event
            /\ r.tool = "memory_save" => r.kind = q.kind
  <2>1. /\ w.by = c /\ w.tool = req[c].tool /\ w.key = req[c].key
        /\ w.payload = req[c].payload /\ w.actor = req[c].actor
        /\ w.event = req[c].event
        /\ w.tool = "memory_save" => w.kind = req[c].kind
    BY DEF IInv, CallOK, ControlOK, NewRow
  <2> QED
    BY <1>2, <2>1 DEF IInv, TableOK
<1>6. ASSUME NEW k \in Keys
      PROVE  \E m, l \in Nat : l <= m /\ Revs(k)' = 1..m /\ Revs(k) = 1..l
  <2>1. CASE k = key
    BY <1>1, <1>2, <2>1
  <2>2. CASE k # key
    <3>1. PICK m \in Nat : Revs(k) = 1..m
      BY DEF IInv, TableOK
    <3> QED
      BY <1>2, <2>2, <3>1
  <2> QED
    BY <2>1, <2>2
<1>7. TableOK'
  BY <1>4, <1>5, <1>6 DEF TableOK, Conflicts, SameRevision, SameEvent
<1>8. ASSUME NEW k \in Keys
      PROVE  LastRev(k) \in Nat /\ LastRev(k)' \in Nat /\ LastRev(k)' >= LastRev(k)
  <2>1. PICK m \in Nat, l \in Nat :
               l <= m /\ Revs(k)' = 1..m /\ Revs(k) = 1..l
    BY <1>6
  <2>2. LastRev(k) = l
    BY <2>1, LastRevIs
  <2>3. LastRev(k)' = m
    BY <2>1, MaxUpTo DEF LastRev, Revs
  <2> QED
    BY <2>1, <2>2, <2>3
<1> QED
  BY <1>7, <1>8

LEMMA CommitOther ==
    ASSUME IInv, NEW c \in Calls, pc[c] = "commit", rows' = rows \cup tx[c],
           req' = req, Others(c), NEW d \in Calls \ {c}
    PROVE  CallOK(d)'
<1> DEFINE w == NewRow(c)
<1>1. rows' = rows \cup {w} /\ w.by = c
  BY DEF IInv, CallOK, ControlOK, NewRow
<1>2. NewRow(d)' = NewRow(d) /\ pc'[d] = pc[d] /\ ack'[d] = ack[d]
  BY DEF Others, NewRow
<1>3. ControlOK(d)'
  BY <1>2 DEF IInv, CallOK, ControlOK, Others
<1>4. NoneBy(d) => NoneBy(d)'
  BY <1>1 DEF NoneBy
<1>5. ProgressOK(d)'
  <2>1. ASSUME pc[d] \in Placed, NEW m \in Nat, Revs(req[d].key)' = 1..m
        PROVE  snap'[d] <= m + 1
    <3>1. PICK n \in Nat : Revs(req[d].key) = 1..n
      BY DEF IInv, TypeOK, TableOK, Keys
    <3>2. snap[d] <= n + 1 /\ snap[d] \in Nat
      BY <2>1, <3>1 DEF IInv, TypeOK, CallOK, ProgressOK
    <3>3. n \in {0} \cup 1..m
      <4>1. Revs(req[d].key) \subseteq Revs(req[d].key)'
        BY <1>1 DEF Revs, RowsOf
      <4> QED
        BY <2>1, <3>1, <4>1
    <3> QED
      BY <3>1, <3>2, <3>3 DEF Others
  <2>2. pc[d] = "commit" => Undisturbed(d)'
    <3>1. pc[d] = "commit" => ~Conflicts(NewRow(d), w)
      BY DEF IInv, TxOK
    <3>2. pc[d] = "commit" => Undisturbed(d)
      BY DEF IInv, CallOK, ProgressOK
    <3> QED
      BY <1>1, <1>2, <3>1, <3>2
      DEF Undisturbed, Conflicts, SameRevision, SameEvent
  <2> QED
    BY <1>1, <1>2, <1>4, <2>1, <2>2 DEF IInv, CallOK, ProgressOK
<1>6. AckOK(d)'
  <2>1. OwnFingerprint(d)' = OwnFingerprint(d)
    BY DEF Others, OwnFingerprint
  <2>2. AckTrue(d)'
    BY <1>1, <1>2, <2>1 DEF IInv, CallOK, AckOK, AckTrue, Fingerprint
  <2>3. Refused(d)' => NoneBy(d)'
    BY <1>2, <1>4 DEF IInv, CallOK, AckOK, Refused
  <2>4. Overrun(d) => Overrun(d)'
    <3> SUFFICES ASSUME Overrun(d)
                 PROVE  Overrun(d)'
      OBVIOUS
    <3>1. PICK r \in rows : /\ r.by = d
                            /\ r.rev = ack[d].rev
                            /\ LastRev(r.key) >= r.rev + HistoryLimit
      BY DEF Overrun
    <3>2. r.rev + HistoryLimit \in Nat /\ r.key \in Keys
      BY BoundsAssumption DEF IInv, TypeOK, Row
    <3>3. LastRev(r.key)' >= r.rev + HistoryLimit
      BY <3>1, <3>2, CommitTable
    <3> QED
      BY <1>1, <1>2, <3>1, <3>3 DEF Overrun
  <2> QED
    BY <1>2, <2>2, <2>3, <2>4 DEF IInv, CallOK, AckOK
<1> QED
  BY <1>3, <1>5, <1>6 DEF CallOK

LEMMA CommitFrame ==
    ASSUME IInv, NEW c \in Calls, pc[c] = "commit", rows' = rows \cup tx[c],
           req' = req, Others(c), pc'[c] # "commit", TypeOK', CallOK(c)'
    PROVE  IInv'
<1>1. TableOK'
  BY CommitTable
<1>2. \A d \in Calls : CallOK(d)'
  BY CommitOther
<1>3. TxOK'
  <2>1. \A d \in Calls \ {c} : NewRow(d)' = NewRow(d) /\ pc'[d] = pc[d]
    BY DEF Others, NewRow
  <2> QED
    BY <2>1 DEF IInv, TxOK, Conflicts, SameRevision, SameEvent
<1> QED
  BY <1>1, <1>2, <1>3 DEF IInv

LEMMA CommitStep ==
    ASSUME IInv, NEW c \in Calls, Commit(c)
    PROVE  IInv'
<1> DEFINE key == req[c].key
<1>1. /\ pc[c] = "commit" /\ pc'[c] = "readback" /\ rows' = rows \cup tx[c]
      /\ req' = req /\ Others(c) /\ tx'[c] = {}
      /\ UNCHANGED <<kind, snap, attempts, tries, ack>>
  BY DEF IInv, TypeOK, Commit, Goto, Others
<1>2. PICK n \in Nat : Revs(key) = 1..n
  BY DEF IInv, TypeOK, TableOK, Keys
<1>3. /\ rows' = rows \cup {NewRow(c)}
      /\ snap[c] = n + 1
      /\ Revs(key)' = 1..(n + 1)
  BY <1>1, <1>2, CommitExtends
<1>4. TypeOK'
  <2>1. pc' \in [Calls -> Points] /\ tx' \in [Calls -> SUBSET Row]
    BY DEF IInv, TypeOK, Commit, Goto, Points
  <2>2. rows' \subseteq Row
    BY <1>1 DEF IInv, TypeOK
  <2> QED
    BY <1>1, <2>1, <2>2 DEF IInv, TypeOK, Row
<1>5. ControlOK(c)'
  BY <1>1 DEF IInv, CallOK, ControlOK, Placed
<1>6. ProgressOK(c)'
  <2>1. \A m \in Nat : 1..(n + 1) = 1..m => m = n + 1
    BY <1>2
  <2>2. \A m \in Nat : Revs(req[c].key)' = 1..m => snap'[c] <= m + 1
    BY <1>1, <1>2, <1>3, <2>1
  <2>3. NewRow(c)' \in rows'
    BY <1>1, <1>3 DEF NewRow
  <2> QED
    BY <1>1, <2>2, <2>3 DEF ProgressOK, Writing
<1>7. AckOK(c)'
  <2>1. ack'[c] = NoAck
    BY <1>1 DEF IInv, CallOK, ControlOK
  <2> QED
    BY <2>1 DEF AckOK, AckTrue, Refused, NoAck
<1> QED
  BY <1>1, <1>4, <1>5, <1>6, <1>7, CommitFrame DEF CallOK

LEMMA CommitAckLostStep ==
    ASSUME IInv, NEW c \in Calls, CommitAckLost(c)
    PROVE  IInv'
<1>1. /\ pc[c] = "commit" /\ rows' = rows \cup tx[c]
      /\ req' = req /\ Others(c) /\ tx'[c] = {}
      /\ UNCHANGED <<kind, snap>>
      /\ tries' = [tries EXCEPT ![c] = @ + 1] /\ tries'[c] = tries[c] + 1
  BY DEF IInv, TypeOK, CommitAckLost, Drop, Goto, Answer, Others
<1>2. /\ rows' \subseteq Row
      /\ tx' \in [Calls -> SUBSET Row]
      /\ tries' \in [Calls -> 0..ConnRetries]
  <2>1. tries[c] + 1 \in 0..ConnRetries
    BY <1>1, BoundsAssumption DEF IInv, TypeOK, CallOK, ControlOK
  <2>2. tries' \in [Calls -> 0..ConnRetries]
    BY <1>1, <2>1 DEF IInv, TypeOK
  <2> QED
    BY <2>2 DEF IInv, TypeOK, CommitAckLost
<1>3. CASE MayRetry(c)
  <2>1. /\ pc'[c] \in {"readkind", "precheck"} /\ ack' = ack
        /\ pc' = [pc EXCEPT ![c] = Entry(req[c])]
        /\ attempts' = [attempts EXCEPT ![c] = 0]
        /\ attempts'[c] < MaxRetries /\ tries'[c] < ConnRetries
        /\ req[c].event # NoEvent
        /\ req[c].tool = "memory_save" => pc'[c] # "readkind"
    BY <1>1, <1>3, BoundsAssumption
    DEF IInv, TypeOK, CommitAckLost, Drop, Goto, MayRetry, Entry
  <2>2. TypeOK'
    <3>1. pc' \in [Calls -> Points] /\ attempts' \in [Calls -> 0..MaxRetries]
      BY <2>1, BoundsAssumption DEF IInv, TypeOK, Entry, Points
    <3> QED
      BY <1>1, <1>2, <2>1, <3>1 DEF IInv, TypeOK, Row
  <2>3. ack'[c] = NoAck
    BY <1>1, <2>1 DEF IInv, CallOK, ControlOK
  <2>4. ControlOK(c)'
    BY <1>1, <2>1, <2>3 DEF IInv, CallOK, ControlOK, Placed
  <2>5. ProgressOK(c)'
    BY <1>1, <2>1 DEF ProgressOK, Placed, Writing
  <2>6. AckOK(c)'
    BY <2>3 DEF AckOK, AckTrue, Refused, NoAck
  <2> QED
    BY <1>1, <2>1, <2>2, <2>4, <2>5, <2>6, CommitFrame DEF CallOK
<1>4. CASE ~MayRetry(c)
  <2>1. /\ pc' = [pc EXCEPT ![c] = "done"] /\ pc'[c] = "done"
        /\ attempts' = attempts
        /\ ack' = [ack EXCEPT ![c] = [status |-> "unavailable", rev |-> 0]]
        /\ ack'[c] = [status |-> "unavailable", rev |-> 0]
    BY <1>4 DEF IInv, TypeOK, CommitAckLost, Drop, Goto, Answer
  <2>2. TypeOK'
    <3>1. /\ pc' \in [Calls -> Points]
          /\ ack' \in [Calls -> [status : Statuses, rev : Nat]]
      BY <2>1 DEF IInv, TypeOK, Points, Statuses
    <3> QED
      BY <1>1, <1>2, <2>1, <3>1 DEF IInv, TypeOK, Row
  <2>3. ControlOK(c)' /\ ProgressOK(c)'
    BY <1>1, <2>1 DEF IInv, CallOK, ControlOK, ProgressOK, Placed, Writing
  <2>4. AckOK(c)'
    BY <2>1 DEF AckOK, AckTrue, Refused
  <2> QED
    BY <1>1, <2>1, <2>2, <2>3, <2>4, CommitFrame DEF CallOK
<1> QED
  BY <1>3, <1>4

LEMMA CrashStep ==
    ASSUME IInv, Crash
    PROVE  IInv'
<1>1. /\ rows' = rows /\ req' = req
      /\ UNCHANGED <<kind, snap, attempts, tries>>
  BY DEF Crash
<1>2. TypeOK'
  BY DEF IInv, TypeOK, Crash, Points, Statuses, Row
<1>3. TableOK'
  BY <1>1 DEF IInv, TableOK, Revs, RowsOf
<1>4. ASSUME NEW c \in Calls
      PROVE  CallOK(c)' /\ pc'[c] # "commit"
  <2>1. tx'[c] = {}
    BY DEF Crash
  <2>2. CASE c \in InFlight
    <3>1. pc'[c] = "done" /\ ack'[c] = [status |-> "unavailable", rev |-> 0]
      BY <2>2 DEF Crash
    <3>2. ControlOK(c)' /\ ProgressOK(c)'
      BY <1>1, <2>1, <3>1 DEF IInv, CallOK, ControlOK, ProgressOK, Placed, Writing
    <3>3. AckOK(c)'
      BY <3>1 DEF AckOK, AckTrue, Refused
    <3> QED
      BY <3>1, <3>2, <3>3 DEF CallOK
  <2>3. CASE c \notin InFlight
    <3>1. pc[c] \in {"idle", "done"} /\ pc'[c] = pc[c] /\ ack'[c] = ack[c]
      BY <2>3 DEF Crash, InFlight
    <3>2. ControlOK(c)' /\ ProgressOK(c)'
      BY <1>1, <2>1, <3>1
      DEF IInv, CallOK, ControlOK, ProgressOK, NoneBy, Placed, Writing
    <3>3. AckOK(c)'
      <4>1. \A k : RowsOf(k)' = RowsOf(k)
        BY <1>1 DEF RowsOf
      <4>2. Overrun(c)' <=> Overrun(c)
        BY <1>1, <3>1, <4>1 DEF Overrun, LastRev
      <4>3. AckTrue(c)' <=> AckTrue(c)
        BY <1>1, <3>1 DEF AckTrue, Fingerprint, OwnFingerprint
      <4> QED
        BY <1>1, <3>1, <4>2, <4>3 DEF IInv, CallOK, AckOK, Refused, NoneBy
    <3> QED
      BY <3>1, <3>2, <3>3 DEF CallOK
  <2> QED
    BY <2>2, <2>3
<1> QED
  BY <1>2, <1>3, <1>4 DEF IInv, TxOK

-----------------------------------------------------------------------------
(* The invariant, and what follows from it.                                 *)

LEMMA InitInv == Init => IInv
<1> SUFFICES ASSUME Init
             PROVE  IInv
  OBVIOUS
<1>1. req \in [Calls -> Requests]
  BY RequestsAssumption DEF Init
<1>2. TypeOK
  BY <1>1, BoundsAssumption DEF Init, TypeOK, Points, Statuses, NoAck
<1>3. TableOK
  <2>1. \A k : Revs(k) = 1..0
    BY DEF Init, Revs, RowsOf
  <2> QED
    BY <2>1 DEF Init, TableOK
<1>4. ASSUME NEW c \in Calls
      PROVE  CallOK(c)
  <2>1. ControlOK(c)
    BY BoundsAssumption DEF Init, ControlOK, Placed
  <2>2. ProgressOK(c)
    BY DEF Init, ProgressOK, NoneBy, Placed
  <2>3. AckOK(c)
    BY DEF Init, AckOK, AckTrue, Refused, NoAck
  <2> QED
    BY <2>1, <2>2, <2>3 DEF CallOK
<1> QED
  BY <1>2, <1>3, <1>4 DEF Init, IInv, TxOK

LEMMA NextInv == IInv /\ [Next]_vars => IInv'
<1> SUFFICES ASSUME IInv, [Next]_vars
             PROVE  IInv'
  OBVIOUS
<1>1. CASE Crash
  BY <1>1, CrashStep
<1>2. ASSUME NEW c \in Calls, Start(c) \/ Proceed(c) \/ Disconnect(c)
                              \/ CommitAckLost(c) \/ Cancelled(c)
      PROVE  IInv'
  <2>1. CASE Proceed(c)
    BY <2>1, ReadKindStep, PrecheckStep, InsertStep, PlaceStep, CollideStep,
       RecheckStep, CommitStep, ReadbackStep, PoolTimeoutStep DEF Proceed
  <2> QED
    BY <1>2, <2>1, StartStep, DisconnectStep, CommitAckLostStep, CancelledStep
<1>3. CASE UNCHANGED vars
  <2>1. \A c : NewRow(c)' = NewRow(c)
    BY <1>3 DEF vars, NewRow
  <2>2. \A k : RowsOf(k)' = RowsOf(k)
    BY <1>3 DEF vars, RowsOf
  <2>3. \A k : Revs(k)' = Revs(k) /\ LastRev(k)' = LastRev(k)
    BY <2>2 DEF Revs, LastRev
  <2>4. TypeOK' /\ TableOK' /\ TxOK'
    BY <1>3, <2>1, <2>3 DEF vars, IInv, TypeOK, TableOK, TxOK, Row
  <2>5. ASSUME NEW c \in Calls
        PROVE  CallOK(c)'
    <3>1. ControlOK(c)'
      BY <1>3, <2>1 DEF vars, IInv, CallOK, ControlOK
    <3>2. ProgressOK(c)'
      BY <1>3, <2>1, <2>3
      DEF vars, IInv, CallOK, ProgressOK, NoneBy, Undisturbed, Conflicts,
          SameRevision, SameEvent
    <3>3. AckOK(c)'
      BY <1>3, <2>3
      DEF vars, IInv, CallOK, AckOK, AckTrue, Refused, Overrun, NoneBy,
          Fingerprint, OwnFingerprint
    <3> QED
      BY <3>1, <3>2, <3>3 DEF CallOK
  <2> QED
    BY <2>4, <2>5 DEF IInv
<1> QED
  BY <1>1, <1>2, <1>3 DEF Next

\* The invariant holds of every behaviour.
THEOREM InvariantHolds == Spec => []IInv
<1> QED
  BY InitInv, NextInv, PTL DEF Spec

\* The write path keeps its types; the retry loops keep their bounds.
THEOREM TypeCorrect == Spec => []TypeOK
<1>1. IInv => TypeOK
  BY DEF IInv
<1> QED
  BY <1>1, InvariantHolds, PTL

\* Every key's revisions are 1..n, one row each, however writers race.
THEOREM RevisionsAreDense == Spec => []RevisionsDense
<1>1. IInv => RevisionsDense
  <2> SUFFICES ASSUME IInv
               PROVE  RevisionsDense
    OBVIOUS
  <2>1. \A r, s \in rows : SameRevision(r, s) => r = s
    BY DEF IInv, TableOK, Conflicts
  <2>2. ASSUME NEW r \in rows, NEW n \in 1..r.rev
        PROVE  \E s \in rows : s.key = r.key /\ s.rev = n
    <3>1. r.key \in Keys /\ r.rev \in Nat
      BY DEF IInv, TypeOK, Row
    <3>2. PICK m \in Nat : Revs(r.key) = 1..m
      BY <3>1 DEF IInv, TableOK
    <3>3. r.rev \in Revs(r.key)
      BY DEF Revs, RowsOf
    <3>4. n \in Revs(r.key)
      BY <3>1, <3>2, <3>3
    <3> QED
      BY <3>4 DEF Revs, RowsOf
  <2> QED
    BY <2>1, <2>2 DEF RevisionsDense
<1> QED
  BY <1>1, InvariantHolds, PTL

\* An (actor, event_id) lands once, and a call lands once over all its runs.
THEOREM WritesApplyOnce == Spec => []AppliedOnce
<1>1. IInv => AppliedOnce
  BY DEF IInv, TableOK, AppliedOnce, Conflicts
<1> QED
  BY <1>1, InvariantHolds, PTL

\* No caller is told of a row that is not there or does not say that.
THEOREM AnswersAreTrue == Spec => []AckTruthful
<1>1. IInv => AckTruthful
  BY DEF IInv, CallOK, AckOK, AckTruthful
<1> QED
  BY <1>1, InvariantHolds, PTL

\* A refused call has left no row, in any of its runs.
THEOREM RefusalsAreClean == Spec => []RefusedLeavesNothing
<1>1. IInv => RefusedLeavesNothing
  BY DEF IInv, CallOK, AckOK, RefusedLeavesNothing, NoneBy
<1> QED
  BY <1>1, InvariantHolds, PTL

\* A landed write fails its read-back only when newer revisions crowd it out.
THEOREM OnlyOverrunFailsReadback == Spec => []VerificationFailureIsOverrun
<1>1. IInv => VerificationFailureIsOverrun
  BY DEF IInv, CallOK, AckOK, VerificationFailureIsOverrun
<1> QED
  BY <1>1, InvariantHolds, PTL

-----------------------------------------------------------------------------
(* History.                                                                 *)

\* Only the two committing actions touch the table, and what they add is the
\* newest revision of its key.
LEMMA AppendStep ==
    ASSUME IInv, [Next]_vars
    PROVE  [/\ rows \subseteq rows'
            /\ \A r \in rows' \ rows : r.rev > LastRev(r.key)]_rows
<1>1. ASSUME NEW c \in Calls, pc[c] = "commit", rows' = rows \cup tx[c]
      PROVE  /\ rows \subseteq rows'
             /\ \A r \in rows' \ rows : r.rev > LastRev(r.key)
  <2>1. PICK n \in Nat : Revs(req[c].key) = 1..n
    BY DEF IInv, TypeOK, TableOK, Keys
  <2>2. rows' = rows \cup {NewRow(c)} /\ snap[c] = n + 1
    BY <1>1, <2>1, CommitExtends
  <2>3. LastRev(req[c].key) = n
    BY <2>1, LastRevIs
  <2>4. NewRow(c).rev > LastRev(NewRow(c).key)
    BY <2>1, <2>2, <2>3 DEF NewRow
  <2> QED
    BY <2>2, <2>4
<1>2. ASSUME NEW c \in Calls, Start(c) \/ Proceed(c) \/ Disconnect(c)
                              \/ CommitAckLost(c) \/ Cancelled(c), rows' # rows
      PROVE  pc[c] = "commit" /\ rows' = rows \cup tx[c]
  BY <1>2
  DEF Start, Proceed, ReadKind, Precheck, Insert, Place, Collide, Recheck,
      Commit, Readback, PoolTimeout, Disconnect, CommitAckLost, Cancelled
<1>3. Crash => rows' = rows
  BY DEF Crash
<1> QED
  BY <1>1, <1>2, <1>3 DEF Next, vars

\* History only grows, at the end.
THEOREM HistoryOnlyGrows == Spec => AppendOnly
<1> QED
  BY AppendStep, InvariantHolds, PTL DEF Spec, AppendOnly
-----------------------------------------------------------------------------
(* The pool: holding a connection while waiting for a second one cannot       *)
(* stall it, whatever its size.                                             *)

Holding == {"insert", "place", "recheck", "commit"}

\* The call's INSERT has a committed rival: it will be refused, and the call
\* will ask for a second connection if it carries an event_id.
Beaten(c) ==
    \/ SeenEvent(c) # {}
    \/ /\ pc[c] \in {"place", "recheck"}
       /\ \E r \in rows : Conflicts(NewRow(c), r)
BeatenHolders == {c \in HoldsConn : Beaten(c)}

\* Not every connection is held by a beaten call: the one whose commit beat the
\* last of them gave its connection back, and a call that takes it looks its
\* event_id up and computes its revision after that commit.
PoolInv ==
    /\ IsFiniteSet(HoldsConn)
    /\ Cardinality(HoldsConn) <= PoolSize
    /\ Cardinality(BeatenHolders) < PoolSize
    /\ \A c \in Calls : pc[c] = "recheck" => Beaten(c)

-----------------------------------------------------------------------------
(* Cardinalities.                                                           *)

\* Fewer holders, none of them newly beaten.
LEMMA PoolShrinks ==
    ASSUME PoolInv, HoldsConn' \subseteq HoldsConn,
           BeatenHolders' \subseteq BeatenHolders
    PROVE  /\ IsFiniteSet(HoldsConn)'
           /\ Cardinality(HoldsConn)' <= PoolSize
           /\ Cardinality(BeatenHolders)' < PoolSize
<1>1. IsFiniteSet(HoldsConn) /\ IsFiniteSet(BeatenHolders)
  BY FS_Subset DEF PoolInv, BeatenHolders
<1>2. /\ IsFiniteSet(HoldsConn') /\ Cardinality(HoldsConn') <= Cardinality(HoldsConn)
      /\ IsFiniteSet(BeatenHolders')
      /\ Cardinality(BeatenHolders') <= Cardinality(BeatenHolders)
  BY <1>1, FS_Subset
<1>3. /\ Cardinality(HoldsConn) \in Nat /\ Cardinality(HoldsConn') \in Nat
      /\ Cardinality(BeatenHolders) \in Nat /\ Cardinality(BeatenHolders') \in Nat
      /\ PoolSize \in Nat
  BY <1>1, <1>2, FS_CardinalityType, BoundsAssumption
<1> QED
  BY <1>2, <1>3 DEF PoolInv

\* A checkout by a call that is not beaten.
LEMMA PoolGrows ==
    ASSUME PoolInv, ConnFree, NEW c, HoldsConn' = HoldsConn \cup {c},
           BeatenHolders' \subseteq BeatenHolders
    PROVE  /\ IsFiniteSet(HoldsConn)'
           /\ Cardinality(HoldsConn)' <= PoolSize
           /\ Cardinality(BeatenHolders)' < PoolSize
<1>1. IsFiniteSet(HoldsConn) /\ IsFiniteSet(BeatenHolders)
  BY FS_Subset DEF PoolInv, BeatenHolders
<1>2. /\ IsFiniteSet(HoldsConn')
      /\ Cardinality(HoldsConn') <= Cardinality(HoldsConn) + 1
  <2>1. /\ IsFiniteSet(HoldsConn \cup {c})
        /\ Cardinality(HoldsConn \cup {c}) =
             IF c \in HoldsConn THEN Cardinality(HoldsConn)
                               ELSE Cardinality(HoldsConn) + 1
    BY <1>1, FS_AddElement
  <2>2. Cardinality(HoldsConn) \in Nat
    BY <1>1, FS_CardinalityType
  <2> QED
    BY <2>1, <2>2
<1>3. /\ IsFiniteSet(BeatenHolders')
      /\ Cardinality(BeatenHolders') <= Cardinality(BeatenHolders)
  BY <1>1, FS_Subset
<1>4. /\ Cardinality(HoldsConn) \in Nat /\ Cardinality(HoldsConn') \in Nat
      /\ Cardinality(BeatenHolders) \in Nat /\ Cardinality(BeatenHolders') \in Nat
      /\ PoolSize \in Nat
  BY <1>1, <1>2, <1>3, FS_CardinalityType, BoundsAssumption
<1>5. Cardinality(HoldsConn) < PoolSize /\ Cardinality(BeatenHolders) < PoolSize
  BY DEF PoolInv, ConnFree
<1> QED
  BY <1>2, <1>3, <1>4, <1>5

\* A commit may beat every other holder, but it gives a connection back.
LEMMA PoolReturns ==
    ASSUME PoolInv, NEW c \in HoldsConn, HoldsConn' = HoldsConn \ {c}
    PROVE  /\ IsFiniteSet(HoldsConn)'
           /\ Cardinality(HoldsConn)' <= PoolSize
           /\ Cardinality(BeatenHolders)' < PoolSize
<1>1. IsFiniteSet(HoldsConn) /\ Cardinality(HoldsConn) <= PoolSize
  BY DEF PoolInv
<1>2. /\ IsFiniteSet(HoldsConn')
      /\ Cardinality(HoldsConn') = Cardinality(HoldsConn) - 1
  BY <1>1, FS_RemoveElement
<1>3. BeatenHolders' \subseteq HoldsConn'
  BY DEF BeatenHolders
<1>4. /\ IsFiniteSet(BeatenHolders')
      /\ Cardinality(BeatenHolders') <= Cardinality(HoldsConn')
  BY <1>2, <1>3, FS_Subset
<1>5. /\ Cardinality(HoldsConn) \in Nat /\ Cardinality(HoldsConn') \in Nat
      /\ Cardinality(BeatenHolders') \in Nat /\ PoolSize \in Nat
  BY <1>1, <1>2, <1>4, FS_CardinalityType, BoundsAssumption
<1> QED
  BY <1>1, <1>2, <1>4, <1>5

-----------------------------------------------------------------------------
(* Steps.                                                                   *)

\* Steps that commit nothing: the other calls stay as beaten as they were.
LEMMA OthersStay ==
    ASSUME IInv, NEW c \in Calls, rows' = rows, req' = req, Others(c),
           NEW d \in Calls, d # c
    PROVE  /\ d \in HoldsConn' <=> d \in HoldsConn
           /\ Beaten(d)' <=> Beaten(d)
           /\ pc'[d] = pc[d]
<1>1. pc'[d] = pc[d] /\ NewRow(d)' = NewRow(d)
  BY DEF Others, NewRow
<1>2. SeenEvent(d)' = SeenEvent(d)
  BY DEF SeenEvent
<1>3. Beaten(d)' <=> Beaten(d)
  BY <1>1, <1>2 DEF Beaten, Conflicts, SameRevision, SameEvent
<1> QED
  BY <1>1, <1>3 DEF HoldsConn

LEMMA QuietPool ==
    ASSUME IInv, PoolInv, NEW c \in Calls, rows' = rows, req' = req, Others(c),
           pc'[c] \in Holding => pc[c] \in Holding,
           pc'[c] \in Holding /\ Beaten(c)' => Beaten(c),
           pc'[c] = "recheck" => Beaten(c)'
    PROVE  PoolInv'
<1>1. HoldsConn' \subseteq HoldsConn
  BY OthersStay DEF HoldsConn, Holding
<1>2. BeatenHolders' \subseteq BeatenHolders
  BY <1>1, OthersStay DEF BeatenHolders, HoldsConn, Holding
<1>3. \A d \in Calls : pc'[d] = "recheck" => Beaten(d)'
  BY OthersStay DEF PoolInv
<1> QED
  BY <1>1, <1>2, <1>3, PoolShrinks DEF PoolInv

LEMMA PrecheckPool ==
    ASSUME IInv, PoolInv, NEW c \in Calls, Precheck(c)
    PROVE  PoolInv'
<1>1. rows' = rows /\ req' = req /\ Others(c) /\ ConnFree
  BY DEF Precheck, AnswerSeen, Goto, Answer, Others, IInv, TypeOK
<1>2. CASE pc'[c] = "done"
  BY <1>1, <1>2, QuietPool DEF Holding
<1>3. CASE SeenEvent(c) = {} /\ Goto(c, "insert")
  <2>1. pc'[c] = "insert"
    BY <1>3 DEF Goto, IInv, TypeOK
  <2>2. ~Beaten(c)'
    BY <1>1, <1>3, <2>1 DEF Beaten, SeenEvent
  <2>3. HoldsConn' = HoldsConn \cup {c}
    BY <1>1, <2>1, OthersStay DEF HoldsConn
  <2>4. BeatenHolders' \subseteq BeatenHolders
    BY <1>1, <2>2, OthersStay DEF BeatenHolders, HoldsConn
  <2>5. \A d \in Calls : pc'[d] = "recheck" => Beaten(d)'
    BY <1>1, <2>1, OthersStay DEF PoolInv
  <2> QED
    BY <1>1, <2>3, <2>4, <2>5, PoolGrows DEF PoolInv
<1> QED
  BY <1>2, <1>3 DEF Precheck, AnswerSeen, Goto, IInv, TypeOK

\* The revision an INSERT computes is free, so only its event_id can be beaten.
LEMMA InsertPool ==
    ASSUME IInv, PoolInv, NEW c \in Calls, Insert(c)
    PROVE  PoolInv'
<1>1. /\ rows' = rows /\ req' = req /\ kind' = kind /\ Others(c)
      /\ pc[c] = "insert"
  BY DEF Insert, Goto, Answer, Others, IInv, TypeOK
<1>2. CASE pc'[c] = "done"
  BY <1>1, <1>2, QuietPool DEF Holding
<1>3. CASE snap' = [snap EXCEPT ![c] = NextRevision(c)] /\ Goto(c, "place")
  <2>1. pc'[c] = "place" /\ snap'[c] = LastRev(req[c].key) + 1
    BY <1>3 DEF Goto, NextRevision, IInv, TypeOK
  <2>2. PICK k \in Keys : k = req[c].key
    BY DEF IInv, TypeOK, Keys
  <2>3. PICK n \in Nat : Revs(k) = 1..n
    BY DEF IInv, TableOK
  <2>4. snap'[c] = n + 1
    BY <2>1, <2>2, <2>3, LastRevIs
  <2>5. /\ NewRow(c)'.key = k /\ NewRow(c)'.rev = n + 1
        /\ NewRow(c)'.event = req[c].event /\ NewRow(c)'.actor = req[c].actor
    BY <1>1, <2>2, <2>4 DEF NewRow
  <2>6. \A r \in rows : r.key = k => r.rev \in 1..n
    BY <2>3 DEF Revs, RowsOf
  <2>7. ASSUME NEW r \in rows, Conflicts(NewRow(c)', r)
        PROVE  r \in SeenEvent(c)
    BY <2>5, <2>6, <2>7 DEF Conflicts, SameRevision, SameEvent, SeenEvent
  <2>8. Beaten(c)' => Beaten(c)
    <3>1. SeenEvent(c)' = SeenEvent(c)
      BY <1>1 DEF SeenEvent
    <3>2. CASE \E r \in rows : Conflicts(NewRow(c)', r)
      BY <2>7, <3>2 DEF Beaten
    <3> QED
      BY <1>1, <3>1, <3>2 DEF Beaten, Conflicts, SameRevision, SameEvent
  <2> QED
    BY <1>1, <2>1, <2>8, QuietPool DEF Holding
<1> QED
  BY <1>2, <1>3 DEF Insert, Goto, IInv, TypeOK

\* The other steps that commit nothing compute no revision.
LEMMA SteadyPool ==
    ASSUME IInv, PoolInv, NEW c \in Calls, rows' = rows, req' = req, Others(c),
           NewRow(c)' = NewRow(c),
           \/ pc'[c] \notin Holding
           \/ pc[c] \in Holding /\ pc'[c] \in {"insert", "commit"}
           \/ /\ pc[c] = "place" /\ pc'[c] = "recheck"
              /\ \E r \in rows : Conflicts(NewRow(c), r)
    PROVE  PoolInv'
<1>1. SeenEvent(c)' = SeenEvent(c)
  BY DEF SeenEvent
<1>2. pc'[c] \in Holding => pc[c] \in Holding
  BY DEF Holding
<1>3. pc'[c] = "recheck" => Beaten(c) /\ Beaten(c)'
  BY DEF Beaten, Holding, Conflicts, SameRevision, SameEvent
<1>4. pc'[c] \in {"insert", "commit"} /\ Beaten(c)' => Beaten(c)
  BY <1>1 DEF Beaten
<1>5. pc'[c] \in Holding /\ Beaten(c)' => Beaten(c)
  BY <1>3, <1>4 DEF Holding
<1> QED
  BY <1>2, <1>3, <1>5, QuietPool

LEMMA CallPool ==
    ASSUME IInv, PoolInv, NEW c \in Calls,
           \/ Start(c) \/ ReadKind(c) \/ Place(c) \/ Collide(c) \/ Recheck(c)
           \/ Readback(c) \/ PoolTimeout(c) \/ Disconnect(c) \/ Cancelled(c)
    PROVE  PoolInv'
<1>1. Entry(req[c]) \notin Holding
  BY DEF Entry, Holding
<1>2. CASE Start(c)
  <2>1. rows' = rows /\ req' = req /\ Others(c) /\ NewRow(c)' = NewRow(c)
    BY <1>2 DEF Start, Goto, Others, NewRow, IInv, TypeOK
  <2>2. pc'[c] = Entry(req[c])
    BY <1>2 DEF Start, Goto, IInv, TypeOK
  <2> QED
    BY <1>1, <2>1, <2>2, SteadyPool
<1>3. CASE ReadKind(c)
  <2>1. rows' = rows /\ req' = req /\ Others(c)
    BY <1>3 DEF ReadKind, Goto, Others, IInv, TypeOK
  <2>2. pc'[c] = "precheck"
    BY <1>3 DEF ReadKind, Goto, IInv, TypeOK
  <2> QED
    BY <2>1, <2>2, QuietPool DEF Holding
<1>4. CASE Place(c)
  <2>1. rows' = rows /\ req' = req /\ Others(c) /\ NewRow(c)' = NewRow(c)
    BY <1>4 DEF Place, Goto, Others, NewRow, IInv, TypeOK
  <2>2. pc[c] = "place" /\ pc'[c] = "commit"
    BY <1>4 DEF Place, Goto, IInv, TypeOK
  <2> QED
    BY <2>1, <2>2, SteadyPool DEF Holding
<1>5. CASE Collide(c)
  <2>1. rows' = rows /\ req' = req /\ Others(c) /\ NewRow(c)' = NewRow(c)
    BY <1>5 DEF Collide, RetryInsert, Goto, Answer, Others, NewRow, IInv, TypeOK
  <2>2. /\ pc[c] = "place" /\ pc'[c] \in {"recheck", "insert", "done"}
        /\ \E r \in rows : Conflicts(NewRow(c), r)
    BY <1>5 DEF Collide, RetryInsert, Goto, IInv, TypeOK
  <2> QED
    BY <2>1, <2>2, SteadyPool DEF Holding
<1>6. CASE Recheck(c)
  <2>1. rows' = rows /\ req' = req /\ Others(c) /\ NewRow(c)' = NewRow(c)
    BY <1>6 DEF Recheck, AnswerSeen, RetryInsert, Goto, Answer, Others, NewRow,
         IInv, TypeOK
  <2>2. pc[c] = "recheck" /\ pc'[c] \in {"insert", "done"}
    BY <1>6 DEF Recheck, AnswerSeen, RetryInsert, Goto, IInv, TypeOK
  <2> QED
    BY <2>1, <2>2, SteadyPool DEF Holding
<1>7. CASE Readback(c)
  <2>1. rows' = rows /\ req' = req /\ Others(c) /\ NewRow(c)' = NewRow(c)
    BY <1>7 DEF Readback, Goto, Answer, Others, NewRow, IInv, TypeOK
  <2>2. pc'[c] = "done"
    BY <1>7 DEF Readback, Goto, IInv, TypeOK
  <2> QED
    BY <2>1, <2>2, SteadyPool DEF Holding
<1>8. CASE PoolTimeout(c) \/ Disconnect(c)
  <2>1. /\ rows' = rows /\ req' = req /\ Drop(c)
        /\ \A d \in Calls \ {c} : tx'[d] = tx[d]
    BY <1>8 DEF PoolTimeout, Disconnect, Rollback, Drop, IInv, TypeOK
  <2>2. Others(c) /\ NewRow(c)' = NewRow(c)
    BY <2>1 DEF Drop, Goto, Answer, Others, NewRow, IInv, TypeOK
  <2>3. pc'[c] \in {Entry(req[c]), "done"}
    BY <2>1 DEF Drop, Goto, IInv, TypeOK
  <2> QED
    BY <1>1, <2>1, <2>2, <2>3, SteadyPool DEF Holding
<1>9. CASE Cancelled(c)
  <2>1. rows' = rows /\ req' = req /\ Others(c) /\ NewRow(c)' = NewRow(c)
    BY <1>9 DEF Cancelled, Rollback, Goto, Answer, Others, NewRow, IInv, TypeOK
  <2>2. pc'[c] = "done"
    BY <1>9 DEF Cancelled, Goto, IInv, TypeOK
  <2> QED
    BY <2>1, <2>2, SteadyPool DEF Holding
<1> QED
  BY <1>2, <1>3, <1>4, <1>5, <1>6, <1>7, <1>8, <1>9

LEMMA CommitPool ==
    ASSUME IInv, PoolInv, NEW c \in Calls, Commit(c) \/ CommitAckLost(c)
    PROVE  PoolInv'
<1>1. /\ pc[c] = "commit" /\ rows \subseteq rows' /\ req' = req /\ kind' = kind
      /\ snap' = snap
      /\ \A d \in Calls \ {c} : pc'[d] = pc[d]
      /\ pc'[c] \notin Holding
  BY DEF Commit, CommitAckLost, Drop, Entry, Goto, Holding, IInv, TypeOK
<1>2. HoldsConn' = HoldsConn \ {c} /\ c \in HoldsConn
  BY <1>1 DEF HoldsConn, Holding
<1>3. ASSUME NEW d \in Calls, pc'[d] = "recheck"
      PROVE  Beaten(d)'
  <2>1. d # c /\ pc[d] = "recheck" /\ NewRow(d)' = NewRow(d)
    BY <1>1, <1>3 DEF Holding, NewRow
  <2>2. Beaten(d)
    BY <2>1 DEF PoolInv
  <2>3. SeenEvent(d) \subseteq SeenEvent(d)'
    BY <1>1 DEF SeenEvent
  <2> QED
    BY <1>1, <1>3, <2>1, <2>2, <2>3
    DEF Beaten, Conflicts, SameRevision, SameEvent
<1> QED
  BY <1>2, <1>3, PoolReturns DEF PoolInv

LEMMA CrashPool ==
    ASSUME IInv, PoolInv, Crash
    PROVE  PoolInv'
<1>1. \A c \in Calls : pc'[c] \notin Holding
  BY DEF Crash, InFlight, Holding, IInv, TypeOK
<1>2. HoldsConn' = {} /\ BeatenHolders' = {}
  BY <1>1 DEF HoldsConn, BeatenHolders, Holding
<1>3. \A c \in Calls : pc'[c] # "recheck"
  BY <1>1 DEF Holding
<1> QED
  BY <1>2, <1>3, PoolShrinks DEF PoolInv

LEMMA PoolInit == Init => PoolInv
<1> SUFFICES ASSUME Init
             PROVE  PoolInv
  OBVIOUS
<1>1. HoldsConn = {} /\ BeatenHolders = {}
  BY DEF Init, HoldsConn, BeatenHolders
<1> QED
  BY <1>1, FS_EmptySet, BoundsAssumption DEF Init, PoolInv

LEMMA PoolNext == IInv /\ PoolInv /\ [Next]_vars => PoolInv'
<1> SUFFICES ASSUME IInv, PoolInv, [Next]_vars
             PROVE  PoolInv'
  OBVIOUS
<1>1. CASE UNCHANGED vars
  <2>1. /\ HoldsConn' = HoldsConn
        /\ \A c : NewRow(c)' = NewRow(c) /\ SeenEvent(c)' = SeenEvent(c)
    BY <1>1 DEF vars, HoldsConn, NewRow, SeenEvent
  <2>2. \A c : Beaten(c)' <=> Beaten(c)
    BY <1>1, <2>1 DEF vars, Beaten, Conflicts, SameRevision, SameEvent
  <2>3. BeatenHolders' = BeatenHolders
    BY <2>1, <2>2 DEF BeatenHolders
  <2> QED
    BY <1>1, <2>1, <2>2, <2>3 DEF PoolInv, vars
<1>2. CASE Crash
  BY <1>2, CrashPool
<1>3. ASSUME NEW c \in Calls,
             Start(c) \/ Proceed(c) \/ Disconnect(c) \/ CommitAckLost(c)
             \/ Cancelled(c)
      PROVE  PoolInv'
  BY <1>3, PrecheckPool, InsertPool, CallPool, CommitPool DEF Proceed
<1> QED
  BY <1>1, <1>2, <1>3 DEF Next

LEMMA PoolHasAFinisher == PoolInv => NoHoldAndWait
<1> SUFFICES ASSUME PoolInv, ~ConnFree, \A c \in HoldsConn : pc[c] = "recheck"
             PROVE  FALSE
  BY DEF NoHoldAndWait
<1>1. BeatenHolders = HoldsConn
  BY DEF PoolInv, BeatenHolders, HoldsConn
<1>2. Cardinality(HoldsConn) \in Nat /\ PoolSize \in Nat
  BY FS_CardinalityType, BoundsAssumption DEF PoolInv
<1> QED
  BY <1>1, <1>2 DEF PoolInv, ConnFree

\* _append looks a collision up on a second connection while it holds the first
\* (postgres.py's _append and _seen_event).  However many calls race and however
\* few connections there are, a full pool has a holder that needs no second one.
THEOREM PoolNeverStalls == Spec => []NoHoldAndWait
<1>1. Init => PoolInv
  BY PoolInit
<1>2. IInv /\ PoolInv /\ [Next]_vars => PoolInv'
  BY PoolNext
<1>3. Spec => []PoolInv
  BY <1>1, <1>2, InvariantHolds, PTL DEF Spec
<1> QED
  BY <1>3, PoolHasAFinisher, PTL

-----------------------------------------------------------------------------
(* AppendLog implements ExactlyOnceLog: the rows, read as a log per key, grow  *)
(* by one entry where a call commits, and every answer is one that             *)
(* ExactlyOnceLog allows.                                                   *)

\* The entry of the log a row is read as.
Item(r) ==
    [tool |-> r.tool, kind |-> r.kind, payload |-> r.payload,
     actor |-> r.actor, event |-> r.event, by |-> r.by]
Logs == [k \in Keys |-> LogOf(k)]
PositionOf(r) == <<r.key, r.rev>>

-----------------------------------------------------------------------------
(* The log of a key.                                                        *)

\* With revisions 1..n it has n entries, and each row is the one at its
\* revision.
LEMMA LogIs ==
    ASSUME IInv, NEW k \in Keys, NEW n \in Nat, Revs(k) = 1..n
    PROVE  /\ LogOf(k) \in [1..n -> {Item(r) : r \in rows}]
           /\ \A r \in RowsOf(k) : r.rev \in 1..n /\ LogOf(k)[r.rev] = Item(r)
           /\ \A i \in 1..n : \E r \in RowsOf(k) : r.rev = i
<1>1. LastRev(k) = n
  BY LastRevIs
<1>2. \A i \in 1..n : \E r \in RowsOf(k) : r.rev = i
  BY DEF Revs
<1>3. \A r, s \in RowsOf(k) : r.rev = s.rev => r = s
  BY DEF IInv, TableOK, Conflicts, SameRevision, RowsOf
<1>4. LogOf(k) = [i \in 1..n |-> Item(CHOOSE r \in RowsOf(k) : r.rev = i)]
  BY <1>1 DEF LogOf, Item
<1>5. ASSUME NEW i \in 1..n
      PROVE  (CHOOSE r \in RowsOf(k) : r.rev = i) \in rows
  BY <1>2 DEF RowsOf
<1>6. ASSUME NEW r \in RowsOf(k)
      PROVE  r.rev \in 1..n /\ LogOf(k)[r.rev] = Item(r)
  <2>1. r.rev \in 1..n
    BY DEF Revs
  <2>2. (CHOOSE s \in RowsOf(k) : s.rev = r.rev) = r
    BY <1>3
  <2> QED
    BY <1>4, <2>1, <2>2
<1> QED
  BY <1>2, <1>4, <1>5, <1>6

\* Its entries, over all keys, are the rows.
LEMMA PositionsAreRows ==
    ASSUME IInv
    PROVE  /\ \A r \in rows : /\ PositionOf(r) \in Promise!Positions
                              /\ Promise!At(PositionOf(r)) = Item(r)
           /\ \A p \in Promise!Positions : \E r \in rows : p = PositionOf(r)
<1>1. Promise!Keys = Keys
  BY DEF Promise!Keys, Keys
<1>2. ASSUME NEW r \in rows
      PROVE  /\ PositionOf(r) \in Promise!Positions
             /\ Promise!At(PositionOf(r)) = Item(r)
  <2>1. r.key \in Keys
    BY DEF IInv, TypeOK, Row
  <2>2. PICK n \in Nat : Revs(r.key) = 1..n
    BY <2>1 DEF IInv, TableOK
  <2>3. /\ DOMAIN LogOf(r.key) = 1..n /\ r.rev \in 1..n
        /\ LogOf(r.key)[r.rev] = Item(r)
    BY <2>1, <2>2, LogIs DEF RowsOf
  <2> QED
    BY <1>1, <2>1, <2>3 DEF Promise!Positions, Promise!At, PositionOf
<1>3. ASSUME NEW p \in Promise!Positions
      PROVE  \E r \in rows : p = PositionOf(r)
  <2>1. PICK k \in Keys : p \in {k} \X DOMAIN LogOf(k)
    BY <1>1 DEF Promise!Positions
  <2>2. PICK n \in Nat : Revs(k) = 1..n
    BY DEF IInv, TableOK
  <2>3. p = <<k, p[2]>> /\ p[2] \in 1..n
    BY <2>1, <2>2, LogIs
  <2>4. PICK r \in RowsOf(k) : r.rev = p[2]
    BY <2>2, <2>3, LogIs
  <2> QED
    BY <2>3, <2>4 DEF RowsOf, PositionOf
<1> QED
  BY <1>2, <1>3

\* What a call has landed, and where its event_id is used.
LEMMA LandedIs ==
    ASSUME IInv, NEW c \in Calls
    PROVE  /\ NoneBy(c) => Promise!LandedBy(c) = {}
           /\ \A r \in rows : r.by = c => PositionOf(r) \in Promise!LandedBy(c)
           /\ \A r \in SeenEvent(c) : PositionOf(r) \in Promise!Used(c)
           /\ SeenEvent(c) = {} => Promise!Used(c) = {}
<1>1. NoneBy(c) => Promise!LandedBy(c) = {}
  BY PositionsAreRows DEF NoneBy, Promise!LandedBy, Item
<1>2. \A r \in rows : r.by = c => PositionOf(r) \in Promise!LandedBy(c)
  BY PositionsAreRows DEF Promise!LandedBy, Item
<1>3. \A r \in SeenEvent(c) : PositionOf(r) \in Promise!Used(c)
  BY PositionsAreRows DEF Promise!Used, SeenEvent, Item
<1>4. SeenEvent(c) = {} => Promise!Used(c) = {}
  BY PositionsAreRows DEF Promise!Used, SeenEvent, Item
<1> QED
  BY <1>1, <1>2, <1>3, <1>4

\* The logs depend on the table alone.
LEMMA LogsStay ==
    ASSUME rows' = rows
    PROVE  Logs' = Logs
<1>1. \A k : RowsOf(k)' = RowsOf(k)
  BY DEF RowsOf
<1>2. \A k : LogOf(k)' = LogOf(k)
  BY <1>1 DEF LogOf, LastRev
<1> QED
  BY <1>2 DEF Logs

LEMMA AppendIs ==
    ASSUME NEW S, NEW s \in Seq(S), NEW e \in S, NEW n \in Nat, Len(s) = n
    PROVE  Append(s, e) = [i \in 1..(n + 1) |-> IF i = n + 1 THEN e ELSE s[i]]
<1> DEFINE a == Append(s, e)
<1>1. /\ a \in Seq(S)
      /\ Len(a) = n + 1
      /\ \A i \in 1..n : a[i] = s[i]
      /\ a[n + 1] = e
  BY AppendProperties
<1>2. a \in [1..(n + 1) -> S]
  BY <1>1, LenProperties
<1> HIDE DEF a
<1>3. a = [i \in 1..(n + 1) |-> IF i = n + 1 THEN e ELSE s[i]]
  BY <1>1, <1>2
<1> QED
  BY <1>3 DEF a

\* A commit puts one entry at the end of one key's log.
LEMMA CommitLog ==
    ASSUME IInv, NEW c \in Calls, pc[c] = "commit", rows' = rows \cup tx[c]
    PROVE  Logs' = [Logs EXCEPT ![req[c].key] = Append(@, Item(NewRow(c)))]
<1> DEFINE e == Item(NewRow(c))
<1>1. PICK k \in Keys : k = req[c].key
  BY DEF IInv, TypeOK, Keys
<1>2. PICK n \in Nat : Revs(k) = 1..n
  BY <1>1 DEF IInv, TableOK
<1>3. /\ rows' = rows \cup {NewRow(c)}
      /\ snap[c] = n + 1
      /\ Revs(k)' = 1..(n + 1)
  BY <1>1, <1>2, CommitExtends
<1>4. NewRow(c).rev = n + 1 /\ NewRow(c).key = k
  BY <1>1, <1>3 DEF NewRow
<1>5. RowsOf(k)' = RowsOf(k) \cup {NewRow(c)}
  BY <1>3, <1>4 DEF RowsOf
<1>6. LastRev(k)' = n + 1
  BY <1>3, MaxUpTo DEF LastRev, Revs
<1>7. /\ LogOf(k) \in [1..n -> {Item(r) : r \in rows}]
      /\ \A r \in RowsOf(k) : r.rev \in 1..n /\ LogOf(k)[r.rev] = Item(r)
      /\ \A i \in 1..n : \E r \in RowsOf(k) : r.rev = i
  BY <1>1, <1>2, LogIs
<1>8. LogOf(k)' = [i \in 1..(n + 1) |->
                     Item(CHOOSE r \in RowsOf(k)' : r.rev = i)]
  BY <1>6 DEF LogOf, Item
<1>9. ASSUME NEW i \in 1..n
      PROVE  Item(CHOOSE r \in RowsOf(k)' : r.rev = i) = LogOf(k)[i]
  <2>1. PICK r \in RowsOf(k) : r.rev = i
    BY <1>7
  <2>2. \A s \in RowsOf(k)' : s.rev = i => s = r
    BY <1>4, <1>5, <2>1 DEF IInv, TableOK, Conflicts, SameRevision, RowsOf
  <2>3. (CHOOSE s \in RowsOf(k)' : s.rev = i) = r
    BY <1>5, <2>1, <2>2
  <2> QED
    BY <1>7, <2>1, <2>3
<1>10. (CHOOSE r \in RowsOf(k)' : r.rev = n + 1) = NewRow(c)
  <2>1. \A s \in RowsOf(k)' : s.rev = n + 1 => s = NewRow(c)
    BY <1>5, <1>7
  <2> QED
    BY <1>4, <1>5, <2>1
<1>11. LogOf(k)' = Append(LogOf(k), e)
  <2> DEFINE S == {Item(r) : r \in rows} \cup {e}
             s == LogOf(k)
  <2>1. s \in Seq(S) /\ Len(s) = n /\ e \in S
    BY <1>7
  <2> HIDE DEF S, s, e
  <2>2. Append(s, e) = [i \in 1..(n + 1) |-> IF i = n + 1 THEN e ELSE s[i]]
    BY <2>1, AppendIs
  <2> QED
    BY <1>8, <1>9, <1>10, <2>2 DEF s, e
<1>12. ASSUME NEW j \in Keys, j # k
       PROVE  LogOf(j)' = LogOf(j)
  <2>1. RowsOf(j)' = RowsOf(j)
    BY <1>3, <1>4, <1>12 DEF RowsOf
  <2> QED
    BY <2>1 DEF LogOf, LastRev
<1> QED
  BY <1>1, <1>11, <1>12 DEF Logs

-----------------------------------------------------------------------------
(* Steps.                                                                   *)

\* What a step that commits nothing may do to the answers: give the call one,
\* and speak of an event_id only if the call carries it.
Told(c) ==
    /\ ack[c] = NoAck
    /\ \E s \in Statuses \ {"none"}, n \in Nat :
         /\ Answer(c, s, n)
         /\ s \in {"ok", "deduplicated_replay", "write_verification_failed"}
            \/ n = 0
         /\ s \in {"deduplicated_replay", "idempotency_conflict"}
              => req[c].event # NoEvent

\* The invariant says what was true when the answer was given.
LEMMA ToldIsReply ==
    ASSUME IInv, IInv', NEW c \in Calls, rows' = rows, req' = req, Told(c)
    PROVE  Promise!Next
<1>1. PICK s \in Statuses \ {"none"}, n \in Nat :
        /\ Answer(c, s, n)
        /\ s \in {"ok", "deduplicated_replay", "write_verification_failed"}
           \/ n = 0
        /\ s \in {"deduplicated_replay", "idempotency_conflict"}
             => req[c].event # NoEvent
  BY DEF Told
<1>2. /\ Promise!Answered(c, s, n)
      /\ ack'[c].status = s /\ ack'[c].rev = n
      /\ Promise!Unanswered(c)
  <2>1. ack' = [ack EXCEPT ![c] = [status |-> s, rev |-> n]]
    BY <1>1 DEF Answer
  <2>2. ack[c] = NoAck
    BY DEF Told
  <2>3. ack'[c] = [status |-> s, rev |-> n]
    BY <2>1 DEF IInv, TypeOK
  <2> QED
    BY <2>1, <2>2, <2>3 DEF NoAck, Promise!Answered, Promise!Unanswered
<1>3. UNCHANGED <<Logs, req>>
  BY LogsStay
<1>4. Promise!Reply(c) => Promise!Next
  BY DEF Promise!Next
<1>5. /\ NoneBy(c) => Promise!LandedBy(c) = {}
      /\ \A r \in rows : r.by = c => PositionOf(r) \in Promise!LandedBy(c)
      /\ \A r \in SeenEvent(c) : PositionOf(r) \in Promise!Used(c)
      /\ \A r \in rows : Promise!At(PositionOf(r)) = Item(r)
  BY LandedIs, PositionsAreRows
<1>6. AckTrue(c)' /\ (Refused(c)' => NoneBy(c)') /\ ControlOK(c)'
  BY DEF IInv, CallOK, AckOK
<1>7. CASE s = "ok"
  <2>1. PICK r \in rows : r.by = c /\ r.rev = n
    BY <1>2, <1>6, <1>7 DEF AckTrue
  <2>2. PositionOf(r) \in Promise!LandedBy(c) /\ PositionOf(r)[2] = n
    BY <1>5, <2>1 DEF PositionOf
  <2>3. Promise!ReplyOk(c)
    BY <1>2, <1>7, <2>2 DEF Promise!ReplyOk
  <2> QED
    BY <1>2, <1>3, <1>4, <2>3 DEF Promise!Reply, Logs
<1>8. CASE s = "write_verification_failed"
  <2>1. Overrun(c)'
    BY <1>2, <1>8 DEF IInv, CallOK, AckOK
  <2>2. PICK r \in rows : r.by = c /\ r.rev = n
    BY <1>2, <2>1 DEF Overrun
  <2>3. PositionOf(r) \in Promise!LandedBy(c) /\ PositionOf(r)[2] = n
    BY <1>5, <2>2 DEF PositionOf
  <2>4. Promise!ReplyUnverified(c)
    BY <1>2, <1>8, <2>3 DEF Promise!ReplyUnverified
  <2> QED
    BY <1>2, <1>3, <1>4, <2>4 DEF Promise!Reply, Logs
<1>9. CASE s = "deduplicated_replay"
  <2>1. PICK r \in rows : /\ r.actor = req[c].actor /\ r.event = req[c].event
                          /\ r.rev = n
                          /\ Fingerprint(r) = OwnFingerprint(c)'
    BY <1>2, <1>6, <1>9 DEF AckTrue, Fingerprint
  <2>2. PositionOf(r) \in Promise!Used(c)
    BY <1>1, <1>5, <1>9, <2>1 DEF SeenEvent
  <2>3. /\ r.tool = req[c].tool /\ r.key = req[c].key
        /\ r.payload = req[c].payload
        /\ req[c].tool = "memory_save" => r.kind = req[c].kind
    BY <1>6, <2>1 DEF Fingerprint, OwnFingerprint, ControlOK
  <2>4. Promise!ReplySeen(c)
    <3>1. PositionOf(r)[1] = req[c].key /\ PositionOf(r)[2] = n
      BY <2>1, <2>3 DEF PositionOf
    <3>2. /\ Promise!At(PositionOf(r)).tool = req[c].tool
          /\ Promise!At(PositionOf(r)).payload = req[c].payload
          /\ req[c].tool = "memory_save"
               => Promise!At(PositionOf(r)).kind = req[c].kind
      BY <1>5, <2>3 DEF Item
    <3> QED
      BY <1>2, <1>9, <2>2, <3>1, <3>2 DEF Promise!ReplySeen
  <2> QED
    BY <1>2, <1>3, <1>4, <2>4 DEF Promise!Reply, Logs
<1>10. CASE s = "idempotency_conflict"
  <2>1. PICK r \in rows : /\ r.actor = req[c].actor /\ r.event = req[c].event
                          /\ Fingerprint(r) # OwnFingerprint(c)'
    BY <1>2, <1>6, <1>10 DEF AckTrue, Fingerprint
  <2>2. PositionOf(r) \in Promise!Used(c)
    BY <1>1, <1>5, <1>10, <2>1 DEF SeenEvent
  <2>3. req[c].tool = "memory_save" =>
          r.tool # req[c].tool \/ r.key # req[c].key
          \/ r.payload # req[c].payload \/ r.kind # req[c].kind
    BY <1>6, <2>1 DEF Fingerprint, OwnFingerprint, ControlOK
  <2>4. Promise!ReplyConflict(c)
    <3>1. PositionOf(r)[1] = r.key /\ Promise!At(PositionOf(r)) = Item(r)
      BY <1>5 DEF PositionOf
    <3>2. n = 0
      BY <1>1, <1>10
    <3> QED
      BY <1>2, <1>10, <2>2, <2>3, <3>1, <3>2 DEF Promise!ReplyConflict, Item
  <2> QED
    BY <1>2, <1>3, <1>4, <2>4 DEF Promise!Reply, Logs
<1>11. CASE s \in {"invalid_kind", "write_conflict"}
  <2>1. NoneBy(c)
    BY <1>2, <1>6, <1>11 DEF Refused, NoneBy
  <2>2. n = 0
    BY <1>1, <1>11
  <2>3. Promise!ReplyRefused(c)
    BY <1>2, <1>5, <1>11, <2>1, <2>2 DEF Promise!ReplyRefused
  <2> QED
    BY <1>2, <1>3, <1>4, <2>3 DEF Promise!Reply, Logs
<1>12. CASE s = "unavailable"
  <2>1. ack' = [d \in Calls |-> IF d \in {c}
                                  THEN [status |-> "unavailable", rev |-> 0]
                                  ELSE ack[d]]
    BY <1>1, <1>12 DEF Answer, IInv, TypeOK
  <2>2. Promise!LoseTouch({c})
    BY <1>2, <1>3, <2>1 DEF Promise!LoseTouch, Logs
  <2> QED
    BY <2>2 DEF Promise!Next
<1> QED
  BY <1>7, <1>8, <1>9, <1>10, <1>11, <1>12 DEF Statuses

\* Neither a row nor an answer: the promise stands still.
Silent == rows' = rows /\ req' = req /\ ack' = ack

LEMMA AnswerSeenTells ==
    ASSUME IInv, NEW c \in Calls, pc[c] # "done", NEW r \in SeenEvent(c),
           AnswerSeen(c, r)
    PROVE  Told(c)
<1>1. ack[c] = NoAck /\ req[c].event # NoEvent
  BY DEF IInv, CallOK, ControlOK, SeenEvent
<1>2. r.rev \in Nat
  BY DEF SeenEvent, IInv, TypeOK, Row
<1>3. CASE Answer(c, "deduplicated_replay", r.rev)
  BY <1>1, <1>2, <1>3 DEF Told, Statuses
<1>4. CASE Answer(c, "idempotency_conflict", 0)
  BY <1>1, <1>4 DEF Told, Statuses
<1> QED
  BY <1>3, <1>4 DEF AnswerSeen

LEMMA RefusalTells ==
    ASSUME IInv, NEW c \in Calls, pc[c] # "done",
           \/ Answer(c, "invalid_kind", 0)
           \/ Answer(c, "write_conflict", 0)
           \/ Answer(c, "unavailable", 0)
    PROVE  Told(c)
<1>1. ack[c] = NoAck
  BY DEF IInv, CallOK, ControlOK
<1> QED
  BY <1>1 DEF Told, Statuses

\* Every step that commits nothing and does not end the process.
LEMMA QuietIsReply ==
    ASSUME IInv, NEW c \in Calls,
           \/ Start(c) \/ ReadKind(c) \/ Precheck(c) \/ Insert(c) \/ Place(c)
           \/ Collide(c) \/ Recheck(c) \/ Readback(c) \/ PoolTimeout(c)
           \/ Disconnect(c) \/ Cancelled(c)
    PROVE  rows' = rows /\ req' = req /\ (Silent \/ Told(c))
<1>1. CASE Start(c) \/ ReadKind(c) \/ Place(c)
  BY <1>1 DEF Start, ReadKind, Place, Silent
<1>2. CASE Precheck(c)
  BY <1>2, AnswerSeenTells DEF Precheck, Silent
<1>3. CASE Insert(c)
  BY <1>3, RefusalTells DEF Insert, Silent
<1>4. CASE Collide(c)
  BY <1>4, RefusalTells DEF Collide, RetryInsert, Silent
<1>5. CASE Recheck(c)
  BY <1>5, AnswerSeenTells, RefusalTells DEF Recheck, RetryInsert, Silent
<1>6. CASE Readback(c)
  <2>1. ack[c] = NoAck /\ snap[c] \in Nat
    BY <1>6 DEF Readback, IInv, CallOK, ControlOK, TypeOK
  <2>2. rows' = rows /\ req' = req
    BY <1>6 DEF Readback
  <2> QED
    BY <1>6, <2>1, <2>2 DEF Readback, Told, Statuses
<1>7. CASE PoolTimeout(c)
  BY <1>7, RefusalTells DEF PoolTimeout, Drop, Silent
<1>8. CASE Disconnect(c)
  BY <1>8, RefusalTells DEF Disconnect, Drop, Silent
<1>9. CASE Cancelled(c)
  BY <1>9, RefusalTells DEF Cancelled, Silent
<1> QED
  BY <1>1, <1>2, <1>3, <1>4, <1>5, <1>6, <1>7, <1>8, <1>9

\* A commit is the moment the call lands, heard of or not.
LEMMA CommitLands ==
    ASSUME IInv, NEW c \in Calls, Commit(c) \/ CommitAckLost(c)
    PROVE  Promise!Next
<1>1. /\ pc[c] = "commit" /\ rows' = rows \cup tx[c] /\ req' = req
      /\ ack' = ack \/ Answer(c, "unavailable", 0)
  BY DEF Commit, CommitAckLost, Drop
<1>2. Logs' = [Logs EXCEPT ![req[c].key] = Append(@, Item(NewRow(c)))]
  BY <1>1, CommitLog
<1>3. Item(NewRow(c)) = Promise!EntryFor(c, kind[c])
  BY DEF Item, NewRow, Promise!EntryFor
<1>4. /\ kind[c] \in Kinds
      /\ req[c].tool = "memory_save" => kind[c] = req[c].kind
      /\ ack[c] = NoAck
  BY <1>1 DEF IInv, CallOK, ControlOK, Placed
<1>5. Promise!LandedBy(c) = {}
  BY <1>1, LandedIs DEF IInv, CallOK, ProgressOK, Writing
<1>6. Promise!Used(c) = {}
  <2>1. \A r \in rows : ~Conflicts(NewRow(c), r)
    BY <1>1 DEF IInv, CallOK, ProgressOK, Undisturbed
  <2>2. SeenEvent(c) = {}
    BY <2>1 DEF SeenEvent, Conflicts, SameEvent, NewRow
  <2> QED
    BY <2>2, LandedIs
<1>7. Promise!Unanswered(c)
  BY <1>4 DEF Promise!Unanswered, NoAck
<1>8. ack' = ack \/ Promise!Answered(c, "unavailable", 0)
  BY <1>1 DEF Answer, Promise!Answered
<1>9. Promise!Land(c)
  BY <1>1, <1>2, <1>3, <1>4, <1>5, <1>6, <1>7, <1>8 DEF Promise!Land, Logs
<1> QED
  BY <1>9 DEF Promise!Next

\* When the process dies, every call in flight loses touch.
LEMMA CrashLosesTouch ==
    ASSUME IInv, Crash
    PROVE  Promise!Next
<1>1. ASSUME NEW c \in InFlight
      PROVE  Promise!Unanswered(c)
  <2>1. c \in Calls /\ pc[c] # "done"
    BY DEF InFlight
  <2>2. ack[c] = NoAck
    BY <2>1 DEF IInv, CallOK, ControlOK
  <2> QED
    BY <2>2 DEF NoAck, Promise!Unanswered
<1>2. UNCHANGED <<Logs, req>>
  BY LogsStay DEF Crash
<1>3. Promise!LoseTouch(InFlight)
  BY <1>1, <1>2 DEF Crash, Promise!LoseTouch, Logs
<1>4. InFlight \in SUBSET Calls
  BY DEF InFlight
<1> QED
  BY <1>3, <1>4 DEF Promise!Next

LEMMA StepRefines ==
    IInv /\ IInv' /\ [Next]_vars => [Promise!Next]_<<Logs, req, ack>>
<1> SUFFICES ASSUME IInv, IInv', [Next]_vars
             PROVE  [Promise!Next]_<<Logs, req, ack>>
  OBVIOUS
<1>1. CASE UNCHANGED vars
  BY <1>1, LogsStay DEF vars
<1>2. CASE Crash
  BY <1>2, CrashLosesTouch
<1>3. ASSUME NEW c \in Calls,
             Start(c) \/ Proceed(c) \/ Disconnect(c) \/ CommitAckLost(c)
             \/ Cancelled(c)
      PROVE  [Promise!Next]_<<Logs, req, ack>>
  <2>1. CASE Commit(c) \/ CommitAckLost(c)
    BY <2>1, CommitLands
  <2>2. CASE ~(Commit(c) \/ CommitAckLost(c))
    <3>1. rows' = rows /\ req' = req /\ (Silent \/ Told(c))
      BY <1>3, <2>2, QuietIsReply DEF Proceed
    <3>2. CASE Silent
      BY <3>2, LogsStay DEF Silent
    <3>3. CASE Told(c)
      BY <3>1, <3>3, ToldIsReply
    <3> QED
      BY <3>1, <3>2, <3>3
  <2> QED
    BY <2>1, <2>2
<1> QED
  BY <1>1, <1>2, <1>3 DEF Next

LEMMA InitRefines == Init => Promise!Init
<1> SUFFICES ASSUME Init
             PROVE  Promise!Init
  OBVIOUS
<1>1. \A k : RowsOf(k) = {}
  BY DEF Init, RowsOf
<1>2. Max({0} \cup 1..0) = 0
  BY MaxUpTo
<1>3. \A k : LastRev(k) = 0
  BY <1>1, <1>2 DEF LastRev
<1>4. \A k : LogOf(k) = << >>
  BY <1>3 DEF LogOf
<1>5. Logs = [k \in Promise!Keys |-> << >>]
  BY <1>4 DEF Logs, Promise!Keys, Keys
<1>6. req \in [Calls -> Requests]
  BY RequestsAssumption DEF Init
<1>7. ack = [c \in Calls |-> [status |-> "none", rev |-> 0]]
  BY DEF Init, NoAck
<1> QED
  BY <1>5, <1>6, <1>7 DEF Promise!Init, Logs

\* The write path keeps ExactlyOnceLog's promise: whatever the races, retries,
\* dropped connections and crashes of postgres.py's _append and its callers,
\* each commit puts one entry of the caller at the end of one key's log, at most
\* one per call and per event_id, and every answer is true of the log when given.
THEOREM Implements == Spec => ImplementsExactlyOnceLog
<1>1. ImplementsExactlyOnceLog
        <=> Promise!Init /\ [][Promise!Next]_<<Logs, req, ack>>
  BY DEF ImplementsExactlyOnceLog, Promise!Spec, Logs
<1> QED
  BY <1>1, InvariantHolds, InitRefines, StepRefines, PTL DEF Spec
=============================================================================
