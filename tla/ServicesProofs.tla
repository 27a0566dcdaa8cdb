----------------------------- MODULE ServicesProofs -----------------------------
(***************************************************************************)
(* Store's safety where it is about artifacts, tokens and sessions, for any   *)
(* jobs, workloads and limits.  The parts share the log, the clock and the    *)
(* control points; what one of them may do to the others is settled first.    *)
(***************************************************************************)
EXTENDS Store, TLAPS, FiniteSetTheorems, SequenceTheorems, WellFoundedInduction

-----------------------------------------------------------------------------
(* What a step may do to the parts it does not belong to.                     *)

\* The calls that pass a control point.
At(o, p) ==
    /\ p = "page" => o = "list"
    /\ p \in {"hyde", "keyword"} => o \in {"search", "recall"}
    /\ p \in {"gates", "compare", "bound", "close", "write"} => o = "curate"
    /\ p \in {"attest", "subject", "verdict"} => o \in {"reconcile", "webhook"}
    /\ p \in {"batons", "session"} => o = "bootstrap"
    /\ p \in {"retry", "guard", "insert"} => o = "append"
    /\ p \in {"existing", "profile", "seed", "register", "readback"} => o = "init"
    /\ p = "fetched" => o = "call"
    /\ p \in {"update", "replace"} => o \in {"rotate", "boot"}
    /\ p = "verify" => o = "put"
    /\ p \in {"inline", "window"} => o = "get"

PointsOK ==
    /\ pc \in [Jobs -> Points]
    /\ \A j \in Jobs : At(task[j].op, pc[j])

WritingOps == {"save", "delete", "observe"}
ReadingOps == {"list", "search", "recall"}
CurationOps == {"curate"}
ClaimsOps == {"reconcile", "webhook", "bootstrap"}
KnowledgeOps == WritingOps \cup ReadingOps \cup CurationOps \cup ClaimsOps
SessionsOps == {"append", "open"}
NamespacesOps == {"init", "edit"}
ArtifactsOps == {"put", "get"}

\* A job takes a step of its own call.
Moves(j, ops) ==
    /\ UNCHANGED <<task, now, head>>
    /\ task[j].op \in ops
    /\ \E p \in Points : pc' = [pc EXCEPT ![j] = p] /\ At(task[j].op, p)

\* The log grows by a row at most.
Grows == log' = log \/ \E r : log' = Append(log, r)

LEMMA WritingMoves ==
  ASSUME NEW j \in Jobs, PointsOK, Writing(j)
  PROVE  Moves(j, WritingOps) /\ Grows
<1>1. CASE Save(j)
  BY <1>1 DEF Save, AppendRow, Goto, Moves, WritingOps, Grows, At, Points, PointsOK
<1>2. CASE Delete(j)
  BY <1>2 DEF Delete, AppendRow, Goto, Moves, WritingOps, Grows, At, Points, PointsOK
<1>3. CASE ObservationLog(j)
  BY <1>3 DEF ObservationLog, AppendRow, Goto, Moves, WritingOps, Grows, At, Points, PointsOK
<1> QED
  BY <1>1, <1>2, <1>3 DEF Writing

LEMMA ReadingMoves ==
  ASSUME NEW j \in Jobs, PointsOK, ReadingStep(j)
  PROVE  Moves(j, ReadingOps) /\ log' = log
<1> USE DEF Goto, Moves, ReadingOps, At, Points, PointsOK, IsSearch
<1>1. CASE ListPage(j)
  BY <1>1 DEF ListPage
<1>2. ASSUME NEW v \in {"text", "hyde"}, ReadVectorLeg(j, v)
      PROVE  Moves(j, ReadingOps) /\ log' = log
  <2>1. CASE v = "text"
    BY <1>2, <2>1 DEF ReadVectorLeg, NextPoint
  <2>2. CASE v = "hyde"
    BY <1>2, <2>2 DEF ReadVectorLeg, NextPoint
  <2> QED
    BY <2>1, <2>2
<1>3. CASE ReadKeywordLeg(j)
  BY <1>3 DEF ReadKeywordLeg
<1> QED
  BY <1>1, <1>2, <1>3 DEF ReadingStep

LEMMA CurationMoves ==
  ASSUME NEW j \in Jobs, PointsOK, CurationStep(j)
  PROVE  Moves(j, CurationOps) /\ Grows
<1> USE DEF Goto, Moves, CurationOps, Grows, At, Points, PointsOK, End, Advance, NextOld
<1>1. CASE Disabled(j)
  BY <1>1 DEF Disabled
<1>2. CASE AskModel(j)
  BY <1>2 DEF AskModel
<1>3. CASE Gates(j)
  BY <1>3 DEF Gates
<1>4. CASE Compare(j)
  BY <1>4 DEF Compare
<1>5. CASE Bound(j)
  BY <1>5 DEF Bound
<1>6. CASE Close(j)
  BY <1>6 DEF Close, Land, AppendRow
<1>7. CASE Write(j)
  BY <1>7 DEF Write, Land, AppendRow, Refuse
<1>8. CASE BreakOff(j)
  BY <1>8 DEF BreakOff
<1> QED
  BY <1>1, <1>2, <1>3, <1>4, <1>5, <1>6, <1>7, <1>8 DEF CurationStep

LEMMA ClaimsMoves ==
  ASSUME NEW j \in Jobs, PointsOK, ClaimsStep(j)
  PROVE  Moves(j, ClaimsOps) /\ Grows
<1> USE DEF Goto, Moves, ClaimsOps, Grows, At, Points, PointsOK
<1>1. CASE ReadClaims(j)
  BY <1>1 DEF ReadClaims, Goes
<1>2. CASE Attest(j)
  BY <1>2 DEF Attest, Observed, Settle
<1>3. CASE ResolveSubject(j)
  BY <1>3 DEF ResolveSubject, Settle
<1>4. CASE SaveVerdict(j)
  BY <1>4 DEF SaveVerdict, Goes, AppendRow
<1>5. CASE BreakPass(j)
  BY <1>5 DEF BreakPass
<1>6. CASE BootstrapHealth(j)
  BY <1>6 DEF BootstrapHealth, Degrade
<1>7. CASE BootstrapBatons(j)
  BY <1>7 DEF BootstrapBatons, Degrade
<1>8. CASE BootstrapSession(j)
  BY <1>8 DEF BootstrapSession
<1> QED
  BY <1>1, <1>2, <1>3, <1>4, <1>5, <1>6, <1>7, <1>8 DEF ClaimsStep

LEMMA SessionsMoves ==
  ASSUME NEW j \in Jobs, PointsOK, SessionsStep(j)
  PROVE  Moves(j, SessionsOps) /\ log' = log
<1> USE DEF Goto, Moves, SessionsOps, At, Points, PointsOK, Replied
<1>1. CASE AppendCheck(j)
  BY <1>1 DEF AppendCheck
<1>2. CASE AppendPlan(j)
  BY <1>2 DEF AppendPlan
<1>3. CASE AppendInsert(j)
  BY <1>3 DEF AppendInsert
<1>4. CASE AppendCollide(j)
  BY <1>4 DEF AppendCollide
<1>5. CASE CreateSession(j)
  BY <1>5 DEF CreateSession
<1>6. CASE SessionDrop(j)
  BY <1>6 DEF SessionDrop, Rerun
<1> QED
  BY <1>1, <1>2, <1>3, <1>4, <1>5, <1>6 DEF SessionsStep

LEMMA NamespacesMoves ==
  ASSUME NEW j \in Jobs, PointsOK, NamespacesStep(j)
  PROVE  Moves(j, NamespacesOps) /\ Grows
<1> USE DEF Goto, Moves, NamespacesOps, Grows, At, Points, PointsOK
<1>1. CASE CheckRegistry(j)
  BY <1>1 DEF CheckRegistry
<1>2. CASE CheckEntries(j)
  BY <1>2 DEF CheckEntries
<1>3. CASE WriteProfile(j)
  BY <1>3 DEF WriteProfile
<1>4. CASE SeedProject(j)
  BY <1>4 DEF SeedProject, AppendRow
<1>5. CASE Register(j)
  BY <1>5 DEF Register
<1>6. CASE ReadBack(j)
  BY <1>6 DEF ReadBack
<1>7. CASE BreakInit(j)
  BY <1>7 DEF BreakInit
<1>8. CASE EditProfile(j)
  BY <1>8 DEF EditProfile
<1> QED
  BY <1>1, <1>2, <1>3, <1>4, <1>5, <1>6, <1>7, <1>8 DEF NamespacesStep

LEMMA TokensMoves ==
  ASSUME NEW j \in Jobs, PointsOK, TokensStep(j)
  PROVE  Moves(j, TokenOps) /\ log' = log
<1> USE DEF Goto, Moves, TokenOps, At, Points, PointsOK, Ended
<1>1. CASE Authorize(j)
  BY <1>1 DEF Authorize, Decide
<1>2. CASE StoreMap(j)
  BY <1>2 DEF StoreMap, Decide
<1>3. CASE Rotate(j)
  BY <1>3 DEF Rotate
<1>4. CASE Boot(j)
  BY <1>4 DEF Boot
<1>5. CASE RetireRow(j)
  BY <1>5 DEF RetireRow
<1>6. CASE Replace(j)
  BY <1>6 DEF Replace
<1>7. CASE Restart(j)
  BY <1>7 DEF Restart, IsTokenOp
<1> QED
  BY <1>1, <1>2, <1>3, <1>4, <1>5, <1>6, <1>7 DEF TokensStep

LEMMA ArtifactsMoves ==
  ASSUME NEW j \in Jobs, PointsOK, ArtifactsStep(j)
  PROVE  Moves(j, ArtifactsOps) /\ log' = log
<1> USE DEF Goto, Moves, ArtifactsOps, At, Points, PointsOK, IsPut, IsGet, Finish
<1>1. CASE ArtifactPut(j)
  BY <1>1 DEF ArtifactPut
<1>2. CASE VerifyPut(j)
  BY <1>2 DEF VerifyPut
<1>3. CASE GetMeta(j)
  BY <1>3 DEF GetMeta
<1>4. CASE GetInline(j)
  BY <1>4 DEF GetInline
<1>5. CASE StreamWindow(j)
  BY <1>5 DEF StreamWindow
<1>6. CASE ArtifactDrop(j)
  BY <1>6 DEF ArtifactDrop
<1> QED
  BY <1>1, <1>2, <1>3, <1>4, <1>5, <1>6 DEF ArtifactsStep

\* Nothing is done to the calls of a part.
Elsewhere(ops) ==
    /\ UNCHANGED task
    /\ \A j \in Jobs : task[j].op \in ops => pc'[j] = pc[j]

LEMMA MovesElsewhere ==
  ASSUME NEW j \in Jobs, NEW ops, NEW others, PointsOK, Moves(j, ops), ops \cap others = {}
  PROVE  Elsewhere(others)
BY DEF Moves, Elsewhere, PointsOK

LEMMA MovesPoints ==
  ASSUME NEW j \in Jobs, NEW ops, PointsOK, Moves(j, ops)
  PROVE  PointsOK'
BY DEF Moves, PointsOK

LEMMA KnowledgeMoves ==
  ASSUME NEW j \in Jobs, PointsOK, KnowledgeStep(j)
  PROVE  Moves(j, KnowledgeOps) /\ Grows
<1> USE DEF Moves, KnowledgeOps
<1>1. CASE Writing(j)
  BY <1>1, WritingMoves
<1>2. CASE ReadingStep(j)
  BY <1>2, ReadingMoves DEF Grows
<1>3. CASE CurationStep(j)
  BY <1>3, CurationMoves
<1>4. CASE ClaimsStep(j)
  BY <1>4, ClaimsMoves
<1> QED
  BY <1>1, <1>2, <1>3, <1>4 DEF KnowledgeStep

LEMMA InitPoints == Init => PointsOK
BY DEF Init, EntriesInit, PointsOK, At, Points

LEMMA PointsStep ==
  ASSUME PointsOK, [Next]_vars
  PROVE  PointsOK'
<1>1. ASSUME NEW j \in Jobs, KnowledgeStep(j)
      PROVE  PointsOK'
  BY <1>1, KnowledgeMoves, MovesPoints
<1>2. ASSUME NEW j \in Jobs, ServiceStep(j)
      PROVE  PointsOK'
  BY <1>2, SessionsMoves, NamespacesMoves, TokensMoves, ArtifactsMoves, MovesPoints
     DEF ServiceStep
<1>3. CASE Tick \/ Push
  BY <1>3 DEF Tick, Push, PointsOK
<1>4. CASE UNCHANGED vars
  BY <1>4 DEF vars, entryVars, PointsOK
<1> QED
  BY <1>1, <1>2, <1>3, <1>4 DEF Next

LEMMA PointsInvariant == Spec => []PointsOK
BY InitPoints, PointsStep, PTL DEF Spec

\* A step is one of the part's, or leaves the part alone.
LEMMA SessionsFrame ==
  ASSUME PointsOK, [Next]_vars
  PROVE  \/ \E j \in Jobs : SessionsStep(j)
         \/ UNCHANGED sessionVars /\ Elsewhere(SessionsOps)
<1> DEFINE Goal == \/ \E j \in Jobs : SessionsStep(j)
                   \/ UNCHANGED sessionVars /\ Elsewhere(SessionsOps)
<1> USE DEF SessionsOps, serviceVars
<1>1. ASSUME NEW j \in Jobs, KnowledgeStep(j), UNCHANGED serviceVars
      PROVE  Goal
  BY <1>1, KnowledgeMoves, MovesElsewhere
     DEF KnowledgeOps, WritingOps, ReadingOps, CurationOps, ClaimsOps
<1>2. ASSUME NEW j \in Jobs, ServiceStep(j)
      PROVE  Goal
  <2>1. CASE SessionsStep(j)
    BY <2>1
  <2>2. CASE NamespacesStep(j) /\ UNCHANGED sessionVars
    BY <2>2, NamespacesMoves, MovesElsewhere DEF NamespacesOps
  <2>3. CASE TokensStep(j) /\ UNCHANGED sessionVars
    BY <2>3, TokensMoves, MovesElsewhere DEF TokenOps
  <2>4. CASE ArtifactsStep(j) /\ UNCHANGED sessionVars
    BY <2>4, ArtifactsMoves, MovesElsewhere DEF ArtifactsOps
  <2> QED
    BY <1>2, <2>1, <2>2, <2>3, <2>4 DEF ServiceStep
<1>3. CASE (Tick \/ Push) /\ UNCHANGED serviceVars
  BY <1>3 DEF Tick, Push, Elsewhere
<1>4. CASE UNCHANGED vars
  BY <1>4 DEF vars, entryVars, serviceVars, Elsewhere
<1> QED
  BY <1>1, <1>2, <1>3, <1>4 DEF Next

LEMMA NamespacesFrame ==
  ASSUME PointsOK, [Next]_vars
  PROVE  \/ \E j \in Jobs : NamespacesStep(j)
         \/ UNCHANGED namespaceVars /\ Elsewhere(NamespacesOps)
<1> DEFINE Goal == \/ \E j \in Jobs : NamespacesStep(j)
                   \/ UNCHANGED namespaceVars /\ Elsewhere(NamespacesOps)
<1> USE DEF NamespacesOps, serviceVars
<1>1. ASSUME NEW j \in Jobs, KnowledgeStep(j), UNCHANGED serviceVars
      PROVE  Goal
  BY <1>1, KnowledgeMoves, MovesElsewhere
     DEF KnowledgeOps, WritingOps, ReadingOps, CurationOps, ClaimsOps
<1>2. ASSUME NEW j \in Jobs, ServiceStep(j)
      PROVE  Goal
  <2>1. CASE SessionsStep(j) /\ UNCHANGED namespaceVars
    BY <2>1, SessionsMoves, MovesElsewhere DEF SessionsOps
  <2>2. CASE NamespacesStep(j)
    BY <2>2
  <2>3. CASE TokensStep(j) /\ UNCHANGED namespaceVars
    BY <2>3, TokensMoves, MovesElsewhere DEF TokenOps
  <2>4. CASE ArtifactsStep(j) /\ UNCHANGED namespaceVars
    BY <2>4, ArtifactsMoves, MovesElsewhere DEF ArtifactsOps
  <2> QED
    BY <1>2, <2>1, <2>2, <2>3, <2>4 DEF ServiceStep
<1>3. CASE (Tick \/ Push) /\ UNCHANGED serviceVars
  BY <1>3 DEF Tick, Push, Elsewhere
<1>4. CASE UNCHANGED vars
  BY <1>4 DEF vars, entryVars, serviceVars, Elsewhere
<1> QED
  BY <1>1, <1>2, <1>3, <1>4 DEF Next

LEMMA TokensFrame ==
  ASSUME PointsOK, [Next]_vars
  PROVE  \/ \E j \in Jobs : TokensStep(j)
         \/ UNCHANGED tokenVars /\ Elsewhere(TokenOps)
<1> DEFINE Goal == \/ \E j \in Jobs : TokensStep(j)
                   \/ UNCHANGED tokenVars /\ Elsewhere(TokenOps)
<1> USE DEF TokenOps, serviceVars
<1>1. ASSUME NEW j \in Jobs, KnowledgeStep(j), UNCHANGED serviceVars
      PROVE  Goal
  BY <1>1, KnowledgeMoves, MovesElsewhere
     DEF KnowledgeOps, WritingOps, ReadingOps, CurationOps, ClaimsOps
<1>2. ASSUME NEW j \in Jobs, ServiceStep(j)
      PROVE  Goal
  <2>1. CASE SessionsStep(j) /\ UNCHANGED tokenVars
    BY <2>1, SessionsMoves, MovesElsewhere DEF SessionsOps
  <2>2. CASE NamespacesStep(j) /\ UNCHANGED tokenVars
    BY <2>2, NamespacesMoves, MovesElsewhere DEF NamespacesOps
  <2>3. CASE TokensStep(j)
    BY <2>3
  <2>4. CASE ArtifactsStep(j) /\ UNCHANGED tokenVars
    BY <2>4, ArtifactsMoves, MovesElsewhere DEF ArtifactsOps
  <2> QED
    BY <1>2, <2>1, <2>2, <2>3, <2>4 DEF ServiceStep
<1>3. CASE (Tick \/ Push) /\ UNCHANGED serviceVars
  BY <1>3 DEF Tick, Push, Elsewhere
<1>4. CASE UNCHANGED vars
  BY <1>4 DEF vars, entryVars, serviceVars, Elsewhere
<1> QED
  BY <1>1, <1>2, <1>3, <1>4 DEF Next

LEMMA ArtifactsFrame ==
  ASSUME PointsOK, [Next]_vars
  PROVE  \/ \E j \in Jobs : ArtifactsStep(j)
         \/ UNCHANGED artifactVars /\ Elsewhere(ArtifactsOps)
<1> DEFINE Goal == \/ \E j \in Jobs : ArtifactsStep(j)
                   \/ UNCHANGED artifactVars /\ Elsewhere(ArtifactsOps)
<1> USE DEF ArtifactsOps, serviceVars
<1>1. ASSUME NEW j \in Jobs, KnowledgeStep(j), UNCHANGED serviceVars
      PROVE  Goal
  BY <1>1, KnowledgeMoves, MovesElsewhere
     DEF KnowledgeOps, WritingOps, ReadingOps, CurationOps, ClaimsOps
<1>2. ASSUME NEW j \in Jobs, ServiceStep(j)
      PROVE  Goal
  <2>1. CASE SessionsStep(j) /\ UNCHANGED artifactVars
    BY <2>1, SessionsMoves, MovesElsewhere DEF SessionsOps
  <2>2. CASE NamespacesStep(j) /\ UNCHANGED artifactVars
    BY <2>2, NamespacesMoves, MovesElsewhere DEF NamespacesOps
  <2>3. CASE TokensStep(j) /\ UNCHANGED artifactVars
    BY <2>3, TokensMoves, MovesElsewhere DEF TokenOps
  <2>4. CASE ArtifactsStep(j)
    BY <2>4
  <2> QED
    BY <1>2, <2>1, <2>2, <2>3, <2>4 DEF ServiceStep
<1>3. CASE (Tick \/ Push) /\ UNCHANGED serviceVars
  BY <1>3 DEF Tick, Push, Elsewhere
<1>4. CASE UNCHANGED vars
  BY <1>4 DEF vars, entryVars, serviceVars, Elsewhere
<1> QED
  BY <1>1, <1>2, <1>3, <1>4 DEF Next

-----------------------------------------------------------------------------
(* Artifacts.                                                               *)

Hows == {"none", "too_large", "stored", "write_verification_failed", "not_found",
         "inline", "url", "sent", "failed"}
Data(j) == task[j].data
PutTypes == {"none"} \cup {task[i].type : i \in {i \in Jobs : IsPut(i)}}

\* A put has its blob from its INSERT to its answer.
PutOK(j) ==
    /\ pc[j] # "done" => cuts[j] < Reconnects
    /\ pc[j] = "verify" => Data(j) \in DOMAIN blobs
    /\ pc[j] = "done" /\ cuts[j] < Reconnects =>
         \/ Len(Data(j)) > MaxBytes
         \/ reply[j].how = "stored" /\ Data(j) \in DOMAIN blobs

\* What was got so far is the beginning of the bytes, under the blob's type.
GotOK(j) ==
    /\ Len(reply[j].bytes) <= Len(Data(j))
    /\ reply[j].bytes = SubSeq(Data(j), 1, Len(reply[j].bytes))
    /\ pc[j] # "done" => reply[j].how = "none"
    /\ pc[j] \in {"inline", "window"} \/ reply[j].how \in {"sent", "inline"} =>
         Data(j) \in DOMAIN blobs /\ reply[j].type = blobs[Data(j)].type
    /\ reply[j].how \in {"sent", "inline"} => reply[j].bytes = Data(j)

\* A blob never changes, its type is that of the first put, and that put alone
\* says it is no duplicate.
BlobsOK ==
    /\ blobs = [sha \in DOMAIN blobs |-> blobs[sha]]
    /\ \A sha \in DOMAIN blobs :
         /\ blobs[sha] \in [bytes : {sha}, type : PutTypes]
         /\ \E i \in Jobs : IsPut(i) /\ Data(i) = sha /\ task[i].type = blobs[sha].type
    /\ \A j \in Jobs : fresh[j] =>
         IsPut(j) /\ Data(j) \in DOMAIN blobs /\ blobs[Data(j)].type = task[j].type
    /\ \A i, j \in Jobs : fresh[i] /\ fresh[j] /\ Data(i) = Data(j) => i = j

ArtifactTypes ==
    /\ \A j \in Jobs : IsPut(j) \/ IsGet(j) => Data(j) \in Bytes
    /\ fresh \in [Jobs -> BOOLEAN]
    /\ cuts \in [Jobs -> Nat]
    /\ reply \in [Jobs -> [how : Hows, bytes : Bytes, type : PutTypes]]

ArtifactsInv ==
    /\ ArtifactTypes
    /\ BlobsOK
    /\ \A j \in Jobs : IsPut(j) => PutOK(j)
    /\ \A j \in Jobs : IsGet(j) => GotOK(j)

LEMMA MinOfTwo ==
  ASSUME NEW a \in Int, NEW b \in Int
  PROVE  Min({a, b}) = IF a <= b THEN a ELSE b
BY DEF Min

\* The window after what was sent, and when it is empty.
LEMMA WindowFollows ==
  ASSUME NEW data \in Bytes, NEW n \in 0..Len(data), NEW k \in Nat,
         data \in DOMAIN blobs, blobs[data].bytes = data
  PROVE  LET m == Min({n + k, Len(data)}) IN
         /\ Window(data, n, k) \in Bytes
         /\ m \in n..Len(data)
         /\ SubSeq(data, 1, n) \o Window(data, n, k) = SubSeq(data, 1, m)
         /\ Len(SubSeq(data, 1, m)) = m
         /\ Window(data, n, k) = <<>> /\ k # 0 => n = Len(data)
<1> DEFINE m == Min({n + k, Len(data)})
<1>1. Len(data) \in Nat
  BY DEF Bytes
<1>2. m = IF n + k <= Len(data) THEN n + k ELSE Len(data)
  <2>1. n + k \in Int /\ Len(data) \in Int
    BY <1>1
  <2> QED
    BY <2>1, MinOfTwo, Zenon
<1>3. m \in n..Len(data)
  BY <1>1, <1>2
<1>4. Window(data, n, k) = SubSeq(data, n + 1, m)
  BY DEF Window
<1> HIDE DEF m
<1>5. data \in Seq(Byte) /\ \A i \in 1..Len(data) : data[i] \in Byte
  BY DEF Bytes
<1>6. /\ SubSeq(data, n + 1, m) \in Seq(Byte) /\ Len(SubSeq(data, n + 1, m)) = m - n
      /\ SubSeq(data, 1, m) \in Seq(Byte) /\ Len(SubSeq(data, 1, m)) = m
  <2>1. \A i \in n + 1..m : data[i] \in Byte
    BY <1>1, <1>3, <1>5
  <2>2. \A i \in 1..m : data[i] \in Byte
    BY <1>1, <1>3, <1>5
  <2>3. n + 1 \in Int /\ m \in Int /\ m - (n + 1) + 1 = m - n /\ m - 1 + 1 = m
    BY <1>1, <1>3
  <2>4. /\ SubSeq(data, n + 1, m) \in Seq(Byte)
        /\ Len(SubSeq(data, n + 1, m)) = IF n + 1 <= m THEN m - (n + 1) + 1 ELSE 0
    BY <2>1, <2>3, SubSeqProperties
  <2>5. /\ SubSeq(data, 1, m) \in Seq(Byte)
        /\ Len(SubSeq(data, 1, m)) = IF 1 <= m THEN m - 1 + 1 ELSE 0
    BY <2>2, <2>3, SubSeqProperties
  <2> QED
    BY <1>1, <1>3, <2>3, <2>4, <2>5
<1>7. SubSeq(data, 1, n) \o SubSeq(data, n + 1, m) = SubSeq(data, 1, m)
  <2>1. 1 \in 1..Len(data) + 1 /\ n \in 1 - 1..Len(data) /\ m \in n..Len(data)
    BY <1>1, <1>3
  <2> QED
    BY <2>1, <1>5, ConcatAdjacentSubSeq
<1>8. SubSeq(data, n + 1, m) = <<>> /\ k # 0 => n = Len(data)
  <2>1. SUFFICES ASSUME SubSeq(data, n + 1, m) = <<>>, k # 0
                 PROVE  n = Len(data)
    OBVIOUS
  <2>2. m - n = 0
    BY <2>1, <1>6, EmptySeq
  <2> QED
    BY <2>1, <2>2, <1>1, <1>2, <1>3
<1> QED
  BY <1>3, <1>4, <1>6, <1>7, <1>8 DEF m, Bytes

LEMMA InitArtifacts == Init => ArtifactsInv
<1> SUFFICES ASSUME Init
             PROVE  ArtifactsInv
  OBVIOUS
<1> USE DEF Init, ArtifactsInit, EntriesInit, NoReply
<1>1. blobs = [sha \in {} |-> 0] /\ DOMAIN blobs = {}
  OBVIOUS
<1>2. ArtifactTypes
  BY ArtifactsAssumption, EntriesAssumption
     DEF ArtifactTypes, Hows, Bytes, PutTypes, IsPut, IsGet, Data
<1>3. BlobsOK
  BY <1>1 DEF BlobsOK
<1>4. ASSUME NEW j \in Jobs
      PROVE  (IsPut(j) => PutOK(j)) /\ (IsGet(j) => GotOK(j))
  <2>1. SubSeq(Data(j), 1, 0) = <<>>
    BY SubSeqEmpty
  <2>2. IsPut(j) => PutOK(j)
    BY EntriesAssumption DEF PutOK
  <2>3. /\ reply[j].bytes = <<>> /\ Len(reply[j].bytes) = 0
        /\ reply[j].how = "none" /\ pc[j] = "idle"
    BY EmptySeq
  <2>4. IsGet(j) => Len(Data(j)) \in Nat
    BY <1>2 DEF ArtifactTypes, Bytes
  <2>5. IsGet(j) => GotOK(j)
    <3> HIDE DEF Init, ArtifactsInit, EntriesInit
    <3>1. SubSeq(Data(j), 1, Len(reply[j].bytes)) = <<>>
      BY <2>1, <2>3
    <3> QED
      BY <3>1, <2>3, <2>4 DEF GotOK
  <2> QED
    BY <2>2, <2>5
<1> QED
  BY <1>2, <1>3, <1>4 DEF ArtifactsInv

LEMMA ArtifactsStays ==
  ASSUME ArtifactsInv, UNCHANGED artifactVars, Elsewhere(ArtifactsOps)
  PROVE  ArtifactsInv'
<1> USE DEF artifactVars, Elsewhere, ArtifactsOps, IsPut, IsGet, Data, PutTypes
<1>1. ArtifactTypes'
  BY DEF ArtifactsInv, ArtifactTypes
<1>2. BlobsOK'
  BY DEF ArtifactsInv, BlobsOK
<1>3. ASSUME NEW j \in Jobs
      PROVE  (IsPut(j) => PutOK(j))' /\ (IsGet(j) => GotOK(j))'
  BY DEF ArtifactsInv, PutOK, GotOK
<1> QED
  BY <1>1, <1>2, <1>3 DEF ArtifactsInv

\* What a step for j leaves of the other jobs, and of the blobs.
ArtifactsOnly(j) ==
    /\ UNCHANGED task
    /\ \A i \in Jobs \ {j} :
         /\ pc'[i] = pc[i] /\ fresh'[i] = fresh[i]
         /\ cuts'[i] = cuts[i] /\ reply'[i] = reply[i]
    /\ \A sha \in DOMAIN blobs : sha \in DOMAIN blobs' /\ blobs'[sha] = blobs[sha]

LEMMA ArtifactsFor ==
  ASSUME NEW j \in Jobs, ArtifactsInv, ArtifactsOnly(j), ArtifactTypes', BlobsOK',
         IsPut(j) => PutOK(j)', IsGet(j) => GotOK(j)'
  PROVE  ArtifactsInv'
<1>1. ASSUME NEW i \in Jobs, i # j
      PROVE  (IsPut(i) => PutOK(i))' /\ (IsGet(i) => GotOK(i))'
  <2>1. PutOK(i) => PutOK(i)'
    BY <1>1 DEF ArtifactsOnly, PutOK, Data
  <2>2. GotOK(i) => GotOK(i)'
    BY <1>1 DEF ArtifactsOnly, GotOK, Data
  <2> QED
    BY <1>1, <2>1, <2>2 DEF ArtifactsInv, ArtifactsOnly, IsPut, IsGet
<1>2. (IsPut(j) => PutOK(j))' /\ (IsGet(j) => GotOK(j))'
  BY DEF ArtifactsOnly, IsPut, IsGet
<1> QED
  BY <1>1, <1>2 DEF ArtifactsInv

\* An INSERT makes a blob, or finds it.
LEMMA PutBlobKeeps ==
  ASSUME NEW j \in Jobs, ArtifactsInv, IsPut(j), PutBlob(j), UNCHANGED task
  PROVE  /\ BlobsOK' /\ Data(j) \in DOMAIN blobs'
         /\ fresh' = [fresh EXCEPT ![j] = fresh'[j]] /\ fresh' \in [Jobs -> BOOLEAN]
         /\ \A sha \in DOMAIN blobs : sha \in DOMAIN blobs' /\ blobs'[sha] = blobs[sha]
<1> DEFINE b == [bytes |-> Data(j), type |-> task[j].type]
<1> USE DEF Data, ArtifactsInv, ArtifactTypes
<1>1. fresh' = [fresh EXCEPT ![j] = Data(j) \notin DOMAIN blobs]
  BY DEF PutBlob
<1>2. blobs' = [sha \in DOMAIN blobs \cup {Data(j)} |->
                  IF sha \in DOMAIN blobs THEN blobs[sha] ELSE b]
  BY DEF PutBlob
<1>3. DOMAIN blobs' = DOMAIN blobs \cup {Data(j)}
  BY <1>2
<1>4. \A sha \in DOMAIN blobs : sha \in DOMAIN blobs' /\ blobs'[sha] = blobs[sha]
  BY <1>2
<1>5. Data(j) \notin DOMAIN blobs => blobs'[Data(j)] = b
  BY <1>2
<1>6. b \in [bytes : {Data(j)}, type : PutTypes]
  BY DEF PutTypes
<1>7. PutTypes' = PutTypes
  BY DEF PutTypes, IsPut
<1>8. ASSUME NEW sha \in DOMAIN blobs'
      PROVE  /\ blobs'[sha] \in [bytes : {sha}, type : PutTypes]
             /\ \E i \in Jobs : IsPut(i) /\ Data(i) = sha /\ task[i].type = blobs'[sha].type
  <2>1. CASE sha \in DOMAIN blobs
    BY <2>1, <1>4 DEF BlobsOK
  <2>2. CASE sha \notin DOMAIN blobs
    <3>1. sha = Data(j) /\ blobs'[sha] = b
      BY <2>2, <1>3, <1>5
    <3> QED
      BY <3>1, <1>6
  <2> QED
    BY <2>1, <2>2
<1>9. ASSUME NEW i \in Jobs, fresh'[i]
      PROVE  IsPut(i) /\ Data(i) \in DOMAIN blobs' /\ blobs'[Data(i)].type = task[i].type
  <2>1. CASE i = j
    <3>1. Data(j) \notin DOMAIN blobs
      BY <2>1, <1>1, <1>9
    <3> QED
      BY <2>1, <3>1, <1>3, <1>5
  <2>2. CASE i # j
    <3>1. fresh[i]
      BY <2>2, <1>1, <1>9
    <3> QED
      BY <3>1, <1>4 DEF BlobsOK
  <2> QED
    BY <2>1, <2>2
<1>10. ASSUME NEW h \in Jobs, NEW i \in Jobs, fresh'[h], fresh'[i], Data(h) = Data(i)
       PROVE  h = i
  <2>1. \A g \in Jobs : fresh'[g] => IF g = j THEN Data(g) \notin DOMAIN blobs
                                   ELSE fresh[g] /\ Data(g) \in DOMAIN blobs
    BY <1>1 DEF BlobsOK
  <2> QED
    BY <2>1, <1>10 DEF BlobsOK
<1>11. BlobsOK'
  <2>1. blobs' = [sha \in DOMAIN blobs' |-> blobs'[sha]]
    BY <1>2
  <2> QED
    BY <2>1, <1>7, <1>8, <1>9, <1>10 DEF BlobsOK, IsPut
<1> QED
  BY <1>1, <1>3, <1>4, <1>11

\* The steps that do not insert leave the blobs as they are.
LEMMA BlobsSame ==
  ASSUME ArtifactsInv, UNCHANGED <<blobs, fresh, task>>
  PROVE  BlobsOK' /\ \A sha \in DOMAIN blobs : sha \in DOMAIN blobs' /\ blobs'[sha] = blobs[sha]
BY DEF ArtifactsInv, BlobsOK, PutTypes, IsPut, Data

LEMMA FinishTypes ==
  ASSUME NEW j \in Jobs, ArtifactsInv, NEW how \in Hows, NEW bytes \in Bytes,
         NEW type \in PutTypes, Finish(j, how, bytes, type)
  PROVE  /\ reply' \in [Jobs -> [how : Hows, bytes : Bytes, type : PutTypes]]
         /\ reply'[j] = [how |-> how, bytes |-> bytes, type |-> type]
         /\ \A i \in Jobs \ {j} : reply'[i] = reply[i]
BY DEF ArtifactsInv, ArtifactTypes, Finish

LEMMA PointsFor ==
  ASSUME NEW j \in Jobs, NEW p, PointsOK, Goto(j, p)
  PROVE  pc'[j] = p /\ \A i \in Jobs \ {j} : pc'[i] = pc[i]
BY DEF PointsOK, Goto

\* An answer, when nothing else changes.
LEMMA Answered ==
  ASSUME NEW j \in Jobs, PointsOK, ArtifactsInv, UNCHANGED <<blobs, fresh, cuts, task>>,
         NEW how \in Hows, NEW bytes \in Bytes, NEW type \in PutTypes, Finish(j, how, bytes, type)
  PROVE  /\ ArtifactTypes' /\ ArtifactsOnly(j) /\ BlobsOK'
         /\ pc'[j] = "done" /\ reply'[j] = [how |-> how, bytes |-> bytes, type |-> type]
<1>1. pc'[j] = "done" /\ \A i \in Jobs \ {j} : pc'[i] = pc[i]
  BY PointsFor DEF Finish
<1>2. /\ reply' \in [Jobs -> [how : Hows, bytes : Bytes, type : PutTypes]]
      /\ reply'[j] = [how |-> how, bytes |-> bytes, type |-> type]
      /\ \A i \in Jobs \ {j} : reply'[i] = reply[i]
  BY FinishTypes
<1>3. BlobsOK'
  BY BlobsSame
<1>4. PutTypes' = PutTypes /\ \A i \in Jobs : IsPut(i)' = IsPut(i) /\ IsGet(i)' = IsGet(i)
  BY DEF PutTypes, IsPut, IsGet
<1>5. ArtifactTypes'
  BY <1>2, <1>4 DEF ArtifactsInv, ArtifactTypes, Data
<1>6. ArtifactsOnly(j)
  BY <1>1, <1>2 DEF ArtifactsOnly
<1> QED
  BY <1>1, <1>2, <1>3, <1>5, <1>6

\* put: too large, or inserted and then found again.
LEMMA ArtifactPutInv ==
  ASSUME NEW j \in Jobs, PointsOK, ArtifactsInv, ArtifactPut(j)
  PROVE  ArtifactsInv'
<1> USE DEF ArtifactPut
<1>1. IsPut(j) /\ ~IsGet(j) /\ PutOK(j)
  BY DEF ArtifactsInv, IsPut, IsGet
<1>2. <<>> \in Bytes /\ "none" \in PutTypes /\ "too_large" \in Hows
  BY DEF Bytes, PutTypes, Hows
<1>3. CASE Len(task[j].data) > MaxBytes
  <2>1. Finish(j, "too_large", <<>>, "none") /\ UNCHANGED <<blobs, fresh>>
    BY <1>3
  <2>2. UNCHANGED <<blobs, fresh, cuts, task>>
    BY <2>1
  <2>3. ArtifactTypes' /\ ArtifactsOnly(j) /\ BlobsOK' /\ pc'[j] = "done"
    BY <1>2, <2>1, <2>2, Answered
  <2>4. PutOK(j)'
    BY <1>3, <2>2, <2>3 DEF PutOK, Data
  <2> QED
    BY <1>1, <2>3, <2>4, ArtifactsFor
<1>4. CASE ~(Len(task[j].data) > MaxBytes)
  <2>1. PutBlob(j) /\ Goto(j, "verify") /\ UNCHANGED reply
    BY <1>4
  <2>2. pc'[j] = "verify" /\ \A i \in Jobs \ {j} : pc'[i] = pc[i]
    BY <2>1, PointsFor
  <2>3. ArtifactTypes' /\ ArtifactsOnly(j) /\ BlobsOK'
    BY <1>1, <2>1, <2>2, PutBlobKeeps
       DEF ArtifactsInv, ArtifactTypes, ArtifactsOnly, IsPut, IsGet, Data, PutTypes
  <2>4. PutOK(j)'
    BY <1>1, <2>1, <2>2, PutBlobKeeps DEF PutOK, Data
  <2> QED
    BY <1>1, <2>3, <2>4, ArtifactsFor
<1> QED
  BY <1>3, <1>4

LEMMA WholeWindow ==
  ASSUME NEW data \in Bytes, data \in DOMAIN blobs, blobs[data].bytes = data
  PROVE  Window(data, 0, Len(data)) = data
<1>1. Len(data) \in Nat
  BY DEF Bytes
<1>2. Min({0 + Len(data), Len(data)}) = Len(data)
  BY <1>1, MinOfTwo
<1>3. SubSeq(data, 1, Len(data)) = data
  BY SubSeqFull DEF Bytes
<1> QED
  BY <1>2, <1>3 DEF Window

LEMMA VerifyPutInv ==
  ASSUME NEW j \in Jobs, PointsOK, ArtifactsInv, VerifyPut(j)
  PROVE  ArtifactsInv'
<1> USE DEF VerifyPut
<1>1. IsPut(j) /\ ~IsGet(j) /\ PutOK(j)
  BY DEF ArtifactsInv, IsPut, IsGet, PointsOK, At
<1>2. Data(j) \in Bytes /\ Data(j) \in DOMAIN blobs /\ blobs[Data(j)].bytes = Data(j)
  BY <1>1 DEF ArtifactsInv, ArtifactTypes, PutOK, BlobsOK
<1>3. Finish(j, "stored", Data(j), task[j].type) /\ UNCHANGED <<blobs, fresh, cuts, task>>
  BY <1>2, WholeWindow DEF Data
<1>4. "stored" \in Hows /\ task[j].type \in PutTypes
  BY <1>1 DEF Hows, PutTypes
<1>5. /\ ArtifactTypes' /\ ArtifactsOnly(j) /\ BlobsOK'
      /\ pc'[j] = "done" /\ reply'[j] = [how |-> "stored", bytes |-> Data(j), type |-> task[j].type]
  BY <1>2, <1>3, <1>4, Answered
<1>6. PutOK(j)'
  BY <1>2, <1>3, <1>5 DEF PutOK, Data
<1> QED
  BY <1>1, <1>5, <1>6, ArtifactsFor

\* A get that ends with an answer, or with none.
LEMMA GetEnds ==
  ASSUME NEW j \in Jobs, PointsOK, ArtifactsInv, IsGet(j), UNCHANGED <<blobs, fresh, cuts, task>>,
         NEW how \in Hows, NEW bytes \in Bytes, NEW type \in PutTypes, Finish(j, how, bytes, type),
         Len(bytes) <= Len(Data(j)), bytes = SubSeq(Data(j), 1, Len(bytes)),
         how \in {"sent", "inline"} =>
           bytes = Data(j) /\ Data(j) \in DOMAIN blobs /\ type = blobs[Data(j)].type
  PROVE  ArtifactsInv'
<1>1. /\ ArtifactTypes' /\ ArtifactsOnly(j) /\ BlobsOK'
      /\ pc'[j] = "done" /\ reply'[j] = [how |-> how, bytes |-> bytes, type |-> type]
  BY Answered
<1>2. GotOK(j)'
  BY <1>1 DEF GotOK, Data
<1>3. ~IsPut(j)
  BY DEF IsPut, IsGet
<1> QED
  BY <1>1, <1>2, <1>3, ArtifactsFor

LEMMA EmptyBytes ==
  <<>> \in Bytes /\ \A data \in Bytes : Len(<<>>) <= Len(data) /\ <<>> = SubSeq(data, 1, Len(<<>>))
<1>1. <<>> \in Seq(Byte) /\ Len(<<>>) = 0
  BY EmptySeq
<1>2. \A data \in Seq(Byte) : Len(data) \in Nat /\ SubSeq(data, 1, 0) = <<>>
  BY SubSeqEmpty
<1> QED
  BY <1>1, <1>2 DEF Bytes

LEMMA GetMetaInv ==
  ASSUME NEW j \in Jobs, PointsOK, ArtifactsInv, GetMeta(j)
  PROVE  ArtifactsInv'
<1>1. IsGet(j) /\ ~IsPut(j) /\ GotOK(j) /\ pc[j] = "idle"
  BY DEF GetMeta, ArtifactsInv, IsPut, IsGet
<1>2. Data(j) \in Bytes /\ "none" \in PutTypes /\ {"not_found", "sent", "url"} \subseteq Hows
  BY <1>1 DEF ArtifactsInv, ArtifactTypes, PutTypes, Hows
<1>3. UNCHANGED <<blobs, fresh, cuts, task>>
  BY DEF GetMeta
<1>4. Len(Data(j)) \in Nat
  BY <1>2 DEF Bytes
<1>5. CASE Data(j) \notin DOMAIN blobs
  <2>1. Finish(j, "not_found", <<>>, "none")
    BY <1>5 DEF GetMeta, Data
  <2> QED
    BY <1>1, <1>2, <1>3, <2>1, EmptyBytes, GetEnds
<1>6. CASE Data(j) \in DOMAIN blobs
  <2> DEFINE type == blobs[Data(j)].type
  <2>1. type \in PutTypes
    BY <1>6 DEF ArtifactsInv, BlobsOK
  <2>2. CASE task[j].http /\ Len(Data(j)) = 0
    <3>1. Finish(j, "sent", <<>>, type)
      BY <1>6, <2>2 DEF GetMeta, Data
    <3>2. Data(j) = <<>>
      BY <1>2, <2>2, EmptySeq DEF Bytes
    <3> QED
      BY <1>1, <1>2, <1>3, <1>6, <2>1, <3>1, <3>2, EmptyBytes, GetEnds
  <2>3. CASE ~task[j].http /\ Len(Data(j)) > InlineLimit
    <3>1. Finish(j, "url", <<>>, "none")
      BY <1>6, <2>3 DEF GetMeta, Data
    <3> QED
      BY <1>1, <1>2, <1>3, <3>1, EmptyBytes, GetEnds
  <2>4. CASE ~(task[j].http /\ Len(Data(j)) = 0) /\ ~(~task[j].http /\ Len(Data(j)) > InlineLimit)
    <3>1. /\ Goto(j, IF task[j].http THEN "window" ELSE "inline")
          /\ reply' = [reply EXCEPT ![j].type = type]
      BY <1>6, <2>4 DEF GetMeta, Data
    <3>2. pc'[j] \in {"window", "inline"} /\ \A i \in Jobs \ {j} : pc'[i] = pc[i]
      BY <3>1, PointsFor
    <3>3. /\ reply' \in [Jobs -> [how : Hows, bytes : Bytes, type : PutTypes]]
          /\ reply'[j] = [reply[j] EXCEPT !.type = type]
          /\ \A i \in Jobs \ {j} : reply'[i] = reply[i]
      BY <3>1, <2>1 DEF ArtifactsInv, ArtifactTypes
    <3>4. /\ reply'[j].how = reply[j].how /\ reply'[j].bytes = reply[j].bytes
          /\ reply'[j].type = type
      BY <3>3 DEF ArtifactsInv, ArtifactTypes
    <3>5. BlobsOK' /\ PutTypes' = PutTypes
          /\ \A i \in Jobs : IsPut(i)' = IsPut(i) /\ IsGet(i)' = IsGet(i) /\ Data(i)' = Data(i)
      BY <1>3, BlobsSame DEF PutTypes, IsPut, IsGet, Data
    <3>6. ArtifactTypes'
      BY <1>3, <3>3, <3>5 DEF ArtifactsInv, ArtifactTypes
    <3>7. ArtifactsOnly(j)
      BY <1>3, <3>2, <3>3 DEF ArtifactsOnly
    <3>8. GotOK(j)'
      BY <1>1, <1>3, <1>6, <3>2, <3>4, <3>5 DEF GotOK
    <3> QED
      BY <1>1, <3>5, <3>6, <3>7, <3>8, ArtifactsFor
  <2> QED
    BY <2>2, <2>3, <2>4
<1> QED
  BY <1>5, <1>6

\* A get that is under way has its blob, and what it got is of it.
LEMMA GettingHasBlob ==
  ASSUME NEW j \in Jobs, PointsOK, ArtifactsInv, pc[j] \in {"inline", "window"}
  PROVE  /\ IsGet(j) /\ ~IsPut(j) /\ GotOK(j)
         /\ Data(j) \in Bytes /\ Data(j) \in DOMAIN blobs /\ blobs[Data(j)].bytes = Data(j)
         /\ reply[j].bytes \in Bytes /\ reply[j].type \in PutTypes
         /\ reply[j].type = blobs[Data(j)].type /\ reply[j].how = "none"
<1>1. IsGet(j) /\ ~IsPut(j)
  BY DEF IsPut, IsGet, PointsOK, At
<1> QED
  BY <1>1 DEF ArtifactsInv, ArtifactTypes, BlobsOK, GotOK

LEMMA GetInlineInv ==
  ASSUME NEW j \in Jobs, PointsOK, ArtifactsInv, GetInline(j)
  PROVE  ArtifactsInv'
<1>1. pc[j] = "inline" /\ UNCHANGED <<blobs, fresh, cuts, task>>
  BY DEF GetInline
<1>2. Window(Data(j), 0, Len(Data(j))) = Data(j)
  BY <1>1, GettingHasBlob, WholeWindow
<1>3. Finish(j, "inline", Data(j), reply[j].type)
  BY <1>2 DEF GetInline, Data
<1>4. Len(Data(j)) <= Len(Data(j)) /\ Data(j) = SubSeq(Data(j), 1, Len(Data(j)))
  BY <1>1, GettingHasBlob, SubSeqFull DEF Bytes
<1>5. "inline" \in Hows
  BY DEF Hows
<1> QED
  BY <1>1, <1>3, <1>4, <1>5, GettingHasBlob, GetEnds

LEMMA StreamWindowInv ==
  ASSUME NEW j \in Jobs, PointsOK, ArtifactsInv, StreamWindow(j)
  PROVE  ArtifactsInv'
<1> DEFINE n == Len(reply[j].bytes)
           m == Min({n + Chunk, Len(Data(j))})
           window == Window(Data(j), n, Chunk)
           sent == reply[j].bytes \o window
<1>1. pc[j] = "window" /\ UNCHANGED <<blobs, fresh, cuts, task>>
  BY DEF StreamWindow
<1>2. Chunk \in Nat \ {0} /\ Len(Data(j)) \in Nat /\ n \in Nat
  BY <1>1, GettingHasBlob, ArtifactsAssumption DEF Bytes
<1>3. n \in 0..Len(Data(j)) /\ reply[j].bytes = SubSeq(Data(j), 1, n)
  BY <1>1, <1>2, GettingHasBlob DEF GotOK
<1>4. /\ m \in n..Len(Data(j)) /\ window \in Bytes
      /\ sent = SubSeq(Data(j), 1, m) /\ Len(SubSeq(Data(j), 1, m)) = m
      /\ window = <<>> => n = Len(Data(j))
  BY <1>1, <1>2, <1>3, GettingHasBlob, WindowFollows
<1>5. sent \in Bytes
  BY <1>1, <1>4, GettingHasBlob, ConcatProperties DEF Bytes
<1> HIDE DEF n, m, window, sent
<1>6. m \in Nat /\ m <= Len(Data(j)) /\ Len(sent) = m /\ sent = SubSeq(Data(j), 1, Len(sent))
  BY <1>2, <1>4
<1>7. CASE window # <<>> /\ Len(sent) < Len(Data(j))
  <2>1. reply' = [reply EXCEPT ![j].bytes = sent] /\ UNCHANGED pc
    BY <1>7 DEF StreamWindow, Data, n, window, sent
  <2>2. /\ reply' \in [Jobs -> [how : Hows, bytes : Bytes, type : PutTypes]]
        /\ reply'[j] = [reply[j] EXCEPT !.bytes = sent]
        /\ \A i \in Jobs \ {j} : reply'[i] = reply[i]
    BY <2>1, <1>5 DEF ArtifactsInv, ArtifactTypes
  <2>3. /\ reply'[j].how = reply[j].how /\ reply'[j].bytes = sent
        /\ reply'[j].type = reply[j].type
    BY <2>2 DEF ArtifactsInv, ArtifactTypes
  <2>4. BlobsOK' /\ PutTypes' = PutTypes
        /\ \A i \in Jobs : IsPut(i)' = IsPut(i) /\ IsGet(i)' = IsGet(i) /\ Data(i)' = Data(i)
    BY <1>1, BlobsSame DEF PutTypes, IsPut, IsGet, Data
  <2>5. ArtifactTypes'
    BY <1>1, <2>2, <2>4 DEF ArtifactsInv, ArtifactTypes
  <2>6. ArtifactsOnly(j)
    BY <1>1, <2>1, <2>2 DEF ArtifactsOnly
  <2>7. GotOK(j)'
    BY <1>1, <1>6, <2>1, <2>3, <2>4, GettingHasBlob DEF GotOK
  <2> QED
    BY <1>1, <2>4, <2>5, <2>6, <2>7, GettingHasBlob, ArtifactsFor
<1>8. CASE ~(window # <<>> /\ Len(sent) < Len(Data(j)))
  <2>1. Finish(j, "sent", sent, reply[j].type)
    BY <1>8 DEF StreamWindow, Data, n, window, sent
  <2>2. m = Len(Data(j))
    BY <1>2, <1>4, <1>6, <1>8
  <2>3. sent = Data(j)
    BY <1>1, <1>4, <2>2, GettingHasBlob, SubSeqFull DEF Bytes
  <2>4. "sent" \in Hows
    BY DEF Hows
  <2> QED
    BY <1>1, <1>5, <1>6, <2>1, <2>3, <2>4, GettingHasBlob, GetEnds
<1> QED
  BY <1>7, <1>8

LEMMA ArtifactDropInv ==
  ASSUME NEW j \in Jobs, PointsOK, ArtifactsInv, ArtifactDrop(j)
  PROVE  ArtifactsInv'
<1>1. UNCHANGED task /\ pc[j] # "done"
  BY DEF ArtifactDrop
<1>2. PutTypes' = PutTypes
      /\ \A i \in Jobs : IsPut(i)' = IsPut(i) /\ IsGet(i)' = IsGet(i) /\ Data(i)' = Data(i)
  BY <1>1 DEF PutTypes, IsPut, IsGet, Data
<1>3. CASE IsPut(j)
  <2>1. ~IsGet(j) /\ PutOK(j)
    BY <1>3 DEF IsPut, IsGet, ArtifactsInv
  <2>2. /\ PutBlob(j) \/ UNCHANGED <<blobs, fresh>>
        /\ cuts' = [cuts EXCEPT ![j] = @ + 1]
        /\ IF cuts[j] + 1 < Reconnects THEN Goto(j, "idle") /\ UNCHANGED reply
           ELSE Finish(j, "failed", <<>>, "none")
    BY <1>3, <2>1 DEF ArtifactDrop
  <2>3. /\ BlobsOK' /\ fresh' \in [Jobs -> BOOLEAN]
        /\ \A i \in Jobs \ {j} : fresh'[i] = fresh[i]
        /\ \A sha \in DOMAIN blobs : sha \in DOMAIN blobs' /\ blobs'[sha] = blobs[sha]
    <3>1. CASE PutBlob(j)
      BY <1>1, <1>3, <3>1, PutBlobKeeps DEF ArtifactsInv, ArtifactTypes
    <3>2. CASE UNCHANGED <<blobs, fresh>>
      BY <1>1, <3>2, BlobsSame DEF ArtifactsInv, ArtifactTypes
    <3> QED
      BY <2>2, <3>1, <3>2
  <2>4. /\ cuts' \in [Jobs -> Nat] /\ cuts'[j] = cuts[j] + 1
        /\ \A i \in Jobs \ {j} : cuts'[i] = cuts[i]
    BY <2>2 DEF ArtifactsInv, ArtifactTypes
  <2>5. "none" \in PutTypes /\ "failed" \in Hows /\ <<>> \in Bytes
    BY EmptyBytes DEF PutTypes, Hows
  <2>6. /\ reply' \in [Jobs -> [how : Hows, bytes : Bytes, type : PutTypes]]
        /\ \A i \in Jobs \ {j} : reply'[i] = reply[i]
        /\ \A i \in Jobs \ {j} : pc'[i] = pc[i]
        /\ pc'[j] = IF cuts[j] + 1 < Reconnects THEN "idle" ELSE "done"
    <3>1. CASE cuts[j] + 1 < Reconnects
      BY <2>2, <3>1, PointsFor DEF ArtifactsInv, ArtifactTypes
    <3>2. CASE ~(cuts[j] + 1 < Reconnects)
      <4>1. Finish(j, "failed", <<>>, "none")
        BY <2>2, <3>2
      <4>2. Goto(j, "done")
        BY <4>1 DEF Finish
      <4> QED
        BY <2>5, <3>2, <4>1, <4>2, PointsFor, FinishTypes
    <3> QED
      BY <3>1, <3>2
  <2>7. ArtifactTypes'
    BY <1>2, <2>3, <2>4, <2>6 DEF ArtifactsInv, ArtifactTypes
  <2>8. ArtifactsOnly(j)
    BY <1>1, <2>3, <2>4, <2>6 DEF ArtifactsOnly
  <2>9. PutOK(j)'
    BY <2>4, <2>6 DEF PutOK
  <2> QED
    BY <2>1, <2>3, <2>7, <2>8, <2>9, ArtifactsFor
<1>4. CASE ~IsPut(j)
  <2>1. IsGet(j) /\ Finish(j, "failed", reply[j].bytes, reply[j].type)
        /\ UNCHANGED <<blobs, fresh, cuts>>
    BY <1>4 DEF ArtifactDrop
  <2>2. /\ "failed" \in Hows /\ reply[j].bytes \in Bytes /\ reply[j].type \in PutTypes
        /\ GotOK(j)
    BY <2>1 DEF ArtifactsInv, ArtifactTypes, Hows
  <2> QED
    BY <1>1, <2>1, <2>2, GetEnds DEF GotOK
<1> QED
  BY <1>3, <1>4

LEMMA ArtifactsInvStep ==
  ASSUME PointsOK, ArtifactsInv, [Next]_vars
  PROVE  ArtifactsInv'
<1>1. CASE UNCHANGED artifactVars /\ Elsewhere(ArtifactsOps)
  BY <1>1, ArtifactsStays
<1>2. ASSUME NEW j \in Jobs, ArtifactsStep(j)
      PROVE  ArtifactsInv'
  BY <1>2, ArtifactPutInv, VerifyPutInv, GetMetaInv, GetInlineInv, StreamWindowInv,
     ArtifactDropInv DEF ArtifactsStep
<1> QED
  BY <1>1, <1>2, ArtifactsFrame

\* artifact_put and get_artifact with their windows: what is got is whole, under
\* the type of the put that made the blob, however puts are run again.
THEOREM ArtifactsComeWhole == Spec => []ArtifactsAreWhole
<1>1. ArtifactsInv => ArtifactsAreWhole
  <2> SUFFICES ASSUME ArtifactsInv
               PROVE  ArtifactsAreWhole
    OBVIOUS
  <2>1. ASSUME NEW j \in Jobs, IsGet(j)
        PROVE  /\ IsPrefix(reply[j].bytes, task[j].data)
               /\ reply[j].how \in {"sent", "inline"} =>
                    /\ reply[j].bytes = task[j].data
                    /\ \E i \in Jobs : IsPut(i) /\ task[i].data = task[j].data
                                              /\ task[i].type = reply[j].type
                    /\ \A i \in Jobs : fresh[i] /\ task[i].data = task[j].data
                                         => task[i].type = reply[j].type
    <3>1. GotOK(j) /\ reply[j].bytes \in Bytes
      BY <2>1 DEF ArtifactsInv, ArtifactTypes
    <3>2. SubSeq(reply[j].bytes, 1, Len(reply[j].bytes)) = reply[j].bytes
      BY <3>1, SubSeqFull DEF Bytes
    <3>3. IsPrefix(reply[j].bytes, task[j].data)
      BY <3>1, <3>2 DEF GotOK, IsPrefix, Data
    <3> QED
      BY <3>1, <3>3 DEF GotOK, ArtifactsInv, BlobsOK, Data
  <2>2. \A i, j \in Jobs : fresh[i] /\ fresh[j] /\ task[i].data = task[j].data => i = j
    BY DEF ArtifactsInv, BlobsOK, Data
  <2>3. \A j \in Jobs : IsPut(j) /\ pc[j] = "done" /\ cuts[j] < Reconnects =>
          \/ Len(task[j].data) > MaxBytes
          \/ reply[j].how = "stored" /\ task[j].data \in DOMAIN blobs
    BY DEF ArtifactsInv, PutOK, Data
  <2> QED
    BY <2>1, <2>2, <2>3 DEF ArtifactsAreWhole
<1>2. Init => ArtifactsInv
  BY InitArtifacts
<1>3. PointsOK /\ ArtifactsInv /\ [Next]_vars => ArtifactsInv'
  BY ArtifactsInvStep
<1> QED
  BY <1>1, <1>2, <1>3, PointsInvariant, PTL DEF Spec

-----------------------------------------------------------------------------
(* Tokens.                                                                  *)

\* A map a process p read at time r: what it names was active then, and has
\* since been retired by other processes only; what it does not name and is
\* active is no older.
KnownOK(p, map, r) ==
    /\ \A t \in map : \E u \in tokens :
         /\ u.token = t.token /\ u.label = t.label
         /\ u.until >= r /\ (u.until = Forever \/ u.by # p)
    /\ \A t \in Active : t.since < r => t \in map

\* A decision, and the tokens as they have become since.
DecisionOK(j, a) ==
    /\ a.at \in 0..now /\ a.stored \in 0..a.at /\ a.read \in 0..a.stored
    /\ a.how = "accepted" =>
         \E t \in tokens :
           /\ t.token \in ToSet(task[j].presented) /\ t.label = a.label
           /\ \/ t.until >= a.at
              \/ t.by # task[j].proc /\ a.at - t.until < CacheTTL + (a.stored - a.read)
    /\ a.how = "denied" =>
         \A t \in tokens : t.token \in ToSet(task[j].presented) =>
           \/ t.until <= a.at
           \/ t.since >= a.read /\ a.at - t.since <= CacheTTL + (a.stored - a.read)

\* The table: a label has one active token at most.
TableOK ==
    /\ now \in 0..MaxNow
    /\ \A t \in tokens :
         /\ t = [label |-> t.label, token |-> t.token, since |-> t.since, until |-> t.until,
                 by |-> t.by]
         /\ t.since \in 0..now
         /\ t.until \in 0..now \cup {Forever}
    /\ \A t, u \in Active : t.label = u.label => t = u

\* A process runs one call that is about tokens at a time.
OneAtATime ==
    \A i, j \in Jobs :
      IsTokenOp(i) /\ IsTokenOp(j) /\ Running(i) /\ Running(j) /\ task[i].proc = task[j].proc
        => i = j

MapsOK ==
    /\ cache = [p \in Procs |-> cache[p]]
    /\ seen = [j \in Jobs |-> seen[j]]
    /\ access = [j \in Jobs |-> access[j]]
    /\ \A p \in Procs : cache[p].filled =>
         /\ cache[p].at \in 0..now /\ cache[p].read \in 0..cache[p].at
         /\ KnownOK(p, cache[p].map, cache[p].read)
    /\ \A j \in Jobs : pc[j] = "fetched" =>
         seen[j].at \in 0..now /\ KnownOK(task[j].proc, seen[j].active, seen[j].at)
    /\ \A j \in Jobs : access[j].how \in {"accepted", "denied"} => DecisionOK(j, access[j])

TokensInv ==
    /\ \A j \in Jobs : IsTokenOp(j) => task[j].proc \in Procs
    /\ TableOK /\ OneAtATime /\ MapsOK

LEMMA InitTokens == Init => TokensInv
<1> SUFFICES ASSUME Init
             PROVE  TokensInv
  OBVIOUS
<1> USE DEF Init, TokensInit, EntriesInit
<1>1. now = 0 /\ MaxNow \in Nat
  BY EntriesAssumption
<1>2. \A j \in Jobs : IsTokenOp(j) => task[j].proc \in Procs
  BY TokensAssumption DEF IsTokenOp, TokenOps
<1>3. TableOK
  <2>1. CASE tokens = {}
    BY <1>1, <2>1 DEF TableOK, Active
  <2>2. CASE tokens = {[label |-> l, token |-> <<l, 0>>, since |-> 0, until |-> Forever,
                        by |-> NoToken] : l \in ToSet(Labels)}
    BY <1>1, <2>2 DEF TableOK, Active
  <2> QED
    BY <2>1, <2>2
<1>4. OneAtATime
  BY DEF OneAtATime, Running
<1>5. MapsOK
  BY DEF MapsOK, NoCache, NoAccess
<1> QED
  BY <1>2, <1>3, <1>4, <1>5 DEF TokensInv

\* Time and the other parts.
LEMMA TimeMoves ==
  ASSUME PointsOK, now \in 0..MaxNow, [Next]_vars
  PROVE  now' \in now..MaxNow
<1>1. MaxNow \in Nat
  BY EntriesAssumption
<1>2. ASSUME NEW j \in Jobs, KnowledgeStep(j) \/ ServiceStep(j)
      PROVE  now' = now
  BY <1>2, KnowledgeMoves, SessionsMoves, NamespacesMoves, TokensMoves, ArtifactsMoves
     DEF ServiceStep, Moves
<1>3. Tick => now < MaxNow /\ now' = now + 1
  BY DEF Tick
<1>4. Push \/ UNCHANGED vars => now' = now
  BY DEF Push, vars, entryVars
<1> QED
  BY <1>1, <1>2, <1>3, <1>4 DEF Next

LEMMA TokensStay ==
  ASSUME TokensInv, UNCHANGED tokenVars, Elsewhere(TokenOps), PointsOK, PointsOK',
         now' \in now..MaxNow
  PROVE  TokensInv'
<1> USE DEF tokenVars, Elsewhere, IsTokenOp
<1>1. (\A j \in Jobs : IsTokenOp(j) => task[j].proc \in Procs)'
  BY DEF TokensInv
<1>2. MaxNow \in Nat /\ now \in 0..MaxNow /\ now' \in 0..MaxNow /\ 0..now \subseteq 0..now'
  BY EntriesAssumption DEF TokensInv, TableOK
<1>3. Active' = Active
  BY DEF Active
<1>4. TableOK'
  BY <1>2, <1>3 DEF TokensInv, TableOK
<1>5. OneAtATime'
  BY DEF TokensInv, OneAtATime, Running
<1>6. \A j \in Jobs : pc'[j] = "fetched" => pc[j] = "fetched"
  BY DEF PointsOK, At, TokenOps
<1>7. \A j \in Jobs : DecisionOK(j, access[j]) => DecisionOK(j, access[j])'
  BY <1>2 DEF DecisionOK
<1>8. MapsOK'
  BY <1>2, <1>3, <1>6, <1>7 DEF TokensInv, MapsOK, KnownOK
<1> QED
  BY <1>1, <1>4, <1>5, <1>8 DEF TokensInv

\* What a step for j leaves of the other jobs.
TokensOnly(j) ==
    /\ UNCHANGED <<task, now>>
    /\ \A i \in Jobs \ {j} : pc'[i] = pc[i] /\ seen'[i] = seen[i] /\ access'[i] = access[i]
    /\ seen' = [i \in Jobs |-> seen'[i]]
    /\ access' = [i \in Jobs |-> access'[i]]

\* A call begins alone, or goes on.
LEMMA OneAtATimeFor ==
  ASSUME NEW j \in Jobs, TokensInv, IsTokenOp(j), TokensOnly(j),
         Free(task[j].proc) \/ Running(j)
  PROVE  OneAtATime'
<1>1. \A i \in Jobs : IsTokenOp(i)' = IsTokenOp(i) /\ (i # j => Running(i)' = Running(i))
  BY DEF TokensOnly, IsTokenOp, Running
<1>2. \A i \in Jobs : i # j /\ IsTokenOp(i) /\ Running(i) => task[i].proc # task[j].proc
  BY DEF TokensInv, OneAtATime, Free
<1> QED
  BY <1>1, <1>2 DEF TokensInv, OneAtATime, TokensOnly

\* Steps that only look at the table.
LEMMA TableSame ==
  ASSUME NEW j \in Jobs, PointsOK, TokensInv, IsTokenOp(j), TokensOnly(j), UNCHANGED tokens,
         Free(task[j].proc) \/ Running(j),
         cache' = [p \in Procs |-> cache'[p]],
         \A p \in Procs : cache'[p] = cache[p] \/ ~cache'[p].filled \/
           /\ cache'[p].at \in 0..now /\ cache'[p].read \in 0..cache'[p].at
           /\ KnownOK(p, cache'[p].map, cache'[p].read),
         pc'[j] = "fetched" => seen'[j].at \in 0..now /\ KnownOK(task[j].proc, seen'[j].active, seen'[j].at),
         access'[j].how \in {"accepted", "denied"} => DecisionOK(j, access'[j])
  PROVE  TokensInv'
<1>1. (\A i \in Jobs : IsTokenOp(i) => task[i].proc \in Procs)'
  BY DEF TokensInv, TokensOnly, IsTokenOp
<1>2. Active' = Active /\ now' = now /\ task' = task
  BY DEF Active, TokensOnly
<1>3. TableOK'
  BY <1>2 DEF TokensInv, TableOK
<1>4. OneAtATime'
  BY OneAtATimeFor
<1>5. ASSUME NEW p \in Procs, cache'[p].filled
      PROVE  /\ cache'[p].at \in 0..now' /\ cache'[p].read \in 0..cache'[p].at
             /\ KnownOK(p, cache[p].map, cache[p].read)'
  BY <1>2, <1>5 DEF TokensInv, MapsOK, KnownOK
<1>6. ASSUME NEW i \in Jobs, pc'[i] = "fetched"
      PROVE  seen'[i].at \in 0..now' /\ KnownOK(task[i].proc, seen[i].active, seen[i].at)'
  BY <1>2, <1>6 DEF TokensInv, MapsOK, KnownOK, TokensOnly
<1>7. ASSUME NEW i \in Jobs, access'[i].how \in {"accepted", "denied"}
      PROVE  DecisionOK(i, access[i])'
  <2>1. access'[i].how \in {"accepted", "denied"} => DecisionOK(i, access'[i])
    BY DEF TokensInv, MapsOK, TokensOnly
  <2> QED
    BY <1>2, <1>7, <2>1 DEF DecisionOK
<1>8. MapsOK'
  BY <1>5, <1>6, <1>7 DEF MapsOK, TokensOnly
<1> QED
  BY <1>1, <1>3, <1>4, <1>8 DEF TokensInv

\* _match_label over a map that is fresh, or was just fetched.
LEMMA DecideOK ==
  ASSUME NEW j \in Jobs, PointsOK, TokensInv, NEW c, Decide(j, c),
         c.at \in 0..now, c.read \in 0..c.at, now - c.at < CacheTTL,
         KnownOK(task[j].proc, c.map, c.read)
  PROVE  /\ pc'[j] = "done" /\ \A i \in Jobs \ {j} : pc'[i] = pc[i] /\ access'[i] = access[i]
         /\ access' = [i \in Jobs |-> access'[i]]
         /\ DecisionOK(j, access'[j])
<1>1. CacheTTL \in Nat \ {0} /\ MaxNow \in Nat /\ now \in 0..MaxNow
  BY TokensAssumption, EntriesAssumption DEF TokensInv, TableOK
<1>2. access = [i \in Jobs |-> access[i]]
  BY DEF TokensInv, MapsOK
<1>3. pc'[j] = "done" /\ \A i \in Jobs \ {j} : pc'[i] = pc[i]
  BY PointsFor DEF Decide
<1> DEFINE named(i) == {t \in c.map : t.token = task[j].presented[i]}
           known == {i \in DOMAIN task[j].presented : named(i) # {}}
<1>4. CASE known = {}
  <2>1. access' = [access EXCEPT ![j] = Decision("denied", "none", c)]
    BY <1>4 DEF Decide
  <2>2. access'[j] = Decision("denied", "none", c)
    BY <1>2, <2>1
  <2>3. ASSUME NEW t \in tokens, t.token \in ToSet(task[j].presented), ~(t.until <= now)
        PROVE  t.since >= c.read /\ now - t.since <= CacheTTL + (c.at - c.read)
    <3>1. t.until = Forever /\ t \in Active /\ t.since \in 0..now
      BY <2>3, <1>1 DEF TokensInv, TableOK, Active
    <3>2. PICK i \in DOMAIN task[j].presented : t.token = task[j].presented[i]
      BY <2>3 DEF ToSet
    <3>3. t \notin c.map
      BY <1>4, <3>2
    <3>4. t.since >= c.read
      BY <3>1, <3>3, <1>1 DEF KnownOK
    <3> QED
      BY <3>1, <3>4, <1>1
  <2>4. DecisionOK(j, access'[j])
    BY <2>2, <2>3, <1>1 DEF DecisionOK, Decision
  <2> QED
    BY <1>2, <1>3, <2>1, <2>4
<1>5. CASE known # {}
  <2>1. PICK i \in known : \E t \in named(i) :
          access' = [access EXCEPT ![j] = Decision("accepted", t.label, c)]
    BY <1>5 DEF Decide
  <2>2. PICK t \in named(i) :
          access' = [access EXCEPT ![j] = Decision("accepted", t.label, c)]
    BY <2>1
  <2>3. access'[j] = Decision("accepted", t.label, c)
    BY <1>2, <2>2
  <2>4. PICK u \in tokens : /\ u.token = t.token /\ u.label = t.label
                            /\ u.until >= c.read /\ (u.until = Forever \/ u.by # task[j].proc)
    BY <2>2 DEF KnownOK
  <2>5. u.token \in ToSet(task[j].presented)
    BY <2>2, <2>4 DEF ToSet
  <2>6. u.until \in 0..now \cup {Forever}
    BY DEF TokensInv, TableOK
  <2>7. u.until >= now \/ (u.by # task[j].proc /\ now - u.until < CacheTTL + (c.at - c.read))
    BY <2>4, <2>6, <1>1 DEF Forever
  <2>8. DecisionOK(j, access'[j])
    BY <2>3, <2>4, <2>5, <2>7, <1>1 DEF DecisionOK, Decision
  <2> QED
    BY <1>2, <1>3, <2>2, <2>8
<1> QED
  BY <1>4, <1>5

LEMMA AuthorizeInv ==
  ASSUME NEW j \in Jobs, PointsOK, TokensInv, Authorize(j)
  PROVE  TokensInv'
<1> DEFINE p == task[j].proc
           c == cache[p]
<1>1. IsTokenOp(j) /\ p \in Procs /\ Free(p) /\ UNCHANGED <<now, task, tokens, cache>>
  BY DEF Authorize, IsTokenOp, TokenOps, TokensInv
<1>2. /\ MaxNow \in Nat /\ now \in 0..MaxNow
      /\ cache = [q \in Procs |-> cache[q]] /\ seen = [i \in Jobs |-> seen[i]]
      /\ access = [i \in Jobs |-> access[i]]
  BY EntriesAssumption DEF TokensInv, TableOK, MapsOK
<1>3. CASE Fresh(c)
  <2>1. Decide(j, c) /\ UNCHANGED seen
    BY <1>3 DEF Authorize
  <2>2. /\ c.at \in 0..now /\ c.read \in 0..c.at /\ now - c.at < CacheTTL
        /\ KnownOK(p, c.map, c.read)
    BY <1>1, <1>3 DEF Fresh, TokensInv, MapsOK
  <2>3. /\ pc'[j] = "done" /\ \A i \in Jobs \ {j} : pc'[i] = pc[i] /\ access'[i] = access[i]
        /\ access' = [i \in Jobs |-> access'[i]]
        /\ DecisionOK(j, access'[j])
    BY <2>1, <2>2, DecideOK
  <2>4. TokensOnly(j)
    BY <1>1, <1>2, <2>1, <2>3 DEF TokensOnly
  <2> QED
    BY <1>1, <1>2, <2>3, <2>4, TableSame
<1>4. CASE ~Fresh(c)
  <2>1. /\ seen' = [seen EXCEPT ![j] = [active |-> Active, at |-> now]]
        /\ Goto(j, "fetched") /\ UNCHANGED access
    BY <1>4 DEF Authorize
  <2>2. pc'[j] = "fetched" /\ \A i \in Jobs \ {j} : pc'[i] = pc[i]
    BY <2>1, PointsFor
  <2>3. seen'[j] = [active |-> Active, at |-> now]
    BY <1>2, <2>1
  <2>4. TokensOnly(j)
    BY <1>1, <1>2, <2>1, <2>2 DEF TokensOnly
  <2>5. KnownOK(p, Active, now)
    <3>1. \A t \in Active : t \in tokens /\ t.until >= now /\ t.until = Forever
      BY <1>2 DEF Active, Forever
    <3> QED
      BY <3>1 DEF KnownOK
  <2>6. access'[j].how \in {"accepted", "denied"} => DecisionOK(j, access'[j])
    BY <2>1 DEF TokensInv, MapsOK
  <2> QED
    BY <1>1, <1>2, <2>3, <2>4, <2>5, <2>6, TableSame
<1> QED
  BY <1>3, <1>4

LEMMA StoreMapInv ==
  ASSUME NEW j \in Jobs, PointsOK, TokensInv, StoreMap(j)
  PROVE  TokensInv'
<1> DEFINE p == task[j].proc
           c == [map |-> seen[j].active, at |-> now, read |-> seen[j].at, filled |-> TRUE]
<1>1. /\ IsTokenOp(j) /\ p \in Procs /\ Running(j) /\ pc[j] = "fetched"
      /\ UNCHANGED <<now, task, tokens, seen>>
  BY DEF StoreMap, IsTokenOp, TokenOps, TokensInv, PointsOK, At, Running
<1>2. /\ MaxNow \in Nat /\ now \in 0..MaxNow /\ CacheTTL \in Nat \ {0}
      /\ cache = [q \in Procs |-> cache[q]] /\ seen = [i \in Jobs |-> seen[i]]
      /\ access = [i \in Jobs |-> access[i]]
  BY EntriesAssumption, TokensAssumption DEF TokensInv, TableOK, MapsOK
<1>3. cache' = [cache EXCEPT ![p] = c] /\ Decide(j, c)
  BY DEF StoreMap
<1>4. c.at \in 0..now /\ c.read \in 0..c.at /\ now - c.at < CacheTTL /\ KnownOK(p, c.map, c.read)
  BY <1>1, <1>2 DEF TokensInv, MapsOK
<1>5. /\ pc'[j] = "done" /\ \A i \in Jobs \ {j} : pc'[i] = pc[i] /\ access'[i] = access[i]
      /\ access' = [i \in Jobs |-> access'[i]]
      /\ DecisionOK(j, access'[j])
  BY <1>3, <1>4, DecideOK
<1>6. TokensOnly(j)
  BY <1>1, <1>2, <1>5 DEF TokensOnly
<1>7. cache' = [q \in Procs |-> cache'[q]] /\ \A q \in Procs : cache'[q] = cache[q] \/
           /\ cache'[q].at \in 0..now /\ cache'[q].read \in 0..cache'[q].at
           /\ KnownOK(q, cache'[q].map, cache'[q].read)
  <2>1. \A q \in Procs : cache'[q] = IF q = p THEN c ELSE cache[q]
    BY <1>2, <1>3
  <2> QED
    BY <1>1, <1>2, <1>3, <1>4, <2>1
<1> QED
  BY <1>1, <1>5, <1>6, <1>7, TableSame

\* Steps of a rotation or a boot that look at nothing but the table.
LEMMA PlanOK ==
  ASSUME NEW j \in Jobs, PointsOK, TokensInv, IsTokenOp(j), UNCHANGED <<now, task, tokens>>,
         Free(task[j].proc) \/ Running(j), NEW p, Goto(j, p), p # "fetched",
         UNCHANGED cache \/ cache' = [cache EXCEPT ![task[j].proc] = NoCache],
         UNCHANGED seen \/ \E s : seen' = [seen EXCEPT ![j] = s],
         UNCHANGED access \/ \E how \in {"redirected", "up", "conflict", "failed"} : Ended(j, how)
  PROVE  TokensInv'
<1>1. /\ cache = [q \in Procs |-> cache[q]] /\ seen = [i \in Jobs |-> seen[i]]
      /\ access = [i \in Jobs |-> access[i]]
  BY DEF TokensInv, MapsOK
<1>2. pc'[j] = p /\ \A i \in Jobs \ {j} : pc'[i] = pc[i]
  BY PointsFor
<1>3. /\ access' = [i \in Jobs |-> access'[i]]
      /\ \A i \in Jobs \ {j} : access'[i] = access[i]
      /\ access'[j] = access[j] \/ access'[j].how \in {"redirected", "up", "conflict", "failed"}
  BY <1>1 DEF Ended, NoAccess
<1>4. seen' = [i \in Jobs |-> seen'[i]] /\ \A i \in Jobs \ {j} : seen'[i] = seen[i]
  BY <1>1
<1>5. TokensOnly(j)
  BY <1>2, <1>3, <1>4 DEF TokensOnly
<1>6. cache' = [q \in Procs |-> cache'[q]] /\ \A q \in Procs : cache'[q] = cache[q] \/ ~cache'[q].filled
  BY <1>1 DEF NoCache
<1>7. access'[j].how \in {"accepted", "denied"} => DecisionOK(j, access'[j])
  BY <1>3 DEF TokensInv, MapsOK
<1> QED
  BY <1>2, <1>5, <1>6, <1>7, TableSame

LEMMA RotateBootInv ==
  ASSUME NEW j \in Jobs, PointsOK, TokensInv, Rotate(j) \/ Boot(j)
  PROVE  TokensInv'
<1>1. IsTokenOp(j) /\ UNCHANGED <<now, task, tokens, cache, seen>> /\ Free(task[j].proc)
  BY DEF Rotate, Boot, IsTokenOp, TokenOps
<1>2. CASE Goto(j, "update") /\ UNCHANGED access
  BY <1>1, <1>2, PlanOK
<1>3. ASSUME NEW how \in {"redirected", "up"}, Ended(j, how)
      PROVE  TokensInv'
  <2>1. Goto(j, "done")
    BY <1>3 DEF Ended
  <2> QED
    BY <1>1, <1>3, <2>1, PlanOK
<1>4. (Goto(j, "update") /\ UNCHANGED access) \/ \E how \in {"redirected", "up"} : Ended(j, how)
  BY DEF Rotate, Boot
<1> QED
  BY <1>2, <1>3, <1>4

LEMMA RetireRowInv ==
  ASSUME NEW j \in Jobs, PointsOK, TokensInv, RetireRow(j)
  PROVE  TokensInv'
<1>1. /\ IsTokenOp(j) /\ UNCHANGED <<now, task, tokens, cache, access>> /\ Running(j)
      /\ Goto(j, "replace") /\ \E s : seen' = [seen EXCEPT ![j] = s]
  BY DEF RetireRow, IsTokenOp, TokenOps, PointsOK, At, Running
<1> QED
  BY <1>1, PlanOK

LEMMA RestartInv ==
  ASSUME NEW j \in Jobs, PointsOK, TokensInv, Restart(j)
  PROVE  TokensInv'
<1>1. /\ IsTokenOp(j) /\ UNCHANGED <<now, task, tokens, seen>> /\ Running(j)
      /\ cache' = [cache EXCEPT ![task[j].proc] = NoCache] /\ Ended(j, "failed")
  BY DEF Restart
<1>2. Goto(j, "done")
  BY <1>1 DEF Ended
<1> QED
  BY <1>1, <1>2, PlanOK

\* The row that was active is retired, a new one is; each other row stays.
LEMMA ReplaceTable ==
  ASSUME NEW j \in Jobs, TokensInv, Replace(j), ActiveOf(Head(missing[j])) = seen[j].active
  PROVE  /\ TableOK'
         /\ \A t \in tokens : \E u \in tokens' :
              /\ u.token = t.token /\ u.label = t.label /\ u.since = t.since
              /\ u = t \/ (t.until = Forever /\ u.until = now /\ u.by = task[j].proc)
         /\ \A u \in tokens' : u = NewToken(j) \/ \E t \in tokens :
              /\ u.token = t.token /\ u.label = t.label /\ u.since = t.since
              /\ u = t \/ (t.until = Forever /\ u.until = now)
         /\ \A u \in Active' : u = NewToken(j) \/ u \in Active
<1> DEFINE h == Head(missing[j])
           old == ActiveOf(h)
           new == NewToken(j)
           retired(t) == [t EXCEPT !.until = now, !.by = task[j].proc]
<1>1. MaxNow \in Nat /\ now \in 0..MaxNow /\ Forever # now /\ now' = now
  <2>1. now' = now
    BY DEF Replace
  <2> QED
    BY <2>1, EntriesAssumption DEF TokensInv, TableOK, Forever
<1>2. ASSUME NEW t \in old
      PROVE  /\ t \in tokens /\ t.until = Forever /\ t.label = h
             /\ retired(t).token = t.token /\ retired(t).label = t.label
             /\ retired(t).since = t.since /\ retired(t).until = now
             /\ retired(t).by = task[j].proc
             /\ retired(t) = [label |-> t.label, token |-> t.token, since |-> t.since,
                              until |-> now, by |-> task[j].proc]
  <2>1. t \in tokens /\ t.until = Forever /\ t.label = h
    BY DEF ActiveOf, Active
  <2>2. t = [label |-> t.label, token |-> t.token, since |-> t.since, until |-> t.until,
             by |-> t.by]
    BY <2>1 DEF TokensInv, TableOK
  <2>3. retired(t) = [label |-> t.label, token |-> t.token, since |-> t.since,
                      until |-> now, by |-> task[j].proc]
    <3> DEFINE L == {t.label}
               T == {t.token}
               S == {t.since}
               U == {t.until}
               B == {t.by}
               p == task[j].proc
    <3>1. t \in [label : L, token : T, since : S, until : U, by : B]
      BY <2>2
    <3> HIDE DEF L, T, S, U, B, p
    <3>2. [t EXCEPT !.until = now, !.by = p] \in
            [label : L, token : T, since : S, until : {now}, by : {p}]
      BY <3>1
    <3>3. retired(t) \in [label : L, token : T, since : S, until : {now}, by : {p}]
      BY <3>2 DEF p
    <3> HIDE DEF retired
    <3>4. /\ retired(t) = [label |-> retired(t).label, token |-> retired(t).token,
                           since |-> retired(t).since, until |-> retired(t).until,
                           by |-> retired(t).by]
          /\ retired(t).label \in L /\ retired(t).token \in T /\ retired(t).since \in S
          /\ retired(t).until = now /\ retired(t).by = p
      BY <3>3
    <3>5. retired(t).label = t.label /\ retired(t).token = t.token /\ retired(t).since = t.since
      BY <3>4 DEF L, T, S
    <3> QED
      BY <3>4, <3>5 DEF p
  <2> QED
    BY <2>1, <2>3
<1>3. tokens' = (tokens \ old) \cup {new} \cup {retired(t) : t \in old}
  BY DEF Replace
<1>4. /\ new.label = h /\ new.since = now /\ new.until = Forever
      /\ new = [label |-> new.label, token |-> new.token, since |-> new.since,
                until |-> new.until, by |-> new.by]
  BY DEF NewToken
<1> HIDE DEF new, old
<1> HIDE DEF retired
<1>5. \A u \in tokens' : \/ u \in tokens \ old
                         \/ u = new
                         \/ \E t \in old : u = retired(t)
  BY <1>3
<1>6. \A u \in Active' : (u \in Active /\ u.label # h) \/ u = new
  <2> SUFFICES ASSUME NEW u \in Active'
               PROVE  (u \in Active /\ u.label # h) \/ u = new
    OBVIOUS
  <2>1. u \in tokens' /\ u.until = Forever
    BY DEF Active, Forever
  <2>2. CASE u \in tokens \ old
    BY <2>1, <2>2 DEF Active, ActiveOf, old
  <2>3. CASE \E t \in old : u = retired(t)
    BY <2>1, <2>3, <1>1, <1>2
  <2> QED
    BY <2>1, <2>2, <2>3, <1>5
<1>7. TableOK'
  <2>1. ASSUME NEW u \in tokens'
        PROVE  /\ u = [label |-> u.label, token |-> u.token, since |-> u.since,
                       until |-> u.until, by |-> u.by]
               /\ u.since \in 0..now
               /\ u.until \in 0..now \cup {Forever}
    <3>1. CASE u \in tokens \ old
      BY <3>1 DEF TokensInv, TableOK
    <3>2. CASE u = new
      BY <3>2, <1>1, <1>4
    <3>3. ASSUME NEW t \in old, u = retired(t)
          PROVE  /\ u = [label |-> u.label, token |-> u.token, since |-> u.since,
                         until |-> u.until, by |-> u.by]
                 /\ u.since \in 0..now
                 /\ u.until \in 0..now \cup {Forever}
      <4>1. t.since \in 0..now
        BY <1>2, <3>3 DEF TokensInv, TableOK
      <4> QED
        BY <1>1, <1>2, <3>3, <4>1
    <3> QED
      BY <1>5, <3>1, <3>2, <3>3
  <2>2. \A t, u \in Active' : t.label = u.label => t = u
    BY <1>4, <1>6 DEF TokensInv, TableOK
  <2> QED
    BY <1>1, <2>1, <2>2 DEF TableOK, Forever
<1>8. ASSUME NEW t \in tokens
      PROVE  \E u \in tokens' :
               /\ u.token = t.token /\ u.label = t.label /\ u.since = t.since
               /\ u = t \/ (t.until = Forever /\ u.until = now /\ u.by = task[j].proc)
  <2>1. CASE t \in old
    <3>1. retired(t) \in tokens'
      BY <2>1, <1>3
    <3> QED
      BY <2>1, <3>1, <1>2
  <2>2. CASE t \notin old
    BY <2>2, <1>3
  <2> QED
    BY <2>1, <2>2
<1>9. ASSUME NEW u \in tokens', u # new
      PROVE  \E t \in tokens :
               /\ u.token = t.token /\ u.label = t.label /\ u.since = t.since
               /\ u = t \/ (t.until = Forever /\ u.until = now)
  <2>1. CASE u \in tokens \ old
    BY <2>1
  <2>2. ASSUME NEW t \in old, u = retired(t)
        PROVE  /\ t \in tokens
               /\ u.token = t.token /\ u.label = t.label /\ u.since = t.since
               /\ t.until = Forever /\ u.until = now
    BY <2>2, <1>2
  <2> QED
    BY <1>5, <1>9, <2>1, <2>2
<1> QED
  BY <1>6, <1>7, <1>8, <1>9 DEF new

LEMMA ReplaceInv ==
  ASSUME NEW j \in Jobs, PointsOK, TokensInv, Replace(j)
  PROVE  TokensInv'
<1> DEFINE p == task[j].proc
           h == Head(missing[j])
           new == NewToken(j)
<1>1. /\ IsTokenOp(j) /\ p \in Procs /\ UNCHANGED <<now, task, seen>> /\ Running(j)
      /\ pc[j] = "replace"
  BY DEF Replace, IsTokenOp, TokenOps, PointsOK, At, Running, TokensInv
<1>2. CASE ActiveOf(h) # seen[j].active
  <2>1. Ended(j, "conflict") /\ UNCHANGED <<tokens, cache>>
    BY <1>2 DEF Replace
  <2>2. Goto(j, "done")
    BY <2>1 DEF Ended
  <2> QED
    BY <1>1, <2>1, <2>2, PlanOK
<1>3. CASE ActiveOf(h) = seen[j].active
  <2> DEFINE old == ActiveOf(h)
  <2>1. /\ tokens' = (tokens \ old) \cup {new}
                       \cup {[t EXCEPT !.until = now, !.by = task[j].proc] : t \in old}
        /\ cache' = [cache EXCEPT ![p] = NoCache]
        /\ Ended(j, "up") \/ (Goto(j, "update") /\ UNCHANGED access)
    BY <1>3 DEF Replace
  <2>2. new = [label |-> h, token |-> <<h, j>>, since |-> now, until |-> Forever, by |-> NoToken]
    BY DEF NewToken
  <2> HIDE DEF new, old, h, p
  <2>3. /\ TableOK'
        /\ \A t \in tokens : \E u \in tokens' :
             /\ u.token = t.token /\ u.label = t.label /\ u.since = t.since
             /\ u = t \/ (t.until = Forever /\ u.until = now /\ u.by = p)
        /\ \A u \in tokens' : u = new \/ \E t \in tokens :
             /\ u.token = t.token /\ u.label = t.label /\ u.since = t.since
             /\ u = t \/ (t.until = Forever /\ u.until = now)
        /\ \A u \in Active' : u = new \/ u \in Active
    BY <1>3, ReplaceTable DEF new, h, p
  <2>4. /\ MaxNow \in Nat /\ now \in 0..MaxNow /\ CacheTTL \in Nat \ {0}
        /\ Forever \in Nat /\ Forever > now
        /\ cache = [q \in Procs |-> cache[q]] /\ seen = [i \in Jobs |-> seen[i]]
        /\ access = [i \in Jobs |-> access[i]]
    BY EntriesAssumption, TokensAssumption DEF TokensInv, TableOK, MapsOK, Forever
  <2>5. new.since = now /\ new.until = Forever /\ Forever' = Forever
    BY <2>2 DEF Forever
  <2>6. ASSUME NEW q \in Procs, q # p, NEW map, NEW r \in 0..now, KnownOK(q, map, r)
        PROVE  KnownOK(q, map, r)'
    <3>1. ASSUME NEW t \in map
          PROVE  \E u \in tokens' : /\ u.token = t.token /\ u.label = t.label
                                    /\ u.until >= r /\ (u.until = Forever \/ u.by # q)
      <4>1. PICK s \in tokens : /\ s.token = t.token /\ s.label = t.label
                                /\ s.until >= r /\ (s.until = Forever \/ s.by # q)
        BY <2>6 DEF KnownOK
      <4>2. PICK u \in tokens' : /\ u.token = s.token /\ u.label = s.label
                                 /\ u = s \/ (s.until = Forever /\ u.until = now /\ u.by = p)
        BY <2>3
      <4> QED
        BY <4>1, <4>2, <2>4, <2>6
    <3>2. \A t \in Active' : t.since < r => t \in map
      BY <2>3, <2>4, <2>5, <2>6 DEF KnownOK
    <3> QED
      BY <2>5, <3>1, <3>2 DEF KnownOK
  <2>7. \A i \in Jobs : pc[i] = "fetched" => IsTokenOp(i) /\ Running(i)
    BY DEF PointsOK, At, IsTokenOp, TokenOps, Running
  <2>8. /\ pc'[j] # "fetched" /\ (\A i \in Jobs \ {j} : pc'[i] = pc[i])
        /\ access' = [i \in Jobs |-> access'[i]]
        /\ (\A i \in Jobs \ {j} : access'[i] = access[i])
        /\ access'[j] = access[j] \/ access'[j].how = "up"
    <3>1. CASE Ended(j, "up")
      BY <2>4, <3>1, PointsFor DEF Ended, NoAccess
    <3>2. CASE Goto(j, "update") /\ UNCHANGED access
      BY <2>4, <3>2, PointsFor
    <3> QED
      BY <2>1, <3>1, <3>2
  <2>9. TokensOnly(j)
    BY <1>1, <2>4, <2>8 DEF TokensOnly
  <2>10. OneAtATime'
    BY <1>1, <2>9, OneAtATimeFor
  <2>11. cache' = [q \in Procs |-> cache'[q]] /\ ~cache'[p].filled
         /\ \A q \in Procs \ {p} : cache'[q] = cache[q]
    BY <1>1, <2>1, <2>4 DEF NoCache, p
  <2>12. ASSUME NEW q \in Procs, cache'[q].filled
         PROVE  /\ cache'[q].at \in 0..now' /\ cache'[q].read \in 0..cache'[q].at
                /\ KnownOK(q, cache[q].map, cache[q].read)'
    <3>1. q # p /\ cache'[q] = cache[q]
      BY <2>11, <2>12
    <3>2. /\ cache[q].at \in 0..now /\ cache[q].read \in 0..cache[q].at
          /\ KnownOK(q, cache[q].map, cache[q].read)
      BY <2>12, <3>1 DEF TokensInv, MapsOK
    <3>3. cache[q].read \in 0..now
      BY <2>4, <3>2
    <3>4. /\ \A t \in cache[q].map : \E u \in tokens' :
               /\ u.token = t.token /\ u.label = t.label
               /\ u.until >= cache[q].read /\ (u.until = Forever \/ u.by # q)
          /\ \A t \in Active' : t.since < cache[q].read => t \in cache[q].map
      BY <2>5, <2>6, <3>1, <3>2, <3>3 DEF KnownOK
    <3> QED
      BY <1>1, <2>5, <3>1, <3>2, <3>4 DEF KnownOK
  <2>13. ASSUME NEW i \in Jobs, pc'[i] = "fetched"
         PROVE  seen'[i].at \in 0..now' /\ KnownOK(task[i].proc, seen[i].active, seen[i].at)'
    <3>1. pc[i] = "fetched" /\ i # j
      BY <2>8, <2>13
    <3>2. task[i].proc # p /\ task[i].proc \in Procs
      BY <1>1, <2>7, <3>1 DEF TokensInv, OneAtATime, p
    <3>3. seen[i].at \in 0..now /\ KnownOK(task[i].proc, seen[i].active, seen[i].at)
      BY <3>1 DEF TokensInv, MapsOK
    <3>4. /\ \A t \in seen[i].active : \E u \in tokens' :
               /\ u.token = t.token /\ u.label = t.label
               /\ u.until >= seen[i].at /\ (u.until = Forever \/ u.by # task[i].proc)
          /\ \A t \in Active' : t.since < seen[i].at => t \in seen[i].active
      BY <2>5, <2>6, <3>2, <3>3 DEF KnownOK
    <3> QED
      BY <1>1, <2>5, <3>3, <3>4 DEF KnownOK
  <2>14. ASSUME NEW i \in Jobs, access'[i].how \in {"accepted", "denied"}
         PROVE  DecisionOK(i, access[i])'
    <3> DEFINE a == access[i]
    <3>1. access'[i] = a /\ DecisionOK(i, a)
      BY <2>8, <2>14 DEF TokensInv, MapsOK
    <3>2. a.at \in 0..now /\ a.stored \in 0..a.at /\ a.read \in 0..a.stored
      BY <3>1 DEF DecisionOK
    <3>3. ASSUME a.how = "accepted"
          PROVE  \E t \in tokens' :
                   /\ t.token \in ToSet(task[i].presented) /\ t.label = a.label
                   /\ \/ t.until >= a.at
                      \/ t.by # task[i].proc /\ a.at - t.until < CacheTTL + (a.stored - a.read)
      <4>1. PICK t \in tokens :
              /\ t.token \in ToSet(task[i].presented) /\ t.label = a.label
              /\ \/ t.until >= a.at
                 \/ t.by # task[i].proc /\ a.at - t.until < CacheTTL + (a.stored - a.read)
        BY <3>1, <3>3 DEF DecisionOK
      <4>2. PICK u \in tokens' : /\ u.token = t.token /\ u.label = t.label
                                 /\ u = t \/ (t.until = Forever /\ u.until = now)
        BY <2>3
      <4> QED
        BY <2>4, <3>2, <4>1, <4>2
    <3>4. ASSUME a.how = "denied", NEW u \in tokens', u.token \in ToSet(task[i].presented)
          PROVE  \/ u.until <= a.at
                 \/ u.since >= a.read /\ a.at - u.since <= CacheTTL + (a.stored - a.read)
      <4>1. CASE u = new
        BY <2>4, <2>5, <3>2, <4>1
      <4>2. ASSUME NEW t \in tokens, u.token = t.token, u.since = t.since,
                   u = t \/ (t.until = Forever /\ u.until = now)
            PROVE  \/ u.until <= a.at
                   \/ u.since >= a.read /\ a.at - u.since <= CacheTTL + (a.stored - a.read)
        <5>1. \/ t.until <= a.at
              \/ t.since >= a.read /\ a.at - t.since <= CacheTTL + (a.stored - a.read)
          BY <3>1, <3>4, <4>2 DEF DecisionOK
        <5>2. CASE u = t
          BY <5>1, <5>2
        <5>3. CASE t.until = Forever /\ u.until = now
          BY <2>4, <3>2, <4>2, <5>1, <5>3
        <5> QED
          BY <4>2, <5>2, <5>3
      <4> QED
        BY <2>3, <4>1, <4>2
    <3> HIDE DEF a
    <3>5. DecisionOK(i, a)'
      BY <1>1, <3>1, <3>2, <3>3, <3>4 DEF DecisionOK, a
    <3> QED
      BY <3>1, <3>5 DEF a
  <2>15. MapsOK'
    BY <2>9, <2>11, <2>12, <2>13, <2>14 DEF MapsOK, TokensOnly
  <2>16. (\A i \in Jobs : IsTokenOp(i) => task[i].proc \in Procs)'
    BY <1>1 DEF TokensInv, IsTokenOp
  <2> QED
    BY <2>3, <2>10, <2>15, <2>16 DEF TokensInv
<1> QED
  BY <1>2, <1>3

LEMMA TokensInvStep ==
  ASSUME PointsOK, TokensInv, [Next]_vars
  PROVE  TokensInv'
<1>1. now' \in now..MaxNow /\ PointsOK'
  BY TimeMoves, PointsStep DEF TokensInv, TableOK
<1>2. CASE UNCHANGED tokenVars /\ Elsewhere(TokenOps)
  BY <1>1, <1>2, TokensStay
<1>3. ASSUME NEW j \in Jobs, TokensStep(j)
      PROVE  TokensInv'
  BY <1>3, AuthorizeInv, StoreMapInv, RotateBootInv, RetireRowInv, ReplaceInv, RestartInv
     DEF TokensStep
<1> QED
  BY <1>2, <1>3, TokensFrame

\* get_active_token_map, set_token and ensure_tokens: a rotated token stops at
\* once in its own process and within the TTL and one fetch in any other, an
\* active one works, and a label has one active token at most.
THEOREM RotatedTokensStop == Spec => []RotatedTokenStops
<1>1. TokensInv => RotatedTokenStops
  <2> SUFFICES ASSUME TokensInv
               PROVE  RotatedTokenStops
    OBVIOUS
  <2>1. ASSUME NEW l \in ToSet(Labels)
        PROVE  Cardinality(ActiveOf(l)) <= 1
    <3>1. CASE ActiveOf(l) = {}
      BY <3>1, FS_EmptySet
    <3>2. CASE ActiveOf(l) # {}
      <4>1. PICK t \in ActiveOf(l) : TRUE
        BY <3>2
      <4>2. ActiveOf(l) = {t}
        BY <4>1 DEF ActiveOf, TokensInv, TableOK
      <4> QED
        BY <4>2, FS_Singleton
    <3> QED
      BY <3>1, <3>2
  <2>2. \A j \in Jobs : access[j].how \in {"accepted", "denied"} => DecisionOK(j, access[j])
    BY DEF TokensInv, MapsOK
  <2> QED
    BY <2>1, <2>2 DEF RotatedTokenStops, DecisionOK
<1>2. Init => TokensInv
  BY InitTokens
<1>3. PointsOK /\ TokensInv /\ [Next]_vars => TokensInv'
  BY TokensInvStep
<1> QED
  BY <1>1, <1>2, <1>3, PointsInvariant, PTL DEF Spec

-----------------------------------------------------------------------------
(* Sessions.                                                                *)

\* The events of a session among the first n, and all of them.
OfSession(s, n) == {i \in 1..n : events[i].session = s}
Count(s) == Cardinality(OfSession(s, Len(events)))

\* The rows of a job.
RowsOf(j) == {i \in DOMAIN events : events[i].by = j}

AskedSessions == {task[j].session : j \in Jobs}
EventRows ==
    [session : AskedSessions, seq : Nat, by : Jobs, event : {task[j].event : j \in Jobs},
     actor : {task[j].actor : j \in Jobs}]

\* An event says what its job was asked for.
EventsOK ==
    /\ events \in Seq(EventRows)
    /\ \A i \in DOMAIN events :
         LET t == task[events[i].by] IN
         /\ events[i].session = t.session /\ events[i].event = t.event
         /\ events[i].actor = t.actor /\ t.op = "append"

\* The numbers of a session have no gap, and a plan leaves none.
NumbersOK ==
    /\ \A i \in DOMAIN events : events[i].seq = Cardinality(OfSession(events[i].session, i))
    /\ \A s \in AskedSessions : NumbersOf(s) = 1..Count(s)
    /\ planned = [j \in Jobs |-> planned[j]]
    /\ \A j \in Jobs : pc[j] = "insert" => planned[j] \in 1..(Count(task[j].session) + 1)

EventsOnce ==
    \A i, i2 \in DOMAIN events :
        events[i].event # None /\ events[i].event = events[i2].event
        /\ events[i].actor = events[i2].actor => i = i2

\* What a call is told of its rows.
AckOK(j) ==
    /\ Cardinality(RowsOf(j)) <= drops[j] + (IF ack[j].how = "ok" THEN 1 ELSE 0)
    /\ task[j].event # None => Cardinality(RowsOf(j)) <= 1
    /\ ack[j].how = "ok" => ack[j].row \in RowsOf(j)
    /\ ack[j].how = "replay" => ack[j].row \in SameEvent(task[j])

AcksOK ==
    /\ drops \in [Jobs -> Nat]
    /\ ack = [j \in Jobs |-> ack[j]]
    /\ \A j \in Jobs : task[j].op \in SessionsOps /\ pc[j] # "done" => ack[j] = NoAck
    /\ \A j \in Jobs : task[j].op = "append" => AckOK(j)

SessionsInv == EventsOK /\ NumbersOK /\ EventsOnce /\ AcksOK

LEMMA InitSessions == Init => SessionsInv
<1> SUFFICES ASSUME Init
             PROVE  SessionsInv
  OBVIOUS
<1> USE DEF Init, SessionsInit, EntriesInit
<1>1. events = <<>> /\ DOMAIN events = {} /\ Len(events) = 0
  OBVIOUS
<1>2. EventsOK
  BY <1>1, EmptySeq DEF EventsOK
<1>3. NumbersOK
  <2>1. \A s : NumbersOf(s) = {}
    BY <1>1 DEF NumbersOf
  <2>2. \A s : Count(s) = 0
    <3>1. \A s : OfSession(s, 0) = {}
      BY DEF OfSession
    <3> QED
      BY <1>1, <3>1, FS_EmptySet DEF Count
  <2>3. \A s : NumbersOf(s) = 1..Count(s)
    <3>1. 1..0 = {}
      OBVIOUS
    <3> QED
      BY <2>1, <2>2, <3>1
  <2> HIDE DEF Init
  <2>4. planned = [j \in Jobs |-> planned[j]] /\ \A j \in Jobs : pc[j] = "idle"
    BY DEF Init
  <2> QED
    BY <1>1, <2>3, <2>4 DEF NumbersOK
<1>4. EventsOnce
  BY <1>1 DEF EventsOnce
<1>5. AcksOK
  <2>1. \A j \in Jobs : RowsOf(j) = {}
    BY <1>1 DEF RowsOf
  <2>2. \A j \in Jobs : Cardinality(RowsOf(j)) = 0
    BY <2>1, FS_EmptySet
  <2> QED
    BY <2>2 DEF AcksOK, AckOK, NoAck, None
<1> QED
  BY <1>2, <1>3, <1>4, <1>5 DEF SessionsInv

\* The part is left alone.
LEMMA SessionsStay ==
  ASSUME PointsOK, SessionsInv, UNCHANGED sessionVars, Elsewhere(SessionsOps), PointsOK'
  PROVE  SessionsInv'
<1> USE DEF sessionVars, Elsewhere, SessionsOps
<1>1. \A j \in Jobs : pc'[j] = "insert" => pc[j] = "insert"
  BY DEF PointsOK, At
<1>2. EventsOK'
  BY DEF SessionsInv, EventsOK, EventRows, AskedSessions
<1>3. NumbersOK'
  <2>1. \A s, n : OfSession(s, n)' = OfSession(s, n)
    BY DEF OfSession
  <2>2. \A s : Count(s)' = Count(s) /\ NumbersOf(s)' = NumbersOf(s)
    BY <2>1 DEF Count, NumbersOf
  <2>3. AskedSessions' = AskedSessions
    BY DEF AskedSessions
  <2>4. /\ \A i \in DOMAIN events : events[i].seq = Cardinality(OfSession(events[i].session, i))
        /\ \A s \in AskedSessions : NumbersOf(s) = 1..Count(s)
        /\ planned = [j \in Jobs |-> planned[j]]
        /\ \A j \in Jobs : pc[j] = "insert" => planned[j] \in 1..(Count(task[j].session) + 1)
    BY DEF SessionsInv, NumbersOK
  <2> QED
    BY <1>1, <2>1, <2>2, <2>3, <2>4 DEF NumbersOK
<1>4. EventsOnce'
  BY DEF SessionsInv, EventsOnce
<1>5. AcksOK'
  BY DEF SessionsInv, AcksOK, AckOK, RowsOf, SameEvent
<1> QED
  BY <1>2, <1>3, <1>4, <1>5 DEF SessionsInv

-----------------------------------------------------------------------------
(* Counting.                                                                *)

LEMMA CountsAreFinite ==
  ASSUME EventsOK
  PROVE  /\ Len(events) \in Nat /\ DOMAIN events = 1..Len(events)
         /\ \A s : \A n \in Nat : IsFiniteSet(OfSession(s, n))
                                  /\ Cardinality(OfSession(s, n)) \in Nat
         /\ \A s : Count(s) \in Nat
         /\ \A j : IsFiniteSet(RowsOf(j)) /\ Cardinality(RowsOf(j)) \in Nat
<1>1. Len(events) \in Nat /\ DOMAIN events = 1..Len(events)
  BY DEF EventsOK
<1>2. \A n \in Nat : IsFiniteSet(1..n)
  BY FS_Interval
<1>3. ASSUME NEW s, NEW n \in Nat
      PROVE  IsFiniteSet(OfSession(s, n)) /\ Cardinality(OfSession(s, n)) \in Nat
  BY <1>2, FS_Subset, FS_CardinalityType DEF OfSession
<1>4. ASSUME NEW j
      PROVE  IsFiniteSet(RowsOf(j)) /\ Cardinality(RowsOf(j)) \in Nat
  BY <1>1, <1>2, FS_Subset, FS_CardinalityType DEF RowsOf
<1> QED
  BY <1>1, <1>3, <1>4 DEF Count

\* The greatest number of a session is how many events it has.
LEMMA NextNumber ==
  ASSUME EventsOK, NumbersOK, NEW s \in AskedSessions
  PROVE  1 + Max({0} \cup NumbersOf(s)) = Count(s) + 1
<1> DEFINE n == Count(s)
           S == {0} \cup NumbersOf(s)
<1>1. n \in Nat
  BY CountsAreFinite
<1>2. S = {0} \cup 1..n
  BY DEF NumbersOK
<1> HIDE DEF n, S
<1>3. n \in S /\ \A y \in S : y \in Nat /\ n >= y
  BY <1>1, <1>2
<1>4. \A x \in S : (\A y \in S : x >= y) => x = n
  BY <1>1, <1>3
<1>5. Max(S) = n
  BY <1>3, <1>4 DEF Max
<1> QED
  BY <1>1, <1>5 DEF n, S

\* A least replay is one.
LEMMA LeastReplay ==
  ASSUME EventsOK, NEW t, SameEvent(t) # {}
  PROVE  Min(SameEvent(t)) \in SameEvent(t)
<1> DEFINE S == SameEvent(t)
<1>1. S \subseteq Nat /\ S # {}
  BY CountsAreFinite DEF SameEvent
<1> HIDE DEF S
<1>2. PICK x \in S : \A y \in S : ~(<<y, x>> \in OpToRel(<, Nat))
  BY <1>1, NatLessThanWellFounded, WFMin
<1>3. \A y \in S : ~(y < x)
  BY <1>1, <1>2 DEF OpToRel
<1>4. \A y \in S : x <= y
  BY <1>1, <1>3
<1>5. Min(S) \in S
  BY <1>4 DEF Min
<1> QED
  BY <1>5 DEF S

-----------------------------------------------------------------------------
(* A row comes in, planned on what the table said earlier.                   *)

Inserts(j) ==
    /\ task' = task /\ task[j].op = "append"
    /\ pc[j] = "insert" /\ ~Taken(j) /\ InsertRow(j)

LEMMA RowAppended ==
  ASSUME NEW j \in Jobs, SessionsInv, Inserts(j)
  PROVE  /\ EventsOK'
         /\ Len(events') = Len(events) + 1 /\ DOMAIN events' = 1..(Len(events) + 1)
         /\ \A i \in DOMAIN events : events'[i] = events[i]
         /\ LET e == events'[Len(events) + 1] IN
              /\ e.session = task[j].session /\ e.seq = planned[j] /\ e.by = j
              /\ e.event = task[j].event /\ e.actor = task[j].actor
<1> DEFINE r == [session |-> task[j].session, seq |-> planned[j], by |-> j,
                 event |-> task[j].event, actor |-> task[j].actor]
<1>1. planned[j] \in Nat
  <2>1. planned[j] \in 1..(Count(task[j].session) + 1)
    BY DEF Inserts, SessionsInv, NumbersOK
  <2>2. Count(task[j].session) \in Nat
    BY CountsAreFinite DEF SessionsInv
  <2> QED
    BY <2>1, <2>2
<1>2. r \in EventRows
  BY <1>1 DEF EventRows, AskedSessions
<1>3. events \in Seq(EventRows)
  BY DEF SessionsInv, EventsOK
<1>4. events' = Append(events, r)
  BY DEF Inserts, InsertRow
<1>5. /\ r.session = task[j].session /\ r.seq = planned[j] /\ r.by = j
      /\ r.event = task[j].event /\ r.actor = task[j].actor
  OBVIOUS
<1> HIDE DEF r
<1>6. /\ events' \in Seq(EventRows) /\ Len(events') = Len(events) + 1
      /\ \A i \in 1..Len(events) : events'[i] = events[i]
      /\ events'[Len(events) + 1] = r
  BY <1>2, <1>3, <1>4, AppendProperties
<1>7. /\ Len(events) \in Nat
      /\ DOMAIN events = 1..Len(events) /\ DOMAIN events' = 1..(Len(events) + 1)
  BY <1>3, <1>6
<1>8. EventRows' = EventRows
  BY DEF EventRows, AskedSessions, Inserts
<1>9. \A i \in DOMAIN events' : i \in DOMAIN events \/ i = Len(events) + 1
  BY <1>7
<1>10. EventsOK'
  <2>1. SUFFICES ASSUME NEW i \in DOMAIN events'
                 PROVE  LET t == task'[events'[i].by] IN
                        /\ events'[i].session = t.session /\ events'[i].event = t.event
                        /\ events'[i].actor = t.actor /\ t.op = "append"
    BY <1>6, <1>8 DEF EventsOK
  <2>2. CASE i \in DOMAIN events
    BY <2>2, <1>6, <1>7 DEF SessionsInv, EventsOK, Inserts
  <2>3. CASE i = Len(events) + 1
    BY <2>3, <1>5, <1>6 DEF Inserts
  <2> QED
    BY <2>2, <2>3, <1>9
<1> QED
  BY <1>5, <1>6, <1>7, <1>10

\* It gets the number after the ones its session has.
LEMMA RowNumbered ==
  ASSUME NEW j \in Jobs, SessionsInv, Inserts(j)
  PROVE  /\ (\A i \in DOMAIN events :
               events[i].seq = Cardinality(OfSession(events[i].session, i)))'
         /\ \A s \in AskedSessions : NumbersOf(s)' = 1..Count(s)'
         /\ \A s \in AskedSessions : Count(s)' \in Nat /\ Count(s)' >= Count(s)
<1> DEFINE s0 == task[j].session
           n == Len(events)
           c == Count(s0)
           after(s, m) == {i \in 1..m : events'[i].session = s}
           count(s) == Cardinality(after(s, Len(events')))
           numbers(s) == {events'[i].seq : i \in {i \in DOMAIN events' : events'[i].session = s}}
<1>0. \A s : /\ \A m : OfSession(s, m)' = after(s, m)
             /\ Count(s)' = count(s) /\ NumbersOf(s)' = numbers(s)
  BY DEF OfSession, Count, NumbersOf
<1>1. /\ n \in Nat /\ DOMAIN events = 1..n /\ c \in Nat
      /\ \A s : Count(s) \in Nat
      /\ \A s, m : m \in Nat => IsFiniteSet(OfSession(s, m))
  BY CountsAreFinite DEF SessionsInv
<1>2. /\ Len(events') = n + 1 /\ DOMAIN events' = 1..(n + 1)
      /\ \A i \in 1..n : events'[i] = events[i]
      /\ events'[n + 1].session = s0 /\ events'[n + 1].seq = planned[j]
  BY <1>1, RowAppended
<1>3. planned[j] = c + 1
  <2>1. planned[j] \in 1..(c + 1)
    BY DEF SessionsInv, NumbersOK, Inserts
  <2>2. NumbersOf(s0) = 1..c
    BY DEF SessionsInv, NumbersOK, AskedSessions
  <2>3. planned[j] \notin 1..c
    BY <2>2 DEF Inserts, Taken
  <2> QED
    BY <1>1, <2>1, <2>3
<1>4. \A s : \A m \in 0..n : after(s, m) = OfSession(s, m)
  BY <1>1, <1>2 DEF OfSession
<1>5. after(s0, n + 1) = OfSession(s0, n) \cup {n + 1}
  <2>1. 1..(n + 1) = 1..n \cup {n + 1}
    BY <1>1
  <2> QED
    BY <1>1, <1>2, <2>1 DEF OfSession
<1>6. Cardinality(after(s0, n + 1)) = c + 1
  <2>1. n + 1 \notin OfSession(s0, n)
    BY <1>1 DEF OfSession
  <2>2. IsFiniteSet(OfSession(s0, n))
    BY <1>1
  <2>3. Cardinality(OfSession(s0, n) \cup {n + 1}) = Cardinality(OfSession(s0, n)) + 1
    BY <2>1, <2>2, FS_AddElement
  <2> QED
    BY <1>5, <2>3 DEF Count
<1>7. \A s : s # s0 => after(s, n + 1) = OfSession(s, n)
  <2>1. 1..(n + 1) = 1..n \cup {n + 1}
    BY <1>1
  <2> QED
    BY <1>1, <1>2, <2>1 DEF OfSession
<1>8. count(s0) = c + 1 /\ \A s : s # s0 => count(s) = Count(s)
  BY <1>2, <1>6, <1>7 DEF Count
<1>9. numbers(s0) = NumbersOf(s0) \cup {c + 1}
  <2>1. {i \in DOMAIN events' : events'[i].session = s0}
          = {i \in DOMAIN events : events[i].session = s0} \cup {n + 1}
    BY <1>1, <1>2
  <2>2. \A x : x \in numbers(s0) <=> x \in NumbersOf(s0) \cup {c + 1}
    BY <2>1, <1>1, <1>2, <1>3 DEF NumbersOf
  <2> QED
    BY <2>2
<1>10. \A s : s # s0 => numbers(s) = NumbersOf(s)
  <2> SUFFICES ASSUME NEW s, s # s0
               PROVE  numbers(s) = NumbersOf(s)
    OBVIOUS
  <2>1. {i \in DOMAIN events' : events'[i].session = s}
          = {i \in DOMAIN events : events[i].session = s}
    BY <1>1, <1>2
  <2> QED
    BY <2>1, <1>1, <1>2 DEF NumbersOf
<1>11. ASSUME NEW i \in DOMAIN events'
       PROVE  events'[i].seq = Cardinality(after(events'[i].session, i))
  <2>1. CASE i \in 1..n
    <3>1. events[i].seq = Cardinality(OfSession(events[i].session, i))
      BY <2>1, <1>1 DEF SessionsInv, NumbersOK
    <3>2. after(events[i].session, i) = OfSession(events[i].session, i)
      BY <2>1, <1>1, <1>4
    <3> QED
      BY <2>1, <3>1, <3>2, <1>2
  <2>2. CASE i = n + 1
    BY <2>2, <1>2, <1>3, <1>6
  <2> QED
    BY <2>1, <2>2, <1>1, <1>2
<1> HIDE DEF count, numbers
<1>12. ASSUME NEW s \in AskedSessions
       PROVE  numbers(s) = 1..count(s) /\ count(s) \in Nat /\ count(s) >= Count(s)
  <2>1. NumbersOf(s) = 1..Count(s) /\ Count(s) \in Nat
    BY <1>1 DEF SessionsInv, NumbersOK
  <2>2. CASE s # s0
    BY <2>1, <2>2, <1>8, <1>10
  <2>3. CASE s = s0
    <3>1. numbers(s) = 1..c \cup {c + 1} /\ count(s) = c + 1
      BY <2>1, <2>3, <1>8, <1>9
    <3> QED
      BY <3>1, <2>3, <1>1
  <2> QED
    BY <2>2, <2>3
<1>13. (\A i \in DOMAIN events :
           events[i].seq = Cardinality(OfSession(events[i].session, i)))'
  BY <1>11 DEF OfSession
<1> HIDE DEF after
<1>14. \A s \in AskedSessions :
         NumbersOf(s)' = 1..Count(s)' /\ Count(s)' \in Nat /\ Count(s)' >= Count(s)
  BY <1>0, <1>12
<1> QED
  BY <1>13, <1>14

\* It is the only one with its event_id, and its job's only one if it has one.
LEMMA RowOnce ==
  ASSUME NEW j \in Jobs, SessionsInv, Inserts(j)
  PROVE  /\ EventsOnce'
         /\ \A i \in Jobs \ {j} : RowsOf(i)' = RowsOf(i)
         /\ Len(events) + 1 \in RowsOf(j)'
         /\ Cardinality(RowsOf(j)') = Cardinality(RowsOf(j)) + 1
         /\ task[j].event # None => Cardinality(RowsOf(j)') = 1
         /\ \A i \in Jobs : SameEvent(task[i]) \subseteq SameEvent(task[i])'
<1> DEFINE n == Len(events)
<1>1. n \in Nat /\ DOMAIN events = 1..n /\ IsFiniteSet(RowsOf(j))
  BY CountsAreFinite DEF SessionsInv
<1>2. /\ Len(events') = n + 1 /\ DOMAIN events' = 1..n \cup {n + 1}
      /\ \A i \in 1..n : events'[i] = events[i]
      /\ events'[n + 1].by = j
      /\ events'[n + 1].event = task[j].event /\ events'[n + 1].actor = task[j].actor
  <2>1. 1..(n + 1) = 1..n \cup {n + 1}
    BY <1>1
  <2> QED
    BY <1>1, <2>1, RowAppended
<1>3. task[j].event # None =>
        \A i \in 1..n : ~(events[i].event = task[j].event /\ events[i].actor = task[j].actor)
  BY <1>1 DEF Inserts, Taken, SameEvent
<1>4. n + 1 \notin 1..n
  BY <1>1
<1> HIDE DEF n
<1>5. EventsOnce'
  <2> SUFFICES ASSUME NEW i \in DOMAIN events', NEW i2 \in DOMAIN events',
                      events'[i].event # None, events'[i].event = events'[i2].event,
                      events'[i].actor = events'[i2].actor
               PROVE  i = i2
    BY DEF EventsOnce
  <2>1. CASE i \in 1..n /\ i2 \in 1..n
    BY <2>1, <1>1, <1>2 DEF SessionsInv, EventsOnce, n
  <2>2. CASE i = n + 1 \/ i2 = n + 1
    BY <2>2, <1>2, <1>3
  <2> QED
    BY <2>1, <2>2, <1>2
<1>6. \A i \in Jobs \ {j} : RowsOf(i)' = RowsOf(i)
  <2> SUFFICES ASSUME NEW i \in Jobs \ {j}
               PROVE  {k \in DOMAIN events' : events'[k].by = i} = RowsOf(i)
    BY DEF RowsOf
  <2> QED
    BY <1>1, <1>2 DEF RowsOf, n
<1>7. RowsOf(j)' = RowsOf(j) \cup {n + 1}
  <2>1. {k \in DOMAIN events' : events'[k].by = j} = RowsOf(j) \cup {n + 1}
    BY <1>1, <1>2 DEF RowsOf, n
  <2> QED
    BY <2>1 DEF RowsOf
<1>8. n + 1 \notin RowsOf(j)
  BY <1>1, <1>4 DEF RowsOf, n
<1>9. Cardinality(RowsOf(j)') = Cardinality(RowsOf(j)) + 1
  BY <1>1, <1>7, <1>8, FS_AddElement
<1>10. ASSUME task[j].event # None
       PROVE  Cardinality(RowsOf(j)') = 1
  <2>1. \A i \in 1..n : events[i].by # j
    BY <1>1, <1>3, <1>10 DEF SessionsInv, EventsOK, n
  <2>2. RowsOf(j) = {}
    BY <1>1, <2>1 DEF RowsOf, n
  <2> QED
    BY <1>9, <2>2, FS_EmptySet
<1>11. ASSUME NEW i \in Jobs
       PROVE  SameEvent(task[i]) \subseteq SameEvent(task[i])'
  BY <1>1, <1>2 DEF SameEvent, Inserts, n
<1> QED
  BY <1>5, <1>6, <1>7, <1>9, <1>10, <1>11 DEF n

-----------------------------------------------------------------------------
(* The steps.                                                               *)

\* What a step for j leaves of the other jobs, and keeps of its own.
SessionsOnly(j) ==
    /\ task' = task /\ task[j].op \in SessionsOps
    /\ \A i \in Jobs \ {j} :
         pc'[i] = pc[i] /\ planned'[i] = planned[i] /\ drops'[i] = drops[i] /\ ack'[i] = ack[i]
    /\ drops' \in [Jobs -> Nat]
    /\ ack' = [i \in Jobs |-> ack'[i]]
    /\ planned' = [i \in Jobs |-> planned'[i]]

LEMMA SessionsFor ==
  ASSUME NEW j \in Jobs, SessionsInv, SessionsOnly(j),
         UNCHANGED events \/ Inserts(j),
         pc'[j] = "insert" => planned'[j] \in 1..(Count(task[j].session) + 1),
         pc'[j] # "done" => ack'[j] = NoAck,
         task[j].op = "append" => AckOK(j)'
  PROVE  SessionsInv'
<1> USE DEF SessionsOnly
<1>1. AskedSessions' = AskedSessions /\ \A i \in Jobs : task[i].session \in AskedSessions
  BY DEF AskedSessions
<1>2. \A s \in AskedSessions : Count(s) \in Nat
  BY CountsAreFinite DEF SessionsInv
<1>3. /\ EventsOK' /\ EventsOnce'
      /\ (\A i \in DOMAIN events :
            events[i].seq = Cardinality(OfSession(events[i].session, i)))'
      /\ \A s \in AskedSessions :
           NumbersOf(s)' = 1..Count(s)' /\ Count(s)' \in Nat /\ Count(s)' >= Count(s)
      /\ \A i \in Jobs \ {j} : RowsOf(i)' = RowsOf(i)
      /\ \A i \in Jobs : SameEvent(task[i]) \subseteq SameEvent(task[i])'
  <2>1. CASE Inserts(j)
    BY <2>1, RowAppended, RowNumbered, RowOnce
  <2>2. CASE UNCHANGED events
    <3>1. EventsOK'
      BY <2>2, <1>1 DEF SessionsInv, EventsOK, EventRows
    <3>2. EventsOnce'
      BY <2>2 DEF SessionsInv, EventsOnce
    <3>3. \A s, n : OfSession(s, n)' = OfSession(s, n)
      BY <2>2 DEF OfSession
    <3>4. \A s : Count(s)' = Count(s) /\ NumbersOf(s)' = NumbersOf(s)
      BY <2>2, <3>3 DEF Count, NumbersOf
    <3>5. \A i : RowsOf(i)' = RowsOf(i)
      BY <2>2 DEF RowsOf
    <3>6. \A i \in Jobs : SameEvent(task[i])' = SameEvent(task[i])
      BY <2>2 DEF SameEvent
    <3>7. /\ \A i \in DOMAIN events : events[i].seq = Cardinality(OfSession(events[i].session, i))
          /\ \A s \in AskedSessions : NumbersOf(s) = 1..Count(s)
      BY DEF SessionsInv, NumbersOK
    <3>8. (\A i \in DOMAIN events :
             events[i].seq = Cardinality(OfSession(events[i].session, i)))'
      BY <2>2, <3>3, <3>7
    <3> QED
      BY <3>1, <3>2, <3>4, <3>5, <3>6, <3>7, <3>8, <1>2
  <2> QED
    BY <2>1, <2>2
<1>4. NumbersOK'
  <2>1. ASSUME NEW i \in Jobs, pc'[i] = "insert"
        PROVE  planned'[i] \in 1..(Count(task[i].session)' + 1)
    <3>1. planned'[i] \in 1..(Count(task[i].session) + 1)
      BY <2>1 DEF SessionsInv, NumbersOK
    <3>2. Count(task[i].session) \in Nat
      BY <1>1, <1>2
    <3>3. Count(task[i].session)' \in Nat /\ Count(task[i].session)' >= Count(task[i].session)
      <4>1. PICK s \in AskedSessions : s = task[i].session
        BY <1>1
      <4>2. Count(task[i].session)' = Count(s)'
        BY <4>1 DEF Count, OfSession
      <4> QED
        BY <4>1, <4>2, <1>3
    <3> QED
      BY <3>1, <3>2, <3>3
  <2> QED
    BY <2>1, <1>1, <1>3 DEF NumbersOK
<1>5. AcksOK'
  <2>1. ASSUME NEW i \in Jobs, i # j, task[i].op = "append"
        PROVE  AckOK(i)'
    <3>1. AckOK(i)
      BY <2>1 DEF SessionsInv, AcksOK
    <3>2. RowsOf(i)' = RowsOf(i) /\ SameEvent(task[i]) \subseteq SameEvent(task[i])'
      BY <2>1, <1>3
    <3> QED
      BY <2>1, <3>1, <3>2 DEF AckOK
  <2>2. \A i \in Jobs : task[i].op \in SessionsOps /\ pc'[i] # "done" => ack'[i] = NoAck
    BY DEF SessionsInv, AcksOK
  <2> QED
    BY <2>1, <2>2 DEF AcksOK
<1> QED
  BY <1>3, <1>4, <1>5 DEF SessionsInv

\* Before it is answered a call has as many rows as runs of it were dropped.
LEMMA Unanswered ==
  ASSUME NEW j \in Jobs, SessionsInv, task[j].op = "append", pc[j] # "done"
  PROVE  /\ ack[j] = NoAck /\ drops[j] \in Nat
         /\ Cardinality(RowsOf(j)) \in Nat /\ Cardinality(RowsOf(j)) <= drops[j]
         /\ task[j].event # None => Cardinality(RowsOf(j)) <= 1
<1>1. ack[j] = NoAck /\ drops[j] \in Nat /\ AckOK(j)
  BY DEF SessionsInv, AcksOK, SessionsOps
<1>2. Cardinality(RowsOf(j)) \in Nat
  BY CountsAreFinite DEF SessionsInv
<1> QED
  BY <1>1, <1>2 DEF AckOK, NoAck, None

\* Nothing comes in, and the answer is none that promises a row of its own.
LEMMA QuietAck ==
  ASSUME NEW j \in Jobs, SessionsInv, task[j].op = "append", pc[j] # "done",
         UNCHANGED <<events, task>>, drops'[j] \in Nat, drops'[j] >= drops[j],
         ack'[j].how # "ok", ack'[j].how = "replay" => ack'[j].row \in SameEvent(task[j])
  PROVE  AckOK(j)'
<1>1. RowsOf(j)' = RowsOf(j) /\ SameEvent(task[j])' = SameEvent(task[j])
  BY DEF RowsOf, SameEvent
<1> QED
  BY <1>1, Unanswered DEF AckOK

\* A step is for one job.
LEMMA ForOneJob ==
  ASSUME NEW j \in Jobs, PointsOK, SessionsInv, SessionsStep(j)
  PROVE  SessionsOnly(j)
<1>1. /\ planned = [i \in Jobs |-> planned[i]] /\ ack = [i \in Jobs |-> ack[i]]
      /\ drops \in [Jobs -> Nat]
  BY DEF SessionsInv, NumbersOK, AcksOK
<1>2. /\ task' = task /\ task[j].op \in SessionsOps
      /\ \A i \in Jobs \ {j} : pc'[i] = pc[i]
  BY SessionsMoves DEF Moves, PointsOK
<1>3. \/ planned' = planned
      \/ planned' = [planned EXCEPT ![j] = 1 + Max({0} \cup NumbersOf(task[j].session))]
  BY DEF SessionsStep, AppendCheck, AppendPlan, AppendInsert, AppendCollide, CreateSession,
         SessionDrop
<1>4. planned' = [i \in Jobs |-> planned'[i]] /\ \A i \in Jobs \ {j} : planned'[i] = planned[i]
  BY <1>1, <1>3
<1>5. drops' = drops \/ drops' = [drops EXCEPT ![j] = @ + 1]
  BY DEF SessionsStep, AppendCheck, AppendPlan, AppendInsert, AppendCollide, CreateSession,
         SessionDrop, Rerun
<1>6. drops' \in [Jobs -> Nat] /\ \A i \in Jobs \ {j} : drops'[i] = drops[i]
  BY <1>1, <1>5
<1>7. ack' = ack \/ \E a : ack' = [ack EXCEPT ![j] = a]
  BY DEF SessionsStep, AppendCheck, AppendPlan, AppendInsert, AppendCollide, CreateSession,
         SessionDrop, Rerun, Replied
<1>8. ack' = [i \in Jobs |-> ack'[i]] /\ \A i \in Jobs \ {j} : ack'[i] = ack[i]
  BY <1>1, <1>7
<1> QED
  BY <1>2, <1>4, <1>6, <1>8 DEF SessionsOnly

LEMMA AppendCheckInv ==
  ASSUME NEW j \in Jobs, PointsOK, SessionsInv, AppendCheck(j)
  PROVE  SessionsInv'
<1> USE DEF AppendCheck, Replied, Goto
<1>1. SessionsOnly(j)
  BY ForOneJob DEF SessionsStep
<1>2. task[j].op = "append" /\ pc[j] # "done" /\ UNCHANGED <<events, task, drops>>
  OBVIOUS
<1>3. pc'[j] \in {"done", "guard"} /\ (pc'[j] = "guard" => ack' = ack)
  BY DEF PointsOK
<1>4. ack'[j] = ack[j] \/ (SameEvent(task[j]) # {}
                            /\ ack'[j] = [how |-> "replay", row |-> Min(SameEvent(task[j]))])
  BY DEF SessionsInv, AcksOK
<1> HIDE DEF AppendCheck
<1>5. ack'[j].how # "ok" /\ (ack'[j].how = "replay" => ack'[j].row \in SameEvent(task[j]))
  BY <1>2, <1>4, Unanswered, LeastReplay DEF SessionsInv, NoAck, None
<1>6. AckOK(j)'
  BY <1>2, <1>5, Unanswered, QuietAck
<1> QED
  BY <1>1, <1>2, <1>3, <1>6, Unanswered, SessionsFor

LEMMA AppendPlanInv ==
  ASSUME NEW j \in Jobs, PointsOK, SessionsInv, AppendPlan(j)
  PROVE  SessionsInv'
<1> USE DEF AppendPlan, Replied, Goto
<1>1. task[j].op = "append" /\ pc[j] # "done" /\ UNCHANGED <<events, task, drops>>
  BY DEF PointsOK, At
<1>2. SessionsOnly(j)
  BY ForOneJob DEF SessionsStep
<1>3. /\ pc'[j] \in {"done", "insert"}
      /\ pc'[j] = "insert" => ack' = ack /\ planned'[j] = 1 + Max({0} \cup NumbersOf(task[j].session))
  BY DEF PointsOK, SessionsInv, NumbersOK
<1>4. ack'[j] = ack[j] \/ ack'[j] = [how |-> "session_not_found", row |-> 0]
  BY DEF SessionsInv, AcksOK
<1> HIDE DEF AppendPlan
<1>5. ack'[j].how \notin {"ok", "replay"}
  BY <1>1, <1>4, Unanswered DEF NoAck, None
<1>6. AckOK(j)'
  BY <1>1, <1>5, Unanswered, QuietAck
<1>7. pc'[j] = "insert" => planned'[j] \in 1..(Count(task[j].session) + 1)
  <2>1. task[j].session \in AskedSessions
    BY DEF AskedSessions
  <2>2. Count(task[j].session) \in Nat
    BY CountsAreFinite DEF SessionsInv
  <2> QED
    BY <1>3, <2>1, <2>2, NextNumber DEF SessionsInv
<1> QED
  BY <1>1, <1>2, <1>3, <1>6, <1>7, Unanswered, SessionsFor

LEMMA AppendInsertInv ==
  ASSUME NEW j \in Jobs, PointsOK, SessionsInv, AppendInsert(j)
  PROVE  SessionsInv'
<1>1. Inserts(j) /\ pc[j] # "done" /\ UNCHANGED drops /\ pc'[j] = "done"
  BY DEF AppendInsert, Inserts, PointsOK, At, Replied, Goto
<1>2. SessionsOnly(j)
  BY ForOneJob DEF SessionsStep
<1>3. ack'[j] = [how |-> "ok", row |-> Len(events) + 1]
  BY DEF SessionsInv, AcksOK, AppendInsert, Replied
<1>4. AckOK(j)'
  BY <1>1, <1>3, RowOnce, Unanswered DEF AckOK, Inserts
<1> QED
  BY <1>1, <1>2, <1>4, SessionsFor

LEMMA AppendCollideInv ==
  ASSUME NEW j \in Jobs, PointsOK, SessionsInv, AppendCollide(j)
  PROVE  SessionsInv'
<1> USE DEF AppendCollide, Replied, Goto
<1>1. task[j].op = "append" /\ pc[j] # "done" /\ UNCHANGED <<events, task, drops>>
  BY DEF PointsOK, At
<1>2. SessionsOnly(j)
  BY ForOneJob DEF SessionsStep
<1>3. pc'[j] \in {"done", "retry"} /\ (pc'[j] = "retry" => ack' = ack)
  BY DEF PointsOK
<1>4. ack'[j] = ack[j] \/ ack'[j] = [how |-> "write_conflict", row |-> 0]
  BY DEF SessionsInv, AcksOK
<1> HIDE DEF AppendCollide
<1>5. ack'[j].how \notin {"ok", "replay"}
  BY <1>1, <1>4, Unanswered DEF NoAck, None
<1>6. AckOK(j)'
  BY <1>1, <1>5, Unanswered, QuietAck
<1> QED
  BY <1>1, <1>2, <1>3, <1>6, Unanswered, SessionsFor

LEMMA CreateSessionInv ==
  ASSUME NEW j \in Jobs, PointsOK, SessionsInv, CreateSession(j)
  PROVE  SessionsInv'
<1> USE DEF CreateSession, Replied, Goto
<1>1. task[j].op = "open" /\ pc'[j] = "done" /\ UNCHANGED events
  BY DEF PointsOK
<1>2. SessionsOnly(j)
  BY ForOneJob DEF SessionsStep
<1> QED
  BY <1>1, <1>2, SessionsFor

\* A run is dropped, with its row in or not.
LEMMA SessionDropInv ==
  ASSUME NEW j \in Jobs, PointsOK, SessionsInv, SessionDrop(j)
  PROVE  SessionsInv'
<1>1. /\ task' = task /\ task[j].op \in SessionsOps /\ pc[j] # "done"
      /\ UNCHANGED events \/ (pc[j] = "insert" /\ ~Taken(j) /\ InsertRow(j))
      /\ UNCHANGED planned /\ Rerun(j)
  BY DEF SessionDrop, SessionsOps
<1>2. ack[j] = NoAck /\ drops \in [Jobs -> Nat]
  BY <1>1 DEF SessionsInv, AcksOK
<1>3. SessionsOnly(j)
  BY ForOneJob DEF SessionsStep
<1>4. /\ pc'[j] \in {"idle", "done"} /\ drops'[j] = drops[j] + 1
      /\ pc'[j] = "idle" => ack'[j] = NoAck
      /\ ack'[j] = NoAck \/ ack'[j] = [how |-> "error", row |-> 0]
  BY <1>1, <1>2 DEF Rerun, Replied, Goto, PointsOK, SessionsInv, AcksOK
<1>5. ack'[j].how \notin {"ok", "replay"}
  BY <1>4 DEF NoAck, None
<1>6. UNCHANGED events \/ Inserts(j)
  BY <1>1 DEF Inserts, PointsOK, At
<1>7. ASSUME task[j].op = "append"
      PROVE  AckOK(j)'
  <2>1. CASE UNCHANGED events
    BY <2>1, <1>1, <1>2, <1>4, <1>5, <1>7, QuietAck
  <2>2. CASE Inserts(j)
    BY <2>2, <1>1, <1>4, <1>5, <1>7, RowOnce, Unanswered DEF AckOK
  <2> QED
    BY <2>1, <2>2, <1>6
<1> QED
  BY <1>3, <1>4, <1>6, <1>7, SessionsFor

LEMMA SessionsInvStep ==
  ASSUME PointsOK, PointsOK', SessionsInv, [Next]_vars
  PROVE  SessionsInv'
<1>1. CASE UNCHANGED sessionVars /\ Elsewhere(SessionsOps)
  BY <1>1, SessionsStay
<1>2. ASSUME NEW j \in Jobs, SessionsStep(j)
      PROVE  SessionsInv'
  BY <1>2, AppendCheckInv, AppendPlanInv, AppendInsertInv, AppendCollideInv,
     CreateSessionInv, SessionDropInv DEF SessionsStep
<1> QED
  BY <1>1, <1>2, SessionsFrame

\* session_append_event and session_create: however appends collide, are run
\* again and lose their connection, each session is numbered 1, 2, 3, ... in
\* commit order and a call is told the truth about its row.
THEOREM SessionEventsOnceInOrder == Spec => []EventsOnceInOrder
<1>1. SessionsInv => EventsOnceInOrder
  <2> SUFFICES ASSUME SessionsInv
               PROVE  EventsOnceInOrder
    OBVIOUS
  <2>1. \A i \in DOMAIN events :
          events[i].seq = Cardinality({n \in 1..i : events[n].session = events[i].session})
    BY DEF SessionsInv, NumbersOK, OfSession
  <2>2. \A j \in Jobs : task[j].op = "append" => AckOK(j)
    BY DEF SessionsInv, AcksOK
  <2> QED
    BY <2>1, <2>2 DEF EventsOnceInOrder, SessionsInv, EventsOnce, AckOK, RowsOf, SameEvent
<1>2. PointsOK /\ [Next]_vars => PointsOK'
  BY PointsStep
<1>3. PointsOK /\ PointsOK' /\ SessionsInv /\ [Next]_vars => SessionsInv'
  BY SessionsInvStep
<1> QED
  BY <1>1, <1>2, <1>3, InitSessions, PointsInvariant, PTL DEF Spec
===============================================================================
