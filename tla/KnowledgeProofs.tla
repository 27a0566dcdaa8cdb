---------------------------- MODULE KnowledgeProofs ----------------------------
(***************************************************************************)
(* What holds of the log that everybody appends to: what namespace_init has   *)
(* seen of it when it writes, what verdicts say of claims, what curation      *)
(* closes.  For any jobs, workloads, keys and upstream repository.           *)
(***************************************************************************)
EXTENDS ServicesProofs

-----------------------------------------------------------------------------
(* The log only grows: what was live at a moment stays so of that moment.     *)

LogOK == \E S : log \in Seq(S)

LEMMA LatestAtIs ==
  ASSUME NEW n \in Nat, NEW k
  PROVE  /\ LatestAt(k, n) \in 0..n
         /\ LatestAt(k, n) # 0 => log[LatestAt(k, n)].key = k
         /\ \A i \in 1..n : log[i].key = k => i <= LatestAt(k, n)
<1> DEFINE S == {0} \cup {i \in 1..n : log[i].key = k}
           T == {n - i : i \in S}
<1>1. S \subseteq 0..n /\ 0 \in S
  OBVIOUS
<1>2. LatestAt(k, n) = Max(S)
  BY DEF LatestAt
<1>3. \A i \in S : i # 0 => log[i].key = k
  OBVIOUS
<1>4. \A i \in 1..n : log[i].key = k => i \in S
  OBVIOUS
<1> HIDE DEF S
<1>5. T \subseteq Nat /\ T # {}
  BY <1>1
<1>6. PICK x \in T : \A y \in T : ~(<<y, x>> \in OpToRel(<, Nat))
  BY <1>5, NatLessThanWellFounded, WFMin
<1>7. \A y \in T : ~(y < x)
  BY <1>5, <1>6 DEF OpToRel
<1>8. PICK m \in S : x = n - m
  BY <1>6
<1>9. \A i \in S : m >= i
  BY <1>1, <1>7, <1>8
<1>10. Max(S) \in S /\ \A i \in S : Max(S) >= i
  BY <1>9 DEF Max
<1> HIDE DEF T
<1>11. LatestAt(k, n) \in S /\ \A i \in S : LatestAt(k, n) >= i
  BY <1>2, <1>10
<1>12. LatestAt(k, n) \in 0..n
  BY <1>1, <1>11
<1>13. \A i \in 1..n : log[i].key = k => i <= LatestAt(k, n)
  BY <1>1, <1>4, <1>11
<1> QED
  BY <1>3, <1>11, <1>12, <1>13

LEMMA LogGrows ==
  ASSUME PointsOK, LogOK, [Next]_vars
  PROVE  /\ LogOK' /\ Len(log) \in Nat /\ Len(log') \in Nat /\ Len(log) <= Len(log')
         /\ \A i \in 1..Len(log) : log'[i] = log[i]
<1>1. log' = log \/ \E r : log' = Append(log, r)
  BY KnowledgeMoves, SessionsMoves, NamespacesMoves, TokensMoves, ArtifactsMoves
     DEF Next, ServiceStep, Grows, Tick, Push, vars, entryVars
<1>2. PICK S : log \in Seq(S)
  BY DEF LogOK
<1>3. CASE log' = log
  BY <1>2, <1>3 DEF LogOK
<1>4. ASSUME NEW r, log' = Append(log, r)
      PROVE  /\ LogOK' /\ Len(log) \in Nat /\ Len(log') \in Nat /\ Len(log) <= Len(log')
             /\ \A i \in 1..Len(log) : log'[i] = log[i]
  <2> DEFINE T == S \cup {r}
  <2>1. log \in Seq(T) /\ r \in T
    BY <1>2, SeqMonotonic
  <2> HIDE DEF T
  <2>2. /\ log' \in Seq(T) /\ Len(log') = Len(log) + 1
        /\ \A i \in 1..Len(log) : log'[i] = log[i]
    BY <2>1, <1>4, AppendProperties
  <2> QED
    BY <1>2, <2>2 DEF LogOK
<1> QED
  BY <1>1, <1>3, <1>4

LEMMA EntriesOfThePast ==
  ASSUME PointsOK, LogOK, [Next]_vars
  PROVE  \A n \in 0..Len(log) : HasEntries(n)' = HasEntries(n)
<1>1. Len(log) \in Nat /\ \A i \in 1..Len(log) : log'[i] = log[i]
  BY LogGrows
<1> SUFFICES ASSUME NEW n \in 0..Len(log)
             PROVE  HasEntries(n)' = HasEntries(n)
  OBVIOUS
<1>2. ASSUME NEW k \in Keys
      PROVE  LatestAt(k, n)' = LatestAt(k, n)
  <2>1. {i \in 1..n : log'[i].key = k} = {i \in 1..n : log[i].key = k}
    BY <1>1
  <2> QED
    BY <2>1 DEF LatestAt
<1>3. ASSUME NEW k \in Keys, LatestAt(k, n) # 0
      PROVE  log'[LatestAt(k, n)] = log[LatestAt(k, n)]
  <2>1. n \in Nat /\ LatestAt(k, n) \in 0..n
    BY <1>1, LatestAtIs
  <2>2. LatestAt(k, n) \in 1..Len(log)
    BY <1>1, <1>3, <2>1
  <2> QED
    BY <1>1, <2>2
<1>4. \A k \in Keys : LatestAt(k, n)' = LatestAt(k, n)
  BY <1>2
<1> QED
  BY <1>3, <1>4 DEF HasEntries, IsLive

-----------------------------------------------------------------------------
(* namespace_init.                                                          *)

IsInit(j) == task[j].op = "init"

\* What a call that got as far as writing has seen.
SawNothing(j) ==
    /\ ~began[j].registered
    /\ \E n \in began[j].at..Len(log) : ~HasEntries(n)

\* A call on its way.
InitOK(j) ==
    /\ pc[j] = "existing" =>
         found[j] = began[j].registered /\ began[j].at \in 0..Len(log)
    /\ pc[j] \in {"profile", "seed", "register", "readback"} \/ inits[j] = "created" =>
         SawNothing(j) /\ began[j].at \in 0..Len(log) /\ pc[j] # "idle"

\* The profile is the document of the call, or somebody else wrote it since.
PolicyOf(j) ==
    \/ \A f \in DOMAIN task[j].doc : profile[f] = task[j].doc[f]
    \/ \E j2 \in Jobs \ {j} :
         \/ task[j2].op = "edit"
         \/ task[j2].op = "init" /\ pc[j2] # "idle" /\ ~began[j2].registered

NamespacesInv ==
    /\ found = [j \in Jobs |-> found[j]]
    /\ began = [j \in Jobs |-> began[j]]
    /\ inits = [j \in Jobs |-> inits[j]]
    /\ \A j \in Jobs : IsInit(j) => InitOK(j)
    /\ \A j \in Jobs : registry.by = j => IsInit(j) /\ pc[j] \in {"readback", "done"}
    /\ \A j \in Jobs : IsInit(j) /\ (pc[j] \in {"seed", "register"} \/ registry.by = j)
                         => PolicyOf(j)

LEMMA InitNamespaces == Init => NamespacesInv /\ LogOK
<1> SUFFICES ASSUME Init
             PROVE  NamespacesInv /\ LogOK
  OBVIOUS
<1> USE DEF Init, NamespacesInit, EntriesInit
<1>1. /\ \A j \in Jobs : pc[j] = "idle" /\ inits[j] = "none"
      /\ registry.by = 0 /\ 0 \notin Jobs
  BY LogAssumption DEF Unregistered
<1>2. LogOK
  BY LogAssumption DEF LogOK
<1>3. /\ found = [j \in Jobs |-> found[j]] /\ began = [j \in Jobs |-> began[j]]
      /\ inits = [j \in Jobs |-> inits[j]]
  OBVIOUS
<1> HIDE DEF Init, NamespacesInit, EntriesInit
<1> QED
  BY <1>1, <1>2, <1>3 DEF NamespacesInv, InitOK

\* What was seen stays seen.

LEMMA SeenStays ==
  ASSUME PointsOK, LogOK, [Next]_vars, NEW j \in Jobs, began'[j] = began[j],
         began[j].at \in 0..Len(log)
  PROVE  SawNothing(j) => SawNothing(j)'
<1> SUFFICES ASSUME SawNothing(j)
             PROVE  SawNothing(j)'
  OBVIOUS
<1>1. PICK n \in began[j].at..Len(log) : ~HasEntries(n)
  BY DEF SawNothing
<1>2. Len(log) \in Nat /\ Len(log') \in Nat /\ Len(log) <= Len(log')
  BY LogGrows
<1>3. n \in 0..Len(log) /\ n \in began[j].at..Len(log')
  BY <1>1, <1>2
<1>4. ~HasEntries(n)'
  BY <1>1, <1>3, EntriesOfThePast
<1> QED
  BY <1>3, <1>4 DEF SawNothing

\* A step leaves a call alone, other writers aside.

LEMMA InitKeeps ==
  ASSUME PointsOK, LogOK, [Next]_vars, NEW j \in Jobs, InitOK(j), task' = task,
         pc'[j] = pc[j], found'[j] = found[j], began'[j] = began[j], inits'[j] = inits[j]
  PROVE  InitOK(j)'
<1>1. began[j].at \in 0..Len(log) => began[j].at \in 0..Len(log')
  BY LogGrows
<1> QED
  BY <1>1, SeenStays DEF InitOK

LEMMA NamespacesStay ==
  ASSUME PointsOK, PointsOK', LogOK, [Next]_vars, NamespacesInv, UNCHANGED namespaceVars,
         Elsewhere(NamespacesOps)
  PROVE  NamespacesInv'
<1> USE DEF namespaceVars, Elsewhere, NamespacesOps
<1>1. ASSUME NEW j \in Jobs, IsInit(j)'
      PROVE  InitOK(j)'
  BY <1>1, InitKeeps DEF NamespacesInv, IsInit
<1>2. ASSUME NEW j \in Jobs, registry'.by = j
      PROVE  IsInit(j)' /\ pc'[j] \in {"readback", "done"}
  BY <1>2 DEF NamespacesInv, IsInit
<1>3. ASSUME NEW j \in Jobs, IsInit(j)', pc'[j] \in {"seed", "register"} \/ registry'.by = j
      PROVE  PolicyOf(j)'
  <2>1. PolicyOf(j)
    BY <1>3 DEF NamespacesInv, IsInit
  <2> QED
    BY <2>1 DEF PolicyOf
<1> QED
  BY <1>1, <1>2, <1>3 DEF NamespacesInv

\* A policy stays one's own, or becomes somebody else's.

LEMMA PolicyKeeps ==
  ASSUME NEW i \in Jobs, NEW j \in Jobs, task' = task,
         \A k \in Jobs : pc[k] # "idle" => pc'[k] # "idle" /\ began'[k] = began[k],
         \/ profile' = profile
         \/ i # j /\ task[j].op = "edit"
         \/ i # j /\ IsInit(j) /\ pc[j] # "idle" /\ ~began[j].registered,
         PolicyOf(i)
  PROVE  PolicyOf(i)'
BY DEF PolicyOf, IsInit

\* What a step for j leaves of the other jobs, and keeps of its own.
NamespacesOnly(j) ==
    /\ task' = task /\ task[j].op \in NamespacesOps
    /\ \A i \in Jobs \ {j} :
         pc'[i] = pc[i] /\ found'[i] = found[i] /\ began'[i] = began[i] /\ inits'[i] = inits[i]
    /\ found' = [i \in Jobs |-> found'[i]]
    /\ began' = [i \in Jobs |-> began'[i]]
    /\ inits' = [i \in Jobs |-> inits'[i]]

LEMMA InitForOneJob ==
  ASSUME NEW j \in Jobs, PointsOK, NamespacesInv, NamespacesStep(j)
  PROVE  NamespacesOnly(j)
<1>1. /\ found = [i \in Jobs |-> found[i]] /\ began = [i \in Jobs |-> began[i]]
      /\ inits = [i \in Jobs |-> inits[i]]
  BY DEF NamespacesInv
<1>2. /\ task' = task /\ task[j].op \in NamespacesOps
      /\ \A i \in Jobs \ {j} : pc'[i] = pc[i]
  BY NamespacesMoves DEF Moves, PointsOK
<1>3. found' = found \/ \E x : found' = [found EXCEPT ![j] = x]
  BY DEF NamespacesStep, CheckRegistry, CheckEntries, WriteProfile, SeedProject, Register,
         ReadBack, BreakInit, EditProfile
<1>4. began' = began \/ \E x : began' = [began EXCEPT ![j] = x]
  BY DEF NamespacesStep, CheckRegistry, CheckEntries, WriteProfile, SeedProject, Register,
         ReadBack, BreakInit, EditProfile
<1>5. inits' = inits \/ \E x : inits' = [inits EXCEPT ![j] = x]
  BY DEF NamespacesStep, CheckRegistry, CheckEntries, WriteProfile, SeedProject, Register,
         ReadBack, BreakInit, EditProfile
<1>6. found' = [i \in Jobs |-> found'[i]] /\ \A i \in Jobs \ {j} : found'[i] = found[i]
  BY <1>1, <1>3
<1>7. began' = [i \in Jobs |-> began'[i]] /\ \A i \in Jobs \ {j} : began'[i] = began[i]
  BY <1>1, <1>4
<1>8. inits' = [i \in Jobs |-> inits'[i]] /\ \A i \in Jobs \ {j} : inits'[i] = inits[i]
  BY <1>1, <1>5
<1> QED
  BY <1>2, <1>6, <1>7, <1>8 DEF NamespacesOnly

LEMMA NamespacesFor ==
  ASSUME NEW j \in Jobs, PointsOK, LogOK, [Next]_vars, NamespacesInv, NamespacesStep(j),
         pc'[j] # "idle", pc[j] # "idle" => began'[j] = began[j],
         \/ profile' = profile
         \/ task[j].op = "edit"
         \/ IsInit(j) /\ pc[j] # "idle" /\ ~began[j].registered,
         IsInit(j) => InitOK(j)',
         registry' = registry \/ (registry'.by = j /\ IsInit(j)),
         registry'.by = j => pc'[j] \in {"readback", "done"},
         IsInit(j) /\ (pc'[j] \in {"seed", "register"} \/ registry'.by = j) => PolicyOf(j)'
  PROVE  NamespacesInv'
<1>1. NamespacesOnly(j)
  BY InitForOneJob
<1>2. ASSUME NEW i \in Jobs, IsInit(i)'
      PROVE  InitOK(i)'
  BY <1>1, <1>2, InitKeeps DEF NamespacesInv, NamespacesOnly, IsInit
<1>3. ASSUME NEW i \in Jobs, registry'.by = i
      PROVE  IsInit(i)' /\ pc'[i] \in {"readback", "done"}
  BY <1>1, <1>3 DEF NamespacesInv, NamespacesOnly, IsInit
<1>4. \A k \in Jobs : pc[k] # "idle" => pc'[k] # "idle" /\ began'[k] = began[k]
  BY <1>1 DEF NamespacesOnly
<1>5. ASSUME NEW i \in Jobs, i # j, IsInit(i)',
             pc'[i] \in {"seed", "register"} \/ registry'.by = i
      PROVE  PolicyOf(i)'
  <2>1. PolicyOf(i)
    BY <1>1, <1>5 DEF NamespacesInv, NamespacesOnly, IsInit
  <2> QED
    BY <2>1, <1>1, <1>4, <1>5, PolicyKeeps DEF NamespacesOnly
<1>6. IsInit(j)' = IsInit(j)
  BY <1>1 DEF NamespacesOnly, IsInit
<1> QED
  BY <1>1, <1>2, <1>3, <1>5, <1>6 DEF NamespacesInv, NamespacesOnly

\* A call that writes goes on, with what it has seen.

LEMMA InitGoesOn ==
  ASSUME NEW j \in Jobs, PointsOK, LogOK, [Next]_vars, NamespacesInv, IsInit(j),
         pc[j] \in {"profile", "seed", "register", "readback"}, began' = began,
         pc'[j] \in {"seed", "register", "readback", "done"}
  PROVE  InitOK(j)' /\ ~began[j].registered
<1>1. InitOK(j)
  BY DEF NamespacesInv
<1>2. SawNothing(j) /\ began[j].at \in 0..Len(log)
  BY <1>1 DEF InitOK
<1>3. SawNothing(j)'
  BY <1>2, SeenStays
<1>4. began'[j].at \in 0..Len(log')
  BY <1>2, LogGrows
<1> QED
  BY <1>2, <1>3, <1>4 DEF InitOK, SawNothing

\* Nobody's policy changes for the calls at work.

LEMMA OwnPolicy ==
  ASSUME NEW j \in Jobs, NamespacesOnly(j), NamespacesInv, IsInit(j), UNCHANGED profile,
         pc'[j] # "idle", pc[j] # "idle", began' = began,
         pc[j] \in {"seed", "register"} \/ registry.by = j
  PROVE  PolicyOf(j)'
<1>1. PolicyOf(j)
  BY DEF NamespacesInv
<1> QED
  BY <1>1, PolicyKeeps DEF NamespacesOnly

LEMMA CheckRegistryInv ==
  ASSUME NEW j \in Jobs, PointsOK, LogOK, [Next]_vars, NamespacesInv, CheckRegistry(j)
  PROVE  NamespacesInv'
<1>1. /\ IsInit(j) /\ pc[j] = "idle" /\ pc'[j] = "existing"
      /\ UNCHANGED <<profile, registry, inits, log>>
      /\ found'[j] = began'[j].registered /\ began'[j].at = Len(log)
  BY DEF CheckRegistry, IsInit, Goto, PointsOK, NamespacesInv
<1>2. registry.by # j /\ inits[j] # "created"
  BY <1>1 DEF NamespacesInv, InitOK
<1>3. InitOK(j)'
  BY <1>1, <1>2, LogGrows DEF InitOK
<1> QED
  BY <1>1, <1>2, <1>3, NamespacesFor DEF NamespacesStep

LEMMA CheckEntriesInv ==
  ASSUME NEW j \in Jobs, PointsOK, LogOK, [Next]_vars, NamespacesInv, CheckEntries(j)
  PROVE  NamespacesInv'
<1>1. /\ IsInit(j) /\ pc[j] = "existing" /\ pc'[j] \in {"done", "profile"}
      /\ UNCHANGED <<profile, registry, found, began, log>>
      /\ pc'[j] = "done" => inits'[j] = "existing"
      /\ pc'[j] = "profile" => ~found[j] /\ ~HasEntries(Len(log)) /\ inits' = inits
  BY DEF CheckEntries, IsInit, Goto, PointsOK, At, NamespacesInv, Exists
<1>2. registry.by # j
  BY <1>1 DEF NamespacesInv
<1>3. found[j] = began[j].registered /\ began[j].at \in 0..Len(log)
  BY <1>1 DEF NamespacesInv, InitOK
<1>4. pc'[j] = "profile" => SawNothing(j)
  <2>1. Len(log) \in began[j].at..Len(log)
    BY <1>3, LogGrows
  <2> QED
    BY <1>1, <1>3, <2>1 DEF SawNothing
<1>5. pc'[j] = "profile" => SawNothing(j)'
  BY <1>1, <1>3, <1>4, SeenStays
<1>6. began'[j].at \in 0..Len(log')
  BY <1>1, <1>3
<1>7. InitOK(j)'
  BY <1>1, <1>5, <1>6 DEF InitOK
<1> QED
  BY <1>1, <1>2, <1>7, NamespacesFor DEF NamespacesStep

LEMMA WriteProfileInv ==
  ASSUME NEW j \in Jobs, PointsOK, LogOK, [Next]_vars, NamespacesInv, WriteProfile(j)
  PROVE  NamespacesInv'
<1>1. /\ IsInit(j) /\ pc[j] = "profile" /\ pc'[j] \in {"seed", "register"}
      /\ profile' = Merged(profile, task[j].doc)
      /\ UNCHANGED <<registry, found, began, inits, task>>
  BY DEF WriteProfile, IsInit, Goto, PointsOK, At
<1>2. registry.by # j
  BY <1>1 DEF NamespacesInv
<1>3. InitOK(j)' /\ ~began[j].registered
  BY <1>1, InitGoesOn
<1>4. PolicyOf(j)'
  BY <1>1 DEF PolicyOf, Merged
<1> QED
  BY <1>1, <1>2, <1>3, <1>4, NamespacesFor DEF NamespacesStep

LEMMA SeedProjectInv ==
  ASSUME NEW j \in Jobs, PointsOK, LogOK, [Next]_vars, NamespacesInv, SeedProject(j)
  PROVE  NamespacesInv'
<1>1. /\ IsInit(j) /\ pc[j] = "seed" /\ pc'[j] \in {"register", "done"}
      /\ UNCHANGED <<profile, registry, found, began, task>>
  BY DEF SeedProject, IsInit, Goto, PointsOK, At
<1>2. registry.by # j
  BY <1>1 DEF NamespacesInv
<1>3. InitOK(j)'
  BY <1>1, InitGoesOn
<1>4. PolicyOf(j)'
  BY <1>1, OwnPolicy, InitForOneJob DEF NamespacesStep
<1> QED
  BY <1>1, <1>2, <1>3, <1>4, NamespacesFor DEF NamespacesStep

LEMMA RegisterInv ==
  ASSUME NEW j \in Jobs, PointsOK, LogOK, [Next]_vars, NamespacesInv, Register(j)
  PROVE  NamespacesInv'
<1>1. /\ IsInit(j) /\ pc[j] = "register" /\ pc'[j] = "readback"
      /\ UNCHANGED <<profile, found, began, inits, task>>
      /\ registry' = registry \/ registry' = [by |-> j, profile |-> task[j].doc]
  BY DEF Register, IsInit, Goto, PointsOK, At
<1>2. registry' = registry \/ (registry'.by = j /\ IsInit(j))
  BY <1>1
<1>3. InitOK(j)'
  BY <1>1, InitGoesOn
<1>4. PolicyOf(j)'
  BY <1>1, OwnPolicy, InitForOneJob DEF NamespacesStep
<1> QED
  BY <1>1, <1>2, <1>3, <1>4, NamespacesFor DEF NamespacesStep

LEMMA ReadBackInv ==
  ASSUME NEW j \in Jobs, PointsOK, LogOK, [Next]_vars, NamespacesInv, ReadBack(j)
  PROVE  NamespacesInv'
<1>1. /\ IsInit(j) /\ pc[j] = "readback" /\ pc'[j] = "done"
      /\ UNCHANGED <<profile, registry, found, began, task>>
  BY DEF ReadBack, IsInit, Goto, PointsOK, At
<1>2. InitOK(j)'
  BY <1>1, InitGoesOn
<1>3. registry'.by = j => PolicyOf(j)'
  BY <1>1, OwnPolicy, InitForOneJob DEF NamespacesStep
<1> QED
  BY <1>1, <1>2, <1>3, NamespacesFor DEF NamespacesStep

LEMMA BreakInitInv ==
  ASSUME NEW j \in Jobs, PointsOK, LogOK, [Next]_vars, NamespacesInv, BreakInit(j)
  PROVE  NamespacesInv'
<1>1. /\ IsInit(j) /\ pc[j] \notin {"idle", "done"} /\ pc'[j] = "done"
      /\ inits'[j] = "failed" /\ UNCHANGED <<profile, registry, found, began, task>>
  BY DEF BreakInit, IsInit, Goto, PointsOK, Running, NamespacesInv
<1>2. InitOK(j)'
  BY <1>1 DEF InitOK
<1>3. registry'.by = j => PolicyOf(j)'
  BY <1>1, OwnPolicy, InitForOneJob DEF NamespacesStep
<1> QED
  BY <1>1, <1>2, <1>3, NamespacesFor DEF NamespacesStep

LEMMA EditProfileInv ==
  ASSUME NEW j \in Jobs, PointsOK, LogOK, [Next]_vars, NamespacesInv, EditProfile(j)
  PROVE  NamespacesInv'
<1>1. /\ task[j].op = "edit" /\ pc[j] = "idle" /\ pc'[j] = "done"
      /\ UNCHANGED <<registry, found, began, inits>>
  BY DEF EditProfile, Goto, PointsOK
<1>2. ~IsInit(j)
  BY <1>1 DEF IsInit
<1> QED
  BY <1>1, <1>2, NamespacesFor DEF NamespacesStep, NamespacesInv

LEMMA NamespacesInvStep ==
  ASSUME PointsOK, PointsOK', LogOK, NamespacesInv, [Next]_vars
  PROVE  NamespacesInv' /\ LogOK'
<1>1. ASSUME UNCHANGED namespaceVars, Elsewhere(NamespacesOps)
      PROVE  NamespacesInv'
  BY <1>1, NamespacesStay
<1>2. ASSUME NEW j \in Jobs, NamespacesStep(j)
      PROVE  NamespacesInv'
  BY <1>2, CheckRegistryInv, CheckEntriesInv, WriteProfileInv, SeedProjectInv, RegisterInv,
     ReadBackInv, BreakInitInv, EditProfileInv DEF NamespacesStep
<1> QED
  BY <1>1, <1>2, NamespacesFrame, LogGrows

\* namespace_init: a call writes only where it has seen nobody before it; two
\* that both created the namespace began before either's record; the profile on
\* record is in force unless somebody else has written it.
THEOREM InitsLeavePolicyAlone == Spec => []InitLeavesPolicyAlone
<1>1. NamespacesInv => InitLeavesPolicyAlone
  BY DEF NamespacesInv, InitLeavesPolicyAlone, InitOK, SawNothing, PolicyOf, IsInit
<1>2. PointsOK /\ [Next]_vars => PointsOK'
  BY PointsStep
<1>3. PointsOK /\ PointsOK' /\ LogOK /\ NamespacesInv /\ [Next]_vars => NamespacesInv' /\ LogOK'
  BY NamespacesInvStep
<1> QED
  BY <1>1, <1>2, <1>3, InitNamespaces, PointsInvariant, PTL DEF Spec

-----------------------------------------------------------------------------
(* Rows.                                                                    *)

\* Its writer, its time and its sha are the log's to set.
RowShape(r) ==
    /\ DOMAIN r = DOMAIN Blank
    /\ r.key \in Nat /\ r.key \in Keys /\ r.kind \in Kinds /\ r.meta \in Metas
    /\ r.kind = "claim" => r.key \in Plain
    /\ r.val \in Values \cup States \cup {Deleted}
    /\ r.vectors \subseteq {"text", "hyde"} /\ (r.vectors # {} => r.val \in Values)
    /\ r.dead \in BOOLEAN /\ r.closed \in BOOLEAN
    /\ r.quarantined \in BOOLEAN /\ r.family \in BOOLEAN
    /\ r.derived_from \subseteq Plain
    /\ r.basis \in 0..Len(log) /\ r.given \in Refs

RowsInv ==
    /\ LogOK
    /\ \A i \in DOMAIN log :
         /\ RowShape(log[i]) /\ log[i].meta.sha.len # "short"
         /\ log[i].at \in 0..now /\ log[i].by \in Jobs \cup {0}
    /\ now \in 0..MaxNow
    /\ \E w \in Workloads : task = w.task

LEMMA BlankShape ==
  DOMAIN Blank = {"key", "kind", "val", "tags", "dead", "closed", "quarantined",
                  "derived_from", "meta", "vectors", "family", "given", "event", "at", "by", "basis",
                  "span"}
BY DEF Blank

\* A row any writer but the reconciler and a closing may store.
Ordinary(r) == RowShape(r) /\ r.key \in 0..PlainKeys /\ ~r.closed

LEMMA BlankIsOrdinary ==
  ASSUME LogOK
  PROVE  Ordinary(Blank)
<1>1. NoMeta \in Metas /\ NoRef \in Refs
  BY DEF NoMeta, Metas, Refs
<1>2. PlainKeys \in Nat /\ "note" \in Kinds
  BY EntriesAssumption
<1>3. Len(log) \in Nat
  BY DEF LogOK
<1> QED
  BY <1>1, <1>2, <1>3 DEF Blank, Ordinary, RowShape, MetaKey, Keys

\* What users save is of that shape.
LEMMA UsersRowIsOrdinary ==
  ASSUME LogOK, NEW r, UserRow(r)
  PROVE  Ordinary(r) /\ r.at = 0 /\ r.by = 0
<1>1. PlainKeys \in Nat /\ Len(log) \in Nat
  BY EntriesAssumption DEF LogOK
<1>2. r.at = 0 /\ r.by = 0 /\ r.basis = 0 /\ r.given \in Refs
  BY DEF UserRow, Blank, Refs
<1>3. r.key \in Nat /\ r.key \in Keys /\ r.key \in Plain /\ r.key \in 0..PlainKeys
  BY <1>1 DEF UserRow, Plain, Keys
<1>4. r.val \in Values \cup States \cup {Deleted} /\ (r.vectors # {} => r.val \in Values)
  BY DEF UserRow
<1>5. /\ r.dead \in BOOLEAN /\ r.closed \in BOOLEAN
      /\ r.quarantined \in BOOLEAN /\ r.family \in BOOLEAN /\ ~r.closed
  <2>1. {r.dead, r.closed, r.quarantined, r.family} \subseteq BOOLEAN /\ ~r.closed
    BY DEF UserRow
  <2> QED
    BY <2>1, Zenon
<1>6. /\ DOMAIN r = DOMAIN Blank /\ r.kind \in Kinds /\ r.meta \in Metas
      /\ r.vectors \subseteq {"text", "hyde"} /\ r.derived_from \subseteq Plain
  BY DEF UserRow
<1> QED
  BY <1>1, <1>2, <1>3, <1>4, <1>5, <1>6 DEF Ordinary, RowShape

\* What a write keeps of the row it is given.
Keeps(s, r) ==
    /\ s.key = r.key /\ s.kind = r.kind /\ s.val = r.val /\ s.dead = r.dead
    /\ s.closed = r.closed /\ s.quarantined = r.quarantined
    /\ s.event = r.event /\ s.basis = r.basis /\ s.span = r.span
    /\ s.tags = r.tags /\ s.derived_from = r.derived_from
    /\ s.vectors = r.vectors /\ s.family = r.family

LEMMA ShaStored ==
  ASSUME NEW m \in Metas, NEW ref \in Canonical(m)
  PROVE  /\ [m EXCEPT !.sha = ref] \in Metas /\ [m EXCEPT !.sha = ref].sha = ref
         /\ ref.len # "short"
<1>1. m.sha \in Refs
  BY DEF Metas
<1>2. CASE m.sha = NoRef
  BY <1>1, <1>2 DEF Canonical, Metas, Refs, NoRef
<1>3. CASE m.sha # NoRef
  <2>1. /\ m.sha \in [commit : Commits, len : {"short", "abbrev", "full"}]
        /\ ref \in {m.sha, Full(m.sha)} /\ m.sha.len # "short"
    BY <1>1, <1>3 DEF Canonical, Refs
  <2>2. /\ Full(m.sha) \in [commit : Commits, len : {"short", "abbrev", "full"}]
        /\ Full(m.sha).len = "full"
    BY <2>1 DEF Full
  <2>3. ref \in Refs /\ ref.len # "short"
    BY <2>1, <2>2 DEF Refs
  <2> QED
    BY <2>3 DEF Metas
<1> QED
  BY <1>2, <1>3

LEMMA RowLands ==
  ASSUME NEW j \in Jobs, LogOK, NEW r, RowShape(r), AppendRow(j, r)
  PROVE  /\ LogOK' /\ Len(log) \in Nat
         /\ Len(log') = Len(log) + 1 /\ DOMAIN log = 1..Len(log)
         /\ DOMAIN log' = 1..(Len(log) + 1)
         /\ \A i \in 1..Len(log) : log'[i] = log[i]
         /\ RowShape(log'[Len(log) + 1]) /\ log'[Len(log) + 1].meta.sha.len # "short"
         /\ Keeps(log'[Len(log) + 1], r) /\ log'[Len(log) + 1].by = j
         /\ log'[Len(log) + 1].at = now
<1>1. PICK ref \in Canonical(r.meta) :
        log' = Append(log, [r EXCEPT !.meta.sha = ref, !.given = r.meta.sha,
                                     !.at = now, !.by = j])
  BY DEF AppendRow
<1> DEFINE m == [r.meta EXCEPT !.sha = ref]
           g == r.meta.sha
           s == [r EXCEPT !.meta.sha = ref, !.given = g, !.at = now, !.by = j]
<1>2. m \in Metas /\ m.sha = ref /\ ref.len # "short" /\ g \in Refs
  BY <1>1, ShaStored DEF RowShape, Metas
<1>3. s = [r EXCEPT !.meta = m, !.given = g, !.at = now, !.by = j]
  <2>1. ASSUME NEW r0, NEW x, NEW y, NEW t
        PROVE  [r0 EXCEPT !.meta.sha = x, !.given = y, !.at = t, !.by = j]
                 = [r0 EXCEPT !.meta = [r0.meta EXCEPT !.sha = x], !.given = y,
                              !.at = t, !.by = j]
    OBVIOUS
  <2> QED
    BY <2>1 DEF s, m
<1>4. /\ DOMAIN s = DOMAIN Blank /\ s.meta = m /\ s.given = g
      /\ Keeps(s, r) /\ s.by = j /\ s.at = now
  <2> HIDE DEF m, g
  <2> SUFFICES ASSUME s = [r EXCEPT !.meta = m, !.given = g, !.at = now, !.by = j]
               PROVE  /\ DOMAIN s = DOMAIN Blank /\ s.meta = m /\ s.given = g
                      /\ Keeps(s, r) /\ s.by = j /\ s.at = now
    BY <1>3
  <2> HIDE DEF s
  <2> QED
    BY BlankShape DEF RowShape, Keeps
<1> HIDE DEF m, g, s
<1>5. RowShape(s) /\ s.meta.sha.len # "short"
  BY <1>2, <1>4 DEF RowShape, Keeps
<1>6. PICK S : log \in Seq(S)
  BY DEF LogOK
<1> DEFINE T == S \cup {s}
<1>7. log \in Seq(T) /\ s \in T
  BY <1>6, SeqMonotonic
<1> HIDE DEF T
<1>8. log' = Append(log, s)
  BY <1>1 DEF s, g
<1>9. /\ log' \in Seq(T) /\ Len(log') = Len(log) + 1
      /\ \A i \in 1..Len(log) : log'[i] = log[i]
      /\ log'[Len(log) + 1] = s
  BY <1>7, <1>8, AppendProperties
<1>10. LogOK' /\ Len(log) \in Nat /\ DOMAIN log = 1..Len(log) /\ DOMAIN log' = 1..Len(log')
  BY <1>6, <1>9 DEF LogOK
<1> QED
  BY <1>4, <1>5, <1>9, <1>10

\* What the calls were asked for.
LEMMA TasksAreAsked ==
  ASSUME RowsInv, NEW j \in Jobs
  PROVE  /\ task[j].op = "save" => UserRow(task[j].row)
         /\ task[j].op = "delete" => task[j].key \in Plain
         /\ task[j].op = "observe" => task[j].val \in Values
         /\ task[j].op = "curate" =>
              /\ task[j].ops \in Seq(ToSet(task[j].ops))
              /\ \A i \in DOMAIN task[j].ops :
                   LET op == task[j].ops[i] IN
                   /\ op.key \in Plain \cup {NoKey} /\ OldKeys(op) \in Seq(Plain)
                   /\ op.meta \in Metas /\ op.val \in Values
                   /\ op.derived_from \subseteq Plain /\ op.vectors \subseteq {"text", "hyde"}
<1>1. PICK w \in Workloads : task = w.task
  BY DEF RowsInv
<1>2. /\ task[j].op = "save" => UserRow(task[j].row)
      /\ task[j].op = "delete" => task[j].key \in Plain
      /\ task[j].op = "observe" => task[j].val \in Values
  BY <1>1, LogAssumption
<1>3. ASSUME task[j].op = "curate"
      PROVE  /\ task[j].ops \in Seq(ToSet(task[j].ops))
             /\ \A op \in ToSet(task[j].ops) :
                  /\ op.key \in Plain \cup {NoKey} /\ OldKeys(op) \in Seq(Plain)
                  /\ op.meta \in Metas /\ op.val \in Values
                  /\ op.derived_from \subseteq Plain /\ op.vectors \subseteq {"text", "hyde"}
  BY <1>1, <1>3, CurationAssumption
<1>4. \A i \in DOMAIN task[j].ops : task[j].ops[i] \in ToSet(task[j].ops)
  BY DEF ToSet
<1> QED
  BY <1>2, <1>3, <1>4

LEMMA CurationFrame ==
  ASSUME PointsOK, [Next]_vars
  PROVE  \/ \E j \in Jobs : CurationStep(j)
         \/ UNCHANGED curateVars /\ Elsewhere(CurationOps)
<1> DEFINE Goal == \/ \E j \in Jobs : CurationStep(j)
                   \/ UNCHANGED curateVars /\ Elsewhere(CurationOps)
<1> USE DEF knowledgeVars
<1>1. ASSUME NEW j \in Jobs, KnowledgeStep(j)
      PROVE  Goal
  <2>1. CASE Writing(j) /\ UNCHANGED curateVars
    BY <2>1, WritingMoves, MovesElsewhere DEF WritingOps, CurationOps
  <2>2. CASE ReadingStep(j) /\ UNCHANGED curateVars
    BY <2>2, ReadingMoves, MovesElsewhere DEF ReadingOps, CurationOps
  <2>3. CASE CurationStep(j)
    BY <2>3
  <2>4. CASE ClaimsStep(j) /\ UNCHANGED curateVars
    BY <2>4, ClaimsMoves, MovesElsewhere DEF ClaimsOps, CurationOps
  <2> QED
    BY <1>1, <2>1, <2>2, <2>3, <2>4 DEF KnowledgeStep
<1>2. ASSUME NEW j \in Jobs, ServiceStep(j), UNCHANGED knowledgeVars
      PROVE  Goal
  <2>1. CASE SessionsStep(j)
    BY <1>2, <2>1, SessionsMoves, MovesElsewhere DEF SessionsOps, CurationOps
  <2>2. CASE NamespacesStep(j)
    BY <1>2, <2>2, NamespacesMoves, MovesElsewhere DEF NamespacesOps, CurationOps
  <2>3. CASE TokensStep(j)
    BY <1>2, <2>3, TokensMoves, MovesElsewhere DEF TokenOps, CurationOps
  <2>4. CASE ArtifactsStep(j)
    BY <1>2, <2>4, ArtifactsMoves, MovesElsewhere DEF ArtifactsOps, CurationOps
  <2> QED
    BY <1>2, <2>1, <2>2, <2>3, <2>4 DEF ServiceStep
<1>3. CASE (Tick \/ Push) /\ UNCHANGED knowledgeVars
  BY <1>3 DEF Tick, Push, Elsewhere
<1>4. CASE UNCHANGED vars
  BY <1>4 DEF vars, entryVars, Elsewhere
<1> QED
  BY <1>1, <1>2, <1>3, <1>4 DEF Next

LEMMA ClaimsFrame ==
  ASSUME PointsOK, [Next]_vars
  PROVE  \/ \E j \in Jobs : ClaimsStep(j)
         \/ UNCHANGED claimVars /\ Elsewhere(ClaimsOps)
<1> DEFINE Goal == \/ \E j \in Jobs : ClaimsStep(j)
                   \/ UNCHANGED claimVars /\ Elsewhere(ClaimsOps)
<1> USE DEF knowledgeVars
<1>1. ASSUME NEW j \in Jobs, KnowledgeStep(j)
      PROVE  Goal
  <2>1. CASE Writing(j) /\ UNCHANGED claimVars
    BY <2>1, WritingMoves, MovesElsewhere DEF WritingOps, ClaimsOps
  <2>2. CASE ReadingStep(j) /\ UNCHANGED claimVars
    BY <2>2, ReadingMoves, MovesElsewhere DEF ReadingOps, ClaimsOps
  <2>3. CASE CurationStep(j) /\ UNCHANGED claimVars
    BY <2>3, CurationMoves, MovesElsewhere DEF CurationOps, ClaimsOps
  <2>4. CASE ClaimsStep(j)
    BY <2>4
  <2> QED
    BY <1>1, <2>1, <2>2, <2>3, <2>4 DEF KnowledgeStep
<1>2. ASSUME NEW j \in Jobs, ServiceStep(j), UNCHANGED knowledgeVars
      PROVE  Goal
  <2>1. CASE SessionsStep(j)
    BY <1>2, <2>1, SessionsMoves, MovesElsewhere DEF SessionsOps, ClaimsOps
  <2>2. CASE NamespacesStep(j)
    BY <1>2, <2>2, NamespacesMoves, MovesElsewhere DEF NamespacesOps, ClaimsOps
  <2>3. CASE TokensStep(j)
    BY <1>2, <2>3, TokensMoves, MovesElsewhere DEF TokenOps, ClaimsOps
  <2>4. CASE ArtifactsStep(j)
    BY <1>2, <2>4, ArtifactsMoves, MovesElsewhere DEF ArtifactsOps, ClaimsOps
  <2> QED
    BY <1>2, <2>1, <2>2, <2>3, <2>4 DEF ServiceStep
<1>3. CASE (Tick \/ Push) /\ UNCHANGED knowledgeVars
  BY <1>3 DEF Tick, Push, Elsewhere
<1>4. CASE UNCHANGED vars
  BY <1>4 DEF vars, entryVars, Elsewhere
<1> QED
  BY <1>1, <1>2, <1>3, <1>4 DEF Next

-----------------------------------------------------------------------------
(* Curation: where a pass is.                                               *)

InOp == {"gates", "compare", "bound", "close", "write"}
Passed == {"compare", "bound", "close", "write"}   \* the gates

\* The revision a pass has read for a boundary.
HeldOK(j) ==
    LET i == held[j].row
        k == Head(todo[j])
    IN /\ i \in 1..Len(log) /\ held[j].at \in i..Len(log)
       /\ log[i].key = k /\ IsLive(log[i])
       /\ LatestAt(k, held[j].at) = i

PassOK(j) ==
    /\ Len(told[j]) = step[j] - 1
    /\ pc[j] = "idle" => step[j] = 1 /\ out[j] = "none"
    /\ pc[j] \in InOp => step[j] \in DOMAIN task[j].ops /\ out[j] = "none"
    /\ pc[j] \in Passed => Op(j).key # NoKey
    /\ pc[j] \in {"bound", "close"} =>
         /\ todo[j] \in Seq(Plain) /\ todo[j] # <<>>
         /\ \A n \in DOMAIN todo[j] : todo[j][n] \in ToSet(OldKeys(Op(j)))
    /\ pc[j] = "close" => HeldOK(j)

PassesInv ==
    /\ step \in [Jobs -> Nat \ {0}]
    /\ told \in [Jobs -> Seq(Outcomes)]
    /\ todo = [j \in Jobs |-> todo[j]]
    /\ held = [j \in Jobs |-> held[j]]
    /\ out = [j \in Jobs |-> out[j]]
    /\ \A j \in Jobs : task[j].op = "curate" => PassOK(j)

LEMMA InitRows == Init => RowsInv
<1> SUFFICES ASSUME Init
             PROVE  RowsInv
  OBVIOUS
<1>1. PICK w \in Workloads : task = w.task /\ log = w.seed
  BY DEF Init, EntriesInit
<1>2. log \in Seq(ToSet(log)) /\ \A r \in ToSet(log) : UserRow(r) /\ r.meta.sha.len # "short"
  BY <1>1, LogAssumption
<1>3. \A i \in DOMAIN log : log[i] \in ToSet(log)
  BY DEF ToSet
<1>4. now = 0 /\ MaxNow \in Nat
  BY EntriesAssumption DEF Init, EntriesInit
<1>5. LogOK
  BY <1>2 DEF LogOK
<1>6. \A i \in DOMAIN log : RowShape(log[i]) /\ log[i].at = 0 /\ log[i].by = 0
  BY <1>2, <1>3, <1>5, UsersRowIsOrdinary DEF Ordinary
<1> QED
  BY <1>1, <1>2, <1>3, <1>4, <1>6 DEF RowsInv, LogOK

LEMMA InitPasses == Init => PassesInv
<1> SUFFICES ASSUME Init
             PROVE  PassesInv
  OBVIOUS
<1> USE DEF Init, CurationInit, EntriesInit
<1>1. /\ step \in [Jobs -> Nat \ {0}] /\ todo = [j \in Jobs |-> todo[j]]
      /\ held = [j \in Jobs |-> held[j]] /\ out = [j \in Jobs |-> out[j]]
  OBVIOUS
<1>2. told \in [Jobs -> Seq(Outcomes)]
  BY EmptySeq
<1>3. \A j \in Jobs : told[j] = <<>> /\ step[j] = 1 /\ out[j] = "none" /\ pc[j] = "idle"
  OBVIOUS
<1> HIDE DEF Init, CurationInit, EntriesInit
<1>4. ASSUME NEW j \in Jobs
      PROVE  PassOK(j)
  BY <1>3, EmptySeq DEF PassOK, InOp, Passed
<1> QED
  BY <1>1, <1>2, <1>4 DEF PassesInv

-----------------------------------------------------------------------------
(* Latest revisions.                                                        *)

\* A newer revision came later.

LEMMA LatestLater ==
  ASSUME NEW m \in Nat, NEW n \in Nat, m <= n, NEW k
  PROVE  LatestAt(k, n) = LatestAt(k, m) \/ LatestAt(k, n) > m
<1> DEFINE a == LatestAt(k, m)
           b == LatestAt(k, n)
<1>1. /\ a \in 0..m /\ (a # 0 => log[a].key = k)
      /\ \A i \in 1..m : log[i].key = k => i <= a
  BY LatestAtIs
<1>2. /\ b \in 0..n /\ (b # 0 => log[b].key = k)
      /\ \A i \in 1..n : log[i].key = k => i <= b
  BY LatestAtIs
<1> HIDE DEF a, b
<1>3. a <= b
  <2>1. CASE a = 0
    BY <2>1, <1>2
  <2>2. CASE a # 0
    <3>1. a \in 1..n /\ log[a].key = k
      BY <2>2, <1>1
    <3> QED
      BY <3>1, <1>2
  <2> QED
    BY <2>1, <2>2
<1>4. b <= m => b <= a
  <2> SUFFICES ASSUME b <= m
               PROVE  b <= a
    OBVIOUS
  <2>1. CASE b = 0
    BY <2>1, <1>1
  <2>2. CASE b # 0
    <3>1. b \in 1..m /\ log[b].key = k
      BY <2>2, <1>2
    <3> QED
      BY <3>1, <1>1
  <2> QED
    BY <2>1, <2>2
<1> QED
  BY <1>1, <1>2, <1>3, <1>4 DEF a, b

\* What was latest at a moment stays so of that moment.

LEMMA LatestStays ==
  ASSUME PointsOK, LogOK, [Next]_vars, NEW n \in 0..Len(log), NEW k
  PROVE  LatestAt(k, n)' = LatestAt(k, n)
<1>1. Len(log) \in Nat /\ \A i \in 1..Len(log) : log'[i] = log[i]
  BY LogGrows
<1>2. {i \in 1..n : log'[i].key = k} = {i \in 1..n : log[i].key = k}
  BY <1>1
<1> QED
  BY <1>2 DEF LatestAt

-----------------------------------------------------------------------------
(* The steps of a pass.                                                     *)

LEMMA HeldStays ==
  ASSUME PointsOK, LogOK, [Next]_vars, NEW j \in Jobs, held'[j] = held[j],
         todo'[j] = todo[j], HeldOK(j)
  PROVE  HeldOK(j)'
<1>1. /\ Len(log) \in Nat /\ Len(log') \in Nat /\ Len(log) <= Len(log')
      /\ \A i \in 1..Len(log) : log'[i] = log[i]
  BY LogGrows
<1> DEFINE i == held[j].row
           k == Head(todo[j])
           n == held[j].at
<1>2. /\ i \in 1..Len(log) /\ n \in i..Len(log) /\ log[i].key = k /\ IsLive(log[i])
      /\ LatestAt(k, n) = i
  BY DEF HeldOK
<1>3. i \in 1..Len(log') /\ n \in i..Len(log') /\ n \in 0..Len(log) /\ log'[i] = log[i]
  BY <1>1, <1>2
<1>4. \A x : LatestAt(x, n)' = LatestAt(x, n)
  <2>1. \A m \in 0..Len(log) : \A x : LatestAt(x, m)' = LatestAt(x, m)
    BY LatestStays
  <2> QED
    BY <1>3, <2>1
<1> QED
  BY <1>2, <1>3, <1>4 DEF HeldOK, IsLive

LEMMA PassesStay ==
  ASSUME PointsOK, LogOK, [Next]_vars, PassesInv, UNCHANGED curateVars, Elsewhere(CurationOps)
  PROVE  PassesInv'
<1> USE DEF curateVars, Elsewhere, CurationOps
<1>1. ASSUME NEW j \in Jobs, (task[j].op = "curate")'
      PROVE  PassOK(j)'
  <2>1. PassOK(j) /\ pc'[j] = pc[j]
    BY <1>1 DEF PassesInv
  <2>2. HeldOK(j) => HeldOK(j)'
    BY HeldStays
  <2> QED
    BY <2>1, <2>2 DEF PassOK, Op
<1> QED
  BY <1>1 DEF PassesInv

\* What a step for j leaves of the other passes, and keeps of its own.
CurationOnly(j) ==
    /\ task' = task /\ task[j].op = "curate" /\ pc[j] # "done"
    /\ \A i \in Jobs \ {j} :
         /\ pc'[i] = pc[i] /\ step'[i] = step[i] /\ todo'[i] = todo[i]
         /\ held'[i] = held[i] /\ told'[i] = told[i] /\ out'[i] = out[i]
    /\ todo' = [i \in Jobs |-> todo'[i]]
    /\ held' = [i \in Jobs |-> held'[i]]
    /\ out' = [i \in Jobs |-> out'[i]]

\* The pass stays at its op, or counts it and goes on.
StaysAt(j) == UNCHANGED <<step, told>>
GoesOn(j) ==
    \E outcome \in Outcomes :
        /\ told' = [told EXCEPT ![j] = Append(@, outcome)]
        /\ step' = [step EXCEPT ![j] = @ + 1]

LEMMA PassForOneJob ==
  ASSUME NEW j \in Jobs, PointsOK, PassesInv, CurationStep(j)
  PROVE  CurationOnly(j) /\ (StaysAt(j) \/ GoesOn(j))
<1>1. /\ todo = [i \in Jobs |-> todo[i]] /\ held = [i \in Jobs |-> held[i]]
      /\ out = [i \in Jobs |-> out[i]]
      /\ step \in [Jobs -> Nat \ {0}] /\ told \in [Jobs -> Seq(Outcomes)]
  BY DEF PassesInv
<1>2. /\ task' = task /\ task[j].op = "curate"
      /\ \A i \in Jobs \ {j} : pc'[i] = pc[i]
  BY CurationMoves DEF Moves, CurationOps, PointsOK
<1>3. pc[j] # "done"
  BY DEF CurationStep, Disabled, AskModel, Gates, Compare, Bound, Close, Write, BreakOff,
         Running
<1>4. todo' = todo \/ \E x : todo' = [todo EXCEPT ![j] = x]
  BY DEF CurationStep, Disabled, AskModel, Gates, Compare, Bound, Close, Write, BreakOff,
         NextOld
<1>5. held' = held \/ \E x : held' = [held EXCEPT ![j] = x]
  BY DEF CurationStep, Disabled, AskModel, Gates, Compare, Bound, Close, Write, BreakOff
<1>6. out' = out \/ \E x : out' = [out EXCEPT ![j] = x]
  BY DEF CurationStep, Disabled, AskModel, Gates, Compare, Bound, Close, Write, BreakOff,
         End, Advance, Refuse
<1>7. StaysAt(j) \/ GoesOn(j)
  <2> USE DEF StaysAt, GoesOn, Advance, Outcomes
  <2>1. CASE Disabled(j) \/ AskModel(j) \/ Bound(j) \/ BreakOff(j)
    BY <2>1 DEF Disabled, AskModel, Bound, BreakOff
  <2>2. CASE Gates(j)
    BY <2>2 DEF Gates, Gate
  <2>3. CASE Compare(j) \/ Close(j)
    BY <2>3 DEF Compare, Close
  <2>4. CASE Write(j)
    BY <2>4 DEF Write, Refuse
  <2> QED
    BY <2>1, <2>2, <2>3, <2>4 DEF CurationStep
<1>8. todo' = [i \in Jobs |-> todo'[i]] /\ \A i \in Jobs \ {j} : todo'[i] = todo[i]
  BY <1>1, <1>4
<1>9. held' = [i \in Jobs |-> held'[i]] /\ \A i \in Jobs \ {j} : held'[i] = held[i]
  BY <1>1, <1>5
<1>10. out' = [i \in Jobs |-> out'[i]] /\ \A i \in Jobs \ {j} : out'[i] = out[i]
  BY <1>1, <1>6
<1>11. \A i \in Jobs \ {j} : step'[i] = step[i] /\ told'[i] = told[i]
  BY <1>1, <1>7 DEF StaysAt, GoesOn
<1> QED
  BY <1>2, <1>3, <1>7, <1>8, <1>9, <1>10, <1>11 DEF CurationOnly

\* One outcome for each op that is through.

LEMMA OutcomesAdd ==
  ASSUME NEW j \in Jobs, PassesInv, task[j].op = "curate", StaysAt(j) \/ GoesOn(j)
  PROVE  /\ step' \in [Jobs -> Nat \ {0}] /\ told' \in [Jobs -> Seq(Outcomes)]
         /\ Len(told'[j]) = step'[j] - 1
         /\ GoesOn(j) => step'[j] = step[j] + 1
<1>1. /\ step \in [Jobs -> Nat \ {0}] /\ told \in [Jobs -> Seq(Outcomes)]
      /\ Len(told[j]) = step[j] - 1
  BY DEF PassesInv, PassOK
<1>2. CASE StaysAt(j)
  BY <1>1, <1>2 DEF StaysAt, GoesOn
<1>3. CASE GoesOn(j)
  <2>1. PICK outcome \in Outcomes :
          /\ told' = [told EXCEPT ![j] = Append(@, outcome)]
          /\ step' = [step EXCEPT ![j] = @ + 1]
    BY <1>3 DEF GoesOn
  <2>2. /\ Append(told[j], outcome) \in Seq(Outcomes)
        /\ Len(Append(told[j], outcome)) = Len(told[j]) + 1
    BY <1>1, AppendProperties
  <2> QED
    BY <1>1, <2>1, <2>2
<1> QED
  BY <1>2, <1>3

LEMMA PassesFor ==
  ASSUME NEW j \in Jobs, PointsOK, LogOK, [Next]_vars, PassesInv, CurationStep(j),
         pc'[j] # "idle",
         pc'[j] \in InOp => step'[j] \in DOMAIN task[j].ops /\ out'[j] = "none",
         pc'[j] \in Passed => step' = step /\ Op(j).key # NoKey,
         pc'[j] \in {"bound", "close"} =>
           /\ todo'[j] \in Seq(Plain) /\ todo'[j] # <<>>
           /\ \A n \in DOMAIN todo'[j] : todo'[j][n] \in ToSet(OldKeys(Op(j)))
           /\ step' = step,
         pc'[j] = "close" => HeldOK(j)'
  PROVE  PassesInv'
<1>1. CurationOnly(j) /\ (StaysAt(j) \/ GoesOn(j))
  BY PassForOneJob
<1>2. /\ step' \in [Jobs -> Nat \ {0}] /\ told' \in [Jobs -> Seq(Outcomes)]
      /\ Len(told'[j]) = step'[j] - 1
  BY <1>1, OutcomesAdd DEF CurationOnly
<1>3. ASSUME NEW i \in Jobs, i # j, (task[i].op = "curate")'
      PROVE  PassOK(i)'
  <2>1. PassOK(i)
    BY <1>1, <1>3 DEF CurationOnly, PassesInv
  <2>2. HeldOK(i) => HeldOK(i)'
    BY <1>1, <1>3, HeldStays DEF CurationOnly
  <2> QED
    BY <1>1, <1>3, <2>1, <2>2 DEF CurationOnly, PassOK, Op
<1>4. PassOK(j)'
  BY <1>1, <1>2 DEF CurationOnly, PassOK, Op
<1> QED
  BY <1>1, <1>2, <1>3, <1>4 DEF PassesInv, CurationOnly

LEMMA PassGoesOn ==
  ASSUME NEW j \in Jobs, PointsOK, RowsInv, PassesInv, task[j].op = "curate",
         pc[j] \in InOp, NEW outcome, Advance(j, outcome)
  PROVE  /\ pc'[j] \in {"gates", "done"}
         /\ pc'[j] = "gates" => step'[j] \in DOMAIN task[j].ops /\ out'[j] = "none"
<1>1. step[j] \in DOMAIN task[j].ops /\ out[j] = "none" /\ step \in [Jobs -> Nat \ {0}]
  BY DEF PassesInv, PassOK
<1>2. task[j].ops \in Seq(ToSet(task[j].ops))
  BY TasksAreAsked
<1>3. Len(task[j].ops) \in Nat /\ DOMAIN task[j].ops = 1..Len(task[j].ops)
  BY <1>2
<1>4. step'[j] = step[j] + 1
  BY <1>1 DEF Advance
<1>5. CASE step[j] < Len(task[j].ops)
  <2>1. pc'[j] = "gates" /\ out' = out
    BY <1>5 DEF Advance, Goto, PointsOK
  <2> QED
    BY <2>1, <1>1, <1>3, <1>4, <1>5
<1>6. CASE ~(step[j] < Len(task[j].ops))
  BY <1>6 DEF Advance, End, Goto, PointsOK
<1> QED
  BY <1>5, <1>6

\* The next old key, if there is one.

LEMMA NextOldKey ==
  ASSUME NEW j \in Jobs, PointsOK, PassesInv, task[j].op = "curate",
         pc[j] \in {"bound", "close"}, NextOld(j)
  PROVE  /\ pc'[j] \in {"bound", "write"}
         /\ pc'[j] = "bound" =>
              /\ todo'[j] \in Seq(Plain) /\ todo'[j] # <<>>
              /\ \A n \in DOMAIN todo'[j] : todo'[j][n] \in ToSet(OldKeys(Op(j)))
<1>1. /\ todo[j] \in Seq(Plain) /\ todo[j] # <<>>
      /\ \A n \in DOMAIN todo[j] : todo[j][n] \in ToSet(OldKeys(Op(j)))
      /\ todo = [i \in Jobs |-> todo[i]]
  BY DEF PassesInv, PassOK
<1>2. todo'[j] = Tail(todo[j])
  BY <1>1 DEF NextOld
<1>3. /\ Tail(todo[j]) \in Seq(Plain) /\ Len(Tail(todo[j])) = Len(todo[j]) - 1
      /\ \A n \in 1..Len(Tail(todo[j])) : Tail(todo[j])[n] = todo[j][n + 1]
  BY <1>1, HeadTailProperties
<1>4. DOMAIN todo[j] = 1..Len(todo[j]) /\ Len(todo[j]) \in Nat \ {0}
  BY <1>1, EmptySeq
<1>5. \A n \in DOMAIN Tail(todo[j]) : Tail(todo[j])[n] \in ToSet(OldKeys(Op(j)))
  <2> SUFFICES ASSUME NEW n \in DOMAIN Tail(todo[j])
               PROVE  Tail(todo[j])[n] \in ToSet(OldKeys(Op(j)))
    OBVIOUS
  <2>1. n \in 1..Len(Tail(todo[j]))
    BY <1>3
  <2>2. n + 1 \in DOMAIN todo[j]
    BY <2>1, <1>3, <1>4
  <2> QED
    BY <2>1, <2>2, <1>1, <1>3
<1>6. CASE Len(todo[j]) = 1
  BY <1>6 DEF NextOld, Goto, PointsOK
<1>7. CASE Len(todo[j]) # 1
  <2>1. Tail(todo[j]) # <<>>
    <3>1. Len(Tail(todo[j])) # 0
      BY <1>3, <1>4, <1>7
    <3> DEFINE s == Tail(todo[j])
    <3>2. s \in Seq(Plain) /\ Len(s) # 0
      BY <1>3, <3>1
    <3> HIDE DEF s
    <3>3. s # <<>>
      BY <3>2, EmptySeq
    <3> QED
      BY <3>3 DEF s
  <2> QED
    BY <2>1, <1>2, <1>3, <1>5, <1>7 DEF NextOld, Goto, PointsOK
<1> QED
  BY <1>6, <1>7

LEMMA PassesGates ==
  ASSUME NEW j \in Jobs, PointsOK, RowsInv, [Next]_vars, PassesInv, Gates(j)
  PROVE  PassesInv'
<1>1. /\ task[j].op = "curate" /\ pc[j] = "gates" /\ CurationStep(j) /\ LogOK
      /\ step[j] \in DOMAIN task[j].ops /\ out[j] = "none"
  BY DEF Gates, PointsOK, At, CurationStep, PassesInv, PassOK, InOp, Passed, RowsInv
<1>2. CASE Gate(j) = "passed"
  <2>1. /\ todo'[j] = OldKeys(Op(j)) /\ UNCHANGED <<step, out>>
        /\ pc'[j] \in {"compare", "write", "bound"}
        /\ pc'[j] = "bound" => OldKeys(Op(j)) # <<>>
    BY <1>2 DEF Gates, Goto, PointsOK, PassesInv
  <2>4. Op(j).key # NoKey
    BY <1>2 DEF Gate
  <2>2. OldKeys(Op(j)) \in Seq(Plain)
    BY <1>1, TasksAreAsked DEF Op
  <2>3. \A n \in DOMAIN OldKeys(Op(j)) : OldKeys(Op(j))[n] \in ToSet(OldKeys(Op(j)))
    BY DEF ToSet
  <2> QED
    BY <1>1, <2>1, <2>2, <2>3, <2>4, PassesFor DEF Passed, InOp
<1>3. CASE Gate(j) # "passed"
  <2>1. Advance(j, Gate(j))
    BY <1>3 DEF Gates
  <2> QED
    BY <1>1, <2>1, PassGoesOn, PassesFor DEF InOp, Passed
<1> QED
  BY <1>2, <1>3

LEMMA PassesBegin ==
  ASSUME NEW j \in Jobs, PointsOK, RowsInv, [Next]_vars, PassesInv, Disabled(j) \/ AskModel(j)
  PROVE  PassesInv'
<1>1. /\ task[j].op = "curate" /\ pc[j] = "idle" /\ CurationStep(j) /\ LogOK
      /\ step[j] = 1 /\ out[j] = "none"
  BY DEF Disabled, AskModel, CurationStep, PassesInv, PassOK, RowsInv
<1>2. /\ UNCHANGED step /\ pc'[j] \in {"gates", "done"}
      /\ pc'[j] = "gates" => task[j].ops # <<>> /\ out' = out
  BY DEF Disabled, AskModel, Goto, End, PointsOK
<1>3. task[j].ops # <<>> => 1 \in DOMAIN task[j].ops
  <2>1. task[j].ops \in Seq(ToSet(task[j].ops))
    BY <1>1, TasksAreAsked
  <2> QED
    BY <2>1, EmptySeq
<1> QED
  BY <1>1, <1>2, <1>3, PassesFor DEF InOp, Passed

LEMMA PassesCompare ==
  ASSUME NEW j \in Jobs, PointsOK, RowsInv, [Next]_vars, PassesInv, Compare(j)
  PROVE  PassesInv'
<1>1. /\ task[j].op = "curate" /\ pc[j] = "compare" /\ CurationStep(j) /\ LogOK
      /\ step[j] \in DOMAIN task[j].ops /\ out[j] = "none" /\ Op(j).key # NoKey
  BY DEF Compare, PointsOK, At, CurationStep, PassesInv, PassOK, InOp, Passed, RowsInv
<1>2. CASE Advance(j, "noop")
  BY <1>1, <1>2, PassGoesOn, PassesFor DEF InOp, Passed
<1>3. CASE Goto(j, "write") /\ UNCHANGED <<step, out>>
  <2>1. pc'[j] = "write"
    BY <1>3 DEF Goto, PointsOK
  <2> QED
    BY <1>1, <1>3, <2>1, PassesFor DEF InOp, Passed
<1> QED
  BY <1>2, <1>3 DEF Compare

\* The boundary is read: it is the latest revision at that moment.

LEMMA PassesBound ==
  ASSUME NEW j \in Jobs, PointsOK, RowsInv, [Next]_vars, PassesInv, Bound(j)
  PROVE  PassesInv'
<1>1. /\ task[j].op = "curate" /\ pc[j] = "bound" /\ CurationStep(j) /\ LogOK
      /\ step[j] \in DOMAIN task[j].ops /\ out[j] = "none" /\ Op(j).key # NoKey
      /\ todo[j] \in Seq(Plain) /\ todo[j] # <<>>
      /\ \A n \in DOMAIN todo[j] : todo[j][n] \in ToSet(OldKeys(Op(j)))
      /\ held = [i \in Jobs |-> held[i]]
  BY DEF Bound, PointsOK, At, CurationStep, PassesInv, PassOK, InOp, Passed, RowsInv
<1> DEFINE k == Head(todo[j])
           i == Latest(k)
<1>2. UNCHANGED <<log, step, out>>
  BY DEF Bound
<1>3. CASE i # 0 /\ IsLive(log[i])
  <2>1. /\ held'[j] = [row |-> i, at |-> Len(log)] /\ UNCHANGED todo /\ pc'[j] = "close"
    BY <1>1, <1>3 DEF Bound, Goto, PointsOK
  <2>2. Len(log) \in Nat
    BY <1>1, LogGrows
  <2>3. i \in 1..Len(log) /\ log[i].key = k /\ i = LatestAt(k, Len(log))
    BY <1>3, <2>2, LatestAtIs DEF Latest
  <2>4. HeldOK(j)'
    <3>1. \A x, n : LatestAt(x, n)' = LatestAt(x, n)
      BY <1>2 DEF LatestAt
    <3>2. /\ held'[j].row = i /\ held'[j].at = Len(log) /\ todo'[j] = todo[j]
          /\ Len(log) \in i..Len(log)
      BY <2>1, <2>2, <2>3
    <3> HIDE DEF i, k
    <3>3. k = Head(todo'[j]) /\ k = Head(todo[j])
      BY <2>1 DEF k
    <3>4. LatestAt(Head(todo[j]), held[j].at)' = i
      <4>1. \A x, n : x = Head(todo'[j]) /\ n = held'[j].at => LatestAt(x, n)' = i
        BY <3>1, <3>2, <3>3, <2>3
      <4> QED
        BY <4>1 DEF LatestAt
    <3> QED
      BY <1>2, <1>3, <2>3, <3>2, <3>3, <3>4 DEF HeldOK, IsLive
  <2> QED
    BY <1>1, <1>2, <2>1, <2>4, PassesFor DEF InOp, Passed
<1>4. CASE ~(i # 0 /\ IsLive(log[i]))
  <2>1. NextOld(j)
    BY <1>4 DEF Bound
  <2> QED
    BY <1>1, <1>2, <2>1, NextOldKey, PassesFor DEF InOp, Passed
<1> QED
  BY <1>3, <1>4

LEMMA PassesClose ==
  ASSUME NEW j \in Jobs, PointsOK, RowsInv, [Next]_vars, PassesInv, Close(j)
  PROVE  PassesInv'
<1>1. /\ task[j].op = "curate" /\ pc[j] = "close" /\ CurationStep(j) /\ LogOK
      /\ step[j] \in DOMAIN task[j].ops /\ out[j] = "none" /\ Op(j).key # NoKey
  BY DEF Close, PointsOK, At, CurationStep, PassesInv, PassOK, InOp, Passed, RowsInv
<1>2. CASE Advance(j, "idempotency_conflict")
  BY <1>1, <1>2, PassGoesOn, PassesFor DEF InOp, Passed
<1>3. CASE NextOld(j) /\ UNCHANGED <<step, told, out>>
  BY <1>1, <1>3, NextOldKey, PassesFor DEF InOp, Passed
<1> QED
  BY <1>2, <1>3 DEF Close

LEMMA PassesWrite ==
  ASSUME NEW j \in Jobs, PointsOK, RowsInv, [Next]_vars, PassesInv, Write(j) \/ BreakOff(j)
  PROVE  PassesInv'
<1>1. task[j].op = "curate" /\ CurationStep(j) /\ LogOK
  BY DEF Write, BreakOff, PointsOK, At, CurationStep, RowsInv
<1>2. CASE End(j, "failed")
  <2>1. pc'[j] = "done"
    BY <1>2 DEF End, Goto, PointsOK
  <2> QED
    BY <1>1, <2>1, PassesFor DEF InOp, Passed
<1>3. CASE pc[j] = "write" /\ \E outcome : Advance(j, outcome)
  <2>1. PICK outcome : Advance(j, outcome)
    BY <1>3
  <2>2. pc[j] \in InOp
    BY <1>3 DEF InOp
  <2>3. /\ pc'[j] \in {"gates", "done"}
        /\ pc'[j] = "gates" => step'[j] \in DOMAIN task[j].ops /\ out'[j] = "none"
    BY <1>1, <2>1, <2>2, PassGoesOn
  <2> QED
    BY <1>1, <2>3, PassesFor DEF InOp, Passed
<1> QED
  BY <1>2, <1>3 DEF Write, BreakOff, Refuse

LEMMA PassesStep ==
  ASSUME PointsOK, RowsInv, [Next]_vars, PassesInv
  PROVE  PassesInv'
<1>1. CASE UNCHANGED curateVars /\ Elsewhere(CurationOps)
  BY <1>1, PassesStay DEF RowsInv
<1>2. ASSUME NEW j \in Jobs, CurationStep(j)
      PROVE  PassesInv'
  BY <1>2, PassesBegin, PassesGates, PassesCompare, PassesBound, PassesClose, PassesWrite
     DEF CurationStep
<1> QED
  BY <1>1, <1>2, CurationFrame

-----------------------------------------------------------------------------
(* Who writes what.                                                         *)

Reconciling == {"attest", "subject", "verdict"}

\* The claims a reconciling pass has still to resolve.
BatchInv ==
    /\ batch = [j \in Jobs |-> batch[j]]
    /\ since = [j \in Jobs |-> since[j]]
    /\ verdict \in [Jobs -> States \cup {"none"}]
    /\ \A j \in Jobs : pc[j] = "verdict" => verdict[j] \in States
    /\ \A j \in Jobs : pc[j] \in Reconciling =>
         /\ batch[j] # {}
         /\ \A i \in batch[j] : i \in 1..Len(log) /\ log[i].kind = "claim"

LEMMA NextIsAClaim ==
  ASSUME NEW j \in Jobs, RowsInv, BatchInv, pc[j] \in Reconciling
  PROVE  /\ NextClaim(j) \in batch[j] /\ NextClaim(j) \in 1..Len(log)
         /\ log[NextClaim(j)].kind = "claim" /\ RowShape(log[NextClaim(j)])
         /\ log[NextClaim(j)].meta.sha.len # "short"
<1> DEFINE named == {log[i].key : i \in batch[j]}
<1>1. /\ batch[j] # {} /\ \A i \in batch[j] : i \in 1..Len(log) /\ log[i].kind = "claim"
  BY DEF BatchInv
<1>2. DOMAIN log = 1..Len(log)
  BY DEF RowsInv, LogOK
<1>3. \A i \in batch[j] : RowShape(log[i]) /\ log[i].key \in Nat
                          /\ log[i].meta.sha.len # "short"
  BY <1>1, <1>2 DEF RowsInv, RowShape
<1>4. named \subseteq Nat /\ named # {}
  BY <1>1, <1>3
<1>5. PICK x \in named : \A y \in named : ~(<<y, x>> \in OpToRel(<, Nat))
  BY <1>4, NatLessThanWellFounded, WFMin
<1>6. \A y \in named : ~(y < x)
  BY <1>4, <1>5 DEF OpToRel
<1>7. PICK i \in batch[j] : x = log[i].key
  BY <1>5
<1>8. \A i2 \in batch[j] : log[i].key <= log[i2].key
  BY <1>3, <1>6, <1>7
<1>9. NextClaim(j) \in batch[j]
  BY <1>8 DEF NextClaim
<1> QED
  BY <1>1, <1>3, <1>9

LEMMA WritingWrites ==
  ASSUME NEW j \in Jobs, RowsInv, Writing(j)
  PROVE  log' = log \/ \E r : AppendRow(j, r) /\ Ordinary(r)
<1>0. PlainKeys \in Nat
  BY EntriesAssumption
<1>1. CASE Save(j)
  <2>1. task[j].op = "save" => UserRow(task[j].row)
    BY TasksAreAsked
  <2> QED
    BY <1>1, <2>1, UsersRowIsOrdinary DEF Save, RowsInv
<1>2. CASE Delete(j)
  <2>1. task[j].key \in Plain
    BY <1>2, TasksAreAsked DEF Delete
  <2> DEFINE r(kind) == [Blank EXCEPT !.key = task[j].key, !.dead = TRUE, !.kind = kind]
  <2>2. \A kind \in Kinds : Ordinary(r(kind))
    <3> SUFFICES ASSUME NEW kind \in Kinds
                 PROVE  Ordinary(r(kind))
      OBVIOUS
    <3>1. /\ DOMAIN r(kind) = DOMAIN Blank /\ r(kind).key = task[j].key
          /\ r(kind).kind = kind /\ r(kind).dead = TRUE /\ r(kind).closed = Blank.closed
          /\ r(kind).val = Blank.val /\ r(kind).vectors = Blank.vectors
          /\ r(kind).quarantined = Blank.quarantined /\ r(kind).family = Blank.family
          /\ r(kind).derived_from = Blank.derived_from /\ r(kind).meta = Blank.meta
          /\ r(kind).basis = Blank.basis /\ r(kind).given = Blank.given
      BY BlankShape
    <3>2. task[j].key \in Nat /\ task[j].key \in Keys /\ task[j].key \in 0..PlainKeys
      BY <1>0, <2>1 DEF Plain, Keys
    <3> HIDE DEF r
    <3> QED
      BY <2>1, <3>1, <3>2, BlankIsOrdinary DEF Ordinary, RowShape, RowsInv
  <2>3. \E kind \in Kinds : AppendRow(j, r(kind))
    <3> DEFINE i == Latest(task[j].key)
    <3>1. AppendRow(j, r(IF i = 0 THEN Blank.kind ELSE log[i].kind))
      BY <1>2, BlankShape DEF Delete
    <3>2. i # 0 => i \in DOMAIN log
      <4>1. Len(log) \in Nat /\ DOMAIN log = 1..Len(log)
        BY DEF RowsInv, LogOK
      <4> QED
        BY <4>1, LatestAtIs DEF Latest
    <3>3. (IF i = 0 THEN Blank.kind ELSE log[i].kind) \in Kinds
      BY <3>2, BlankIsOrdinary DEF Ordinary, RowShape, RowsInv
    <3> QED
      BY <3>1, <3>3
  <2> QED
    BY <2>2, <2>3
<1>3. CASE ObservationLog(j)
  <2> DEFINE r == [Blank EXCEPT !.val = task[j].val, !.tags = {"observation"}]
  <2>1. task[j].val \in Values
    BY <1>3, TasksAreAsked DEF ObservationLog
  <2>2. Ordinary(r)
    BY <2>1, BlankIsOrdinary, BlankShape DEF Ordinary, RowShape, Blank, RowsInv
  <2> QED
    BY <1>3, <2>2 DEF ObservationLog
<1> QED
  BY <1>1, <1>2, <1>3 DEF Writing

LEMMA SeedWrites ==
  ASSUME NEW j \in Jobs, PointsOK, RowsInv, SeedProject(j)
  PROVE  log' = log \/ \E r : AppendRow(j, r) /\ Ordinary(r)
<1> DEFINE r == [Blank EXCEPT !.key = ProjectMeta, !.kind = "knowledge", !.val = task[j].val]
<1>1. /\ PlainKeys \in Nat /\ ProjectMeta \in 1..PlainKeys /\ ProjectMeta \in Keys
      /\ "knowledge" \in Kinds
  BY EntriesAssumption, NamespacesAssumption DEF Plain, Keys
<1>2. task[j].val \in Values
  <2>1. task[j].op = "init"
    BY DEF SeedProject, PointsOK, At
  <2> QED
    BY <2>1, NamespacesAssumption DEF RowsInv
<1>3. Ordinary(r)
  BY <1>1, <1>2, BlankIsOrdinary, BlankShape DEF Ordinary, RowShape, Blank, RowsInv
<1> QED
  BY <1>3 DEF SeedProject

LEMMA SurvivorIsOrdinary ==
  ASSUME NEW j \in Jobs, PointsOK, RowsInv, PassesInv, pc[j] = "write",
         ~Refused(Survivor(j)), Seen(Survivor(j).event) = {}
  PROVE  Ordinary(Survivor(j))
<1>1. task[j].op = "curate" /\ step[j] \in DOMAIN task[j].ops
  BY DEF PointsOK, At, PassesInv, PassOK, InOp
<1>2. /\ Op(j).key \in Plain \cup {NoKey} /\ Op(j).meta \in Metas /\ Op(j).val \in Values
      /\ Op(j).derived_from \subseteq Plain /\ Op(j).vectors \subseteq {"text", "hyde"}
  BY <1>1, TasksAreAsked DEF Op
<1>3. Op(j).key \in Plain
  BY <1>1, <1>2 DEF PassesInv, PassOK, Passed
<1>4. Op(j).key \in Nat /\ Op(j).key \in Keys /\ Op(j).key \in 0..PlainKeys
  BY <1>3, EntriesAssumption DEF Plain, Keys
<1> DEFINE s == Survivor(j)
<1>5. /\ DOMAIN s = DOMAIN Blank /\ s.key = Op(j).key /\ s.val = Op(j).val
      /\ s.meta = Op(j).meta /\ s.vectors = Op(j).vectors /\ s.family = TRUE
      /\ s.derived_from = Op(j).derived_from /\ s.closed = Blank.closed
      /\ s.dead = Blank.dead /\ s.quarantined = Blank.quarantined /\ s.basis = Blank.basis
      /\ s.given = Blank.given
  BY BlankShape DEF Survivor
<1>6. s.kind \in Kinds
  BY DEF Refused
<1> HIDE DEF s
<1> QED
  BY <1>2, <1>3, <1>4, <1>5, <1>6, BlankIsOrdinary DEF Ordinary, RowShape, RowsInv, s

LEMMA WhatIsWritten ==
  ASSUME PointsOK, RowsInv, PassesInv, [Next]_vars
  PROVE  \/ log' = log
         \/ \E j \in Jobs : \E r : AppendRow(j, r) /\ Ordinary(r)
         \/ \E j \in Jobs : SaveVerdict(j) \/ Close(j)
<1>1. ASSUME NEW j \in Jobs, KnowledgeStep(j)
      PROVE  \/ log' = log
             \/ \E r : AppendRow(j, r) /\ Ordinary(r)
             \/ SaveVerdict(j) \/ Close(j)
  <2>1. CASE Writing(j)
    BY <2>1, WritingWrites
  <2>2. CASE ReadingStep(j)
    BY <2>2, ReadingMoves
  <2>3. CASE CurationStep(j)
    <3>1. CASE Write(j)
      BY <3>1, SurvivorIsOrdinary DEF Write, Land
    <3>2. CASE Disabled(j) \/ AskModel(j) \/ Gates(j) \/ Compare(j) \/ Bound(j) \/ BreakOff(j)
      BY <3>2 DEF Disabled, AskModel, Gates, Compare, Bound, BreakOff
    <3> QED
      BY <2>3, <3>1, <3>2 DEF CurationStep
  <2>4. CASE ClaimsStep(j)
    BY <2>4 DEF ClaimsStep, ReadClaims, Attest, ResolveSubject, BreakPass, BootstrapHealth,
                BootstrapBatons, BootstrapSession
  <2> QED
    BY <1>1, <2>1, <2>2, <2>3, <2>4 DEF KnowledgeStep
<1>2. ASSUME NEW j \in Jobs, ServiceStep(j)
      PROVE  log' = log \/ \E r : AppendRow(j, r) /\ Ordinary(r)
  <2>1. CASE NamespacesStep(j)
    <3>1. CASE SeedProject(j)
      BY <3>1, SeedWrites
    <3>2. CASE ~SeedProject(j)
      BY <2>1, <3>2 DEF NamespacesStep, CheckRegistry, CheckEntries, WriteProfile, Register,
                        ReadBack, BreakInit, EditProfile
    <3> QED
      BY <3>1, <3>2
  <2> QED
    BY <1>2, <2>1, SessionsMoves, TokensMoves, ArtifactsMoves DEF ServiceStep
<1>3. Tick \/ Push \/ UNCHANGED vars => log' = log
  BY DEF Tick, Push, vars, entryVars
<1> QED
  BY <1>1, <1>2, <1>3 DEF Next

LEMMA TaskStays ==
  ASSUME PointsOK, [Next]_vars
  PROVE  task' = task
<1>1. ASSUME NEW j \in Jobs, KnowledgeStep(j) \/ ServiceStep(j)
      PROVE  task' = task
  BY <1>1, KnowledgeMoves, SessionsMoves, NamespacesMoves, TokensMoves, ArtifactsMoves
     DEF ServiceStep, Moves
<1> QED
  BY <1>1 DEF Next, Tick, Push, vars, entryVars

\* The verdict a pass writes, and the boundary.
VerdictRow(j) ==
    [Blank EXCEPT !.key = VerdictOf(log[NextClaim(j)].key), !.kind = "config",
        !.val = verdict[j], !.tags = {"reconcile"},
        !.basis = NextClaim(j), !.span = <<since[j], head>>]

LEMMA VerdictShape ==
  ASSUME NEW j \in Jobs, PointsOK, RowsInv, BatchInv, SaveVerdict(j)
  PROVE  /\ AppendRow(j, VerdictRow(j)) /\ RowShape(VerdictRow(j))
         /\ ~VerdictRow(j).closed /\ VerdictRow(j).val = verdict[j]
         /\ VerdictRow(j).basis = NextClaim(j) /\ VerdictRow(j).span = <<since[j], head>>
<1>1. pc[j] \in Reconciling
  BY DEF SaveVerdict, Reconciling
<1>2. log[NextClaim(j)].key \in Nat /\ PlainKeys \in Nat
  BY <1>1, NextIsAClaim, EntriesAssumption DEF RowShape
<1>3. /\ VerdictOf(log[NextClaim(j)].key) \in Nat
      /\ VerdictOf(log[NextClaim(j)].key) \in Keys
  <2>1. log[NextClaim(j)].key \in Plain
    BY <1>1, NextIsAClaim DEF RowShape
  <2> QED
    BY <1>2, <2>1 DEF VerdictOf, Keys
<1>4. /\ DOMAIN VerdictRow(j) = DOMAIN Blank /\ VerdictRow(j).meta = Blank.meta
      /\ VerdictRow(j).key = VerdictOf(log[NextClaim(j)].key)
      /\ VerdictRow(j).closed = Blank.closed /\ VerdictRow(j).val = verdict[j]
      /\ VerdictRow(j).basis = NextClaim(j) /\ VerdictRow(j).span = <<since[j], head>>
      /\ VerdictRow(j).kind = "config" /\ VerdictRow(j).vectors = Blank.vectors
      /\ VerdictRow(j).dead = Blank.dead /\ VerdictRow(j).quarantined = Blank.quarantined
      /\ VerdictRow(j).family = Blank.family
      /\ VerdictRow(j).derived_from = Blank.derived_from /\ VerdictRow(j).given = Blank.given
  BY BlankShape DEF VerdictRow
<1>5. RowShape(Blank) /\ ~Blank.closed /\ Blank.vectors = {}
  BY BlankIsOrdinary DEF Ordinary, RowsInv, Blank
<1>7. /\ "config" \in Kinds /\ verdict[j] \in States
      /\ NextClaim(j) \in 0..Len(log)
  <2>1. pc[j] = "verdict" /\ Len(log) \in Nat
    BY DEF SaveVerdict, RowsInv, LogOK
  <2> QED
    BY <1>1, <2>1, NextIsAClaim, EntriesAssumption DEF BatchInv
<1>6. AppendRow(j, VerdictRow(j))
  BY DEF SaveVerdict, VerdictRow
<1> QED
  BY <1>3, <1>4, <1>5, <1>6, <1>7 DEF RowShape

LEMMA BoundaryShape ==
  ASSUME NEW j \in Jobs, PointsOK, RowsInv, PassesInv, Close(j)
  PROVE  /\ task[j].op = "curate" /\ HeldOK(j) /\ todo[j] # <<>> /\ todo[j] \in Seq(Plain)
         /\ Head(todo[j]) \in ToSet(OldKeys(Op(j))) /\ Head(todo[j]) \in Plain
         /\ RowShape(Boundary(j))
         /\ Boundary(j).key = Head(todo[j]) /\ Boundary(j).closed = TRUE
         /\ Boundary(j).basis = held[j].row /\ Boundary(j).span = <<held[j].at, Len(log)>>
         /\ Boundary(j).event = <<task[j].session, Head(todo[j]), "supersede-boundary">>
<1>1. /\ task[j].op = "curate" /\ HeldOK(j) /\ todo[j] # <<>> /\ todo[j] \in Seq(Plain)
      /\ \A n \in DOMAIN todo[j] : todo[j][n] \in ToSet(OldKeys(Op(j)))
  BY DEF Close, PointsOK, At, PassesInv, PassOK
<1>2. Head(todo[j]) = todo[j][1] /\ 1 \in DOMAIN todo[j] /\ Head(todo[j]) \in Plain
  BY <1>1, EmptySeq
<1> DEFINE h == log[held[j].row]
<1>3. h.key = Head(todo[j]) /\ RowShape(h)
  BY <1>1 DEF HeldOK, RowsInv, LogOK
<1> HIDE DEF h
<1>4. Boundary(j) =
        [h EXCEPT !.closed = TRUE, !.vectors = {}, !.derived_from = {},
           !.family = FALSE, !.basis = held[j].row, !.span = <<held[j].at, Len(log)>>,
           !.event = CurateEvent(j, h.key, "supersede-boundary")]
  BY DEF Boundary, h
<1>5. /\ DOMAIN Boundary(j) = DOMAIN Blank /\ Boundary(j).key = h.key
      /\ Boundary(j).meta = h.meta /\ Boundary(j).closed = TRUE
      /\ Boundary(j).basis = held[j].row /\ Boundary(j).span = <<held[j].at, Len(log)>>
      /\ Boundary(j).event = CurateEvent(j, h.key, "supersede-boundary")
      /\ Boundary(j).kind = h.kind /\ Boundary(j).val = h.val /\ Boundary(j).vectors = {}
      /\ Boundary(j).dead = h.dead /\ Boundary(j).quarantined = h.quarantined
      /\ Boundary(j).family = FALSE /\ Boundary(j).derived_from = {}
      /\ Boundary(j).given = h.given
  BY <1>3, <1>4, BlankShape DEF RowShape
<1>6. held[j].row \in 0..Len(log)
  BY <1>1 DEF HeldOK
<1>7. RowShape(Boundary(j))
  BY <1>3, <1>5, <1>6 DEF RowShape
<1> QED
  BY <1>1, <1>2, <1>3, <1>5, <1>7 DEF CurateEvent

\* Every row that enters has the shape of one.

LEMMA RowsInvStep ==
  ASSUME PointsOK, RowsInv, PassesInv, BatchInv, [Next]_vars
  PROVE  RowsInv'
<1>1. task' = task
  BY TaskStays
<1>2. \/ log' = log \/ \E j \in Jobs : \E r : AppendRow(j, r) /\ RowShape(r)
  <2>1. ASSUME NEW j \in Jobs, SaveVerdict(j)
        PROVE  \E r : AppendRow(j, r) /\ RowShape(r)
    BY <2>1, VerdictShape
  <2>2. ASSUME NEW j \in Jobs, Close(j)
        PROVE  log' = log \/ \E r : AppendRow(j, r) /\ RowShape(r)
    BY <2>2, BoundaryShape DEF Close, Land
  <2> QED
    BY <2>1, <2>2, WhatIsWritten DEF Ordinary
<1>5. now \in 0..MaxNow /\ now' \in 0..MaxNow /\ now <= now'
  <2>1. now \in 0..MaxNow /\ MaxNow \in Nat
    BY EntriesAssumption DEF RowsInv
  <2> QED
    BY <2>1, TimeMoves
<1>3. CASE log' = log
  <2>1. (\A i \in DOMAIN log : RowShape(log[i]) /\ log[i].at \in 0..now)'
    BY <1>3, <1>5 DEF RowsInv, RowShape
  <2> QED
    BY <1>1, <1>3, <1>5, <2>1 DEF RowsInv, LogOK
<1>4. ASSUME NEW j \in Jobs, NEW r, AppendRow(j, r), RowShape(r)
      PROVE  RowsInv'
  <2>1. /\ LogOK' /\ Len(log) \in Nat
        /\ DOMAIN log = 1..Len(log) /\ DOMAIN log' = 1..(Len(log) + 1)
        /\ \A i \in 1..Len(log) : log'[i] = log[i]
        /\ Len(log') = Len(log) + 1
        /\ RowShape(log'[Len(log) + 1]) /\ log'[Len(log) + 1].meta.sha.len # "short"
        /\ log'[Len(log) + 1].by = j /\ log'[Len(log) + 1].at = now
    BY <1>4, RowLands DEF RowsInv
  <2>2. \A i \in DOMAIN log' : i \in DOMAIN log \/ i = Len(log) + 1
    BY <2>1
  <2>3. \A i \in DOMAIN log' :
          /\ RowShape(log'[i]) /\ log'[i].meta.sha.len # "short"
          /\ log'[i].at \in 0..now /\ log'[i].by \in Jobs \cup {0}
    BY <1>5, <2>1, <2>2 DEF RowsInv
  <2>4. (\A i \in DOMAIN log : RowShape(log[i]) /\ log[i].at \in 0..now)'
    BY <1>5, <2>1, <2>3 DEF RowShape
  <2> QED
    BY <1>1, <1>5, <2>1, <2>3, <2>4 DEF RowsInv
<1> QED
  BY <1>2, <1>3, <1>4

LEMMA InitBatch == Init => BatchInv
BY DEF Init, ClaimsInit, EntriesInit, BatchInv, Reconciling

\* What a step for j leaves of the other passes.
ClaimsOnly(j) ==
    /\ \A i \in Jobs \ {j} :
         /\ pc'[i] = pc[i] /\ batch'[i] = batch[i] /\ since'[i] = since[i]
         /\ verdict'[i] = verdict[i]
    /\ batch' = [i \in Jobs |-> batch'[i]]
    /\ since' = [i \in Jobs |-> since'[i]]
    /\ verdict' = [i \in Jobs |-> verdict'[i]]

LEMMA ClaimsForOneJob ==
  ASSUME NEW j \in Jobs, PointsOK, BatchInv, ClaimsStep(j)
  PROVE  ClaimsOnly(j)
<1>1. /\ batch = [i \in Jobs |-> batch[i]] /\ since = [i \in Jobs |-> since[i]]
      /\ verdict = [i \in Jobs |-> verdict[i]]
  BY DEF BatchInv
<1>2. \A i \in Jobs \ {j} : pc'[i] = pc[i]
  BY ClaimsMoves DEF Moves, PointsOK
<1> USE DEF ClaimsStep, ReadClaims, Attest, ResolveSubject, SaveVerdict, BreakPass,
            BootstrapHealth, BootstrapBatons, BootstrapSession, Goes, Observed, Settle
<1>3. batch' = batch \/ \E x : batch' = [batch EXCEPT ![j] = x]
  OBVIOUS
<1>4. since' = since \/ \E x : since' = [since EXCEPT ![j] = x]
  OBVIOUS
<1>5. verdict' = verdict \/ \E x : verdict' = [verdict EXCEPT ![j] = x]
  OBVIOUS
<1> HIDE DEF ClaimsStep, ReadClaims, Attest, ResolveSubject, SaveVerdict, BreakPass,
            BootstrapHealth, BootstrapBatons, BootstrapSession, Goes, Observed, Settle
<1>6. batch' = [i \in Jobs |-> batch'[i]] /\ \A i \in Jobs \ {j} : batch'[i] = batch[i]
  BY <1>1, <1>3
<1>7. since' = [i \in Jobs |-> since'[i]] /\ \A i \in Jobs \ {j} : since'[i] = since[i]
  BY <1>1, <1>4
<1>8. verdict' = [i \in Jobs |-> verdict'[i]] /\ \A i \in Jobs \ {j} : verdict'[i] = verdict[i]
  BY <1>1, <1>5
<1> QED
  BY <1>2, <1>6, <1>7, <1>8 DEF ClaimsOnly

\* How a step goes about its batch.

LEMMA BatchMoves ==
  ASSUME NEW j \in Jobs, PointsOK, RowsInv, BatchInv, ClaimsStep(j)
  PROVE  \/ pc'[j] \notin Reconciling
         \/ /\ pc[j] \in Reconciling /\ pc'[j] \in {"subject", "verdict"} /\ batch' = batch
         \/ /\ pc'[j] = "attest" /\ batch'[j] # {}
            /\ \A i \in batch'[j] : i \in DOMAIN log /\ log[i].kind = "claim"
<1>0. batch = [i \in Jobs |-> batch[i]]
  BY DEF BatchInv
<1>1. CASE ReadClaims(j)
  <2>1. \A limit : \A i \in ClaimsOf(task[j], limit) : i \in DOMAIN log /\ log[i].kind = "claim"
    BY DEF ClaimsOf, FirstByKey, DistinctOn
  <2> HIDE DEF ClaimsOf
  <2>2. PICK limit \in Limits(task[j]) :
          /\ batch'[j] = ClaimsOf(task[j], limit)
          /\ pc'[j] = IF batch'[j] = {} THEN "done" ELSE "attest"
    BY <1>0, <1>1 DEF ReadClaims, Goes, Goto, PointsOK
  <2> QED
    BY <2>1, <2>2 DEF Reconciling
<1>2. CASE Attest(j)
  BY <1>2 DEF Attest, Observed, Settle, Goto, PointsOK, Reconciling
<1>3. CASE ResolveSubject(j)
  BY <1>3 DEF ResolveSubject, Settle, Goto, PointsOK, Reconciling
<1>4. CASE SaveVerdict(j)
  <2>1. /\ batch'[j] = batch[j] \ {NextClaim(j)}
        /\ pc'[j] = IF batch'[j] = {} THEN "done" ELSE "attest"
    BY <1>0, <1>4 DEF SaveVerdict, Goes, Goto, PointsOK
  <2>2. \A i \in batch[j] : i \in DOMAIN log /\ log[i].kind = "claim"
    BY <1>4 DEF SaveVerdict, BatchInv, Reconciling, RowsInv, LogOK
  <2> QED
    BY <2>1, <2>2 DEF Reconciling
<1>5. CASE BreakPass(j)
  BY <1>5 DEF BreakPass, Goto, PointsOK, Reconciling
<1>6. CASE BootstrapHealth(j) \/ BootstrapBatons(j) \/ BootstrapSession(j)
  BY <1>6 DEF BootstrapHealth, BootstrapBatons, BootstrapSession, Degrade, Goto, PointsOK,
              Reconciling
<1> QED
  BY <1>1, <1>2, <1>3, <1>4, <1>5, <1>6 DEF ClaimsStep

\* What is resolved is a state.

LEMMA VerdictsAreStates ==
  ASSUME NEW j \in Jobs, PointsOK, BatchInv, ClaimsStep(j), ClaimsOnly(j)
  PROVE  /\ verdict' \in [Jobs -> States \cup {"none"}]
         /\ \A i \in Jobs : pc'[i] = "verdict" => verdict'[i] \in States
<1>1. /\ verdict \in [Jobs -> States \cup {"none"}]
      /\ \A i \in Jobs : pc[i] = "verdict" => verdict[i] \in States
  BY DEF BatchInv
<1>2. \/ verdict' = verdict /\ pc'[j] # "verdict"
      \/ \E s \in States : verdict' = [verdict EXCEPT ![j] = s]
  <2>1. CASE Attest(j)
    BY <2>1 DEF Attest, Observed, Settle, States, Goto, PointsOK
  <2>2. CASE ResolveSubject(j)
    BY <2>2 DEF ResolveSubject, Settle, SubjectVerdict, HeadVerdict, States
  <2>3. CASE ~Attest(j) /\ ~ResolveSubject(j)
    BY <2>3 DEF ClaimsStep, ReadClaims, SaveVerdict, BreakPass, BootstrapHealth,
                BootstrapBatons, BootstrapSession, Goes, Degrade, Goto, PointsOK
  <2> QED
    BY <2>1, <2>2, <2>3
<1>3. CASE verdict' = verdict /\ pc'[j] # "verdict"
  BY <1>1, <1>3 DEF ClaimsOnly
<1>4. ASSUME NEW s \in States, verdict' = [verdict EXCEPT ![j] = s]
      PROVE  /\ verdict' \in [Jobs -> States \cup {"none"}]
             /\ \A i \in Jobs : pc'[i] = "verdict" => verdict'[i] \in States
  BY <1>1, <1>4 DEF ClaimsOnly
<1> QED
  BY <1>2, <1>3, <1>4

LEMMA BatchInvStep ==
  ASSUME PointsOK, PointsOK', RowsInv, BatchInv, [Next]_vars
  PROVE  BatchInv'
<1>1. /\ Len(log) \in Nat /\ Len(log') \in Nat /\ Len(log) <= Len(log')
      /\ \A i \in 1..Len(log) : log'[i] = log[i]
  BY LogGrows DEF RowsInv
<1>2. ASSUME NEW j \in Jobs, batch'[j] = batch[j], pc[j] \in Reconciling
      PROVE  /\ batch'[j] # {}
             /\ \A i \in batch'[j] : i \in 1..Len(log') /\ log'[i].kind = "claim"
  BY <1>1, <1>2 DEF BatchInv
<1>3. CASE UNCHANGED claimVars /\ Elsewhere(ClaimsOps)
  <2>1. \A j \in Jobs : pc'[j] \in Reconciling => pc[j] = pc'[j]
    BY <1>3, TaskStays DEF Elsewhere, ClaimsOps, Reconciling, PointsOK, At
  <2>2. \A j \in Jobs : pc'[j] = "verdict" => verdict'[j] \in States
    BY <1>3, <2>1 DEF BatchInv, claimVars, Reconciling
  <2>3. \A j \in Jobs : pc'[j] \in Reconciling =>
          /\ batch'[j] # {}
          /\ \A i \in batch'[j] : i \in 1..Len(log') /\ log'[i].kind = "claim"
    BY <1>2, <1>3, <2>1 DEF claimVars
  <2> QED
    BY <1>3, <2>2, <2>3 DEF BatchInv, claimVars
<1>4. ASSUME NEW j \in Jobs, ClaimsStep(j)
      PROVE  BatchInv'
  <2>1. ClaimsOnly(j)
    BY <1>4, ClaimsForOneJob
  <2>2. ASSUME pc'[j] \in Reconciling
        PROVE  /\ batch'[j] # {}
               /\ \A i \in batch'[j] : i \in 1..Len(log') /\ log'[i].kind = "claim"
    <3>1. CASE pc[j] \in Reconciling /\ batch' = batch
      BY <1>2, <3>1
    <3>2. CASE batch'[j] # {} /\ \A i \in batch'[j] : i \in DOMAIN log /\ log[i].kind = "claim"
      <4>1. DOMAIN log = 1..Len(log)
        BY DEF RowsInv, LogOK
      <4> QED
        BY <1>1, <3>2, <4>1
    <3> QED
      BY <1>4, <2>2, <3>1, <3>2, BatchMoves
  <2>3. \A i \in Jobs \ {j} : pc'[i] \in Reconciling =>
          /\ batch'[i] # {}
          /\ \A x \in batch'[i] : x \in 1..Len(log') /\ log'[x].kind = "claim"
    BY <1>2, <2>1 DEF ClaimsOnly
  <2>4. /\ verdict' \in [Jobs -> States \cup {"none"}]
        /\ \A i \in Jobs : pc'[i] = "verdict" => verdict'[i] \in States
    BY <1>4, <2>1, VerdictsAreStates
  <2> QED
    BY <2>1, <2>2, <2>3, <2>4 DEF BatchInv, ClaimsOnly
<1> QED
  BY <1>3, <1>4, ClaimsFrame

-----------------------------------------------------------------------------
(* Claims: what a verdict was resolved from.                                 *)

\* Upstream bore m out, or did not, at some state between two.
SeenBetween(m, lo, hi, v) ==
    /\ v = "current" =>
         /\ \E u \in lo..hi : BornOut(m, Upstream[u])
         /\ m.evidence # "none" => \E u \in lo..hi : m.sha.commit \in Upstream[u].commits
    /\ v = "stale" => \E u \in lo..hi : ~BornOut(m, Upstream[u])

AttestedSeen(m, lo, hi) ==
    m.evidence # "none" => \E u \in lo..hi : m.sha.commit \in Upstream[u].commits

\* What a pass knows of the claim it is at.
ResolvingOK(j) ==
    /\ since[j] \in 1..head
    /\ pc[j] = "subject" => task[j].enabled /\ AttestedSeen(Claim(j), since[j], head)
    /\ pc[j] = "verdict" =>
         /\ verdict[j] # "unverifiable" => task[j].enabled
         /\ SeenBetween(Claim(j), since[j], head, verdict[j])

\* What the row at b says of the row it is based on.
VerdictOK(b) ==
    /\ log[b].basis \in DOMAIN log /\ log[log[b].basis].kind = "claim"
    /\ log[b].val # "unverifiable" => task[log[b].by].enabled
    /\ SeenBetween(log[log[b].basis].meta, log[b].span[1], log[b].span[2], log[b].val)

VerdictsInv ==
    /\ head \in DOMAIN Upstream
    /\ \A j \in Jobs : pc[j] \in Reconciling => ResolvingOK(j)
    /\ \A b \in DOMAIN log : log[b].key > PlainKeys => VerdictOK(b)

LEMMA UpstreamIsList == DOMAIN Upstream = 1..Len(Upstream) /\ Len(Upstream) \in Nat \ {0}
BY EntriesAssumption, EmptySeq

\* The resolver tells the truth about the state it asks.

LEMMA SubjectIsTrue ==
  ASSUME NEW m \in Metas, m.sha.len # "short", NEW answered \in BOOLEAN, head \in DOMAIN Upstream
  PROVE  /\ SubjectVerdict(m, answered) = "current" => BornOut(m, Truth)
         /\ SubjectVerdict(m, answered) = "stale" => ~BornOut(m, Truth)
<1>1. Truth.head # "none" /\ Truth.merge # "none"
  BY ClaimsAssumption DEF Truth
<1>2. \A r \in Refs : r.len = "none" => r = NoRef
  BY DEF Refs, NoRef
<1>3. m.sha \in Refs /\ m.merge \in Refs /\ m.repo \in BOOLEAN /\ m.pr \in BOOLEAN
  BY DEF Metas
<1>4. ASSUME NEW r \in Refs, NEW c, c # "none"
      PROVE  ShaMatch(r, FullRef(c)) <=> r.commit = c /\ r.len # "short"
  <2>1. FullRef(c) # NoRef /\ FullRef(c).commit = c /\ FullRef(c).len = "full"
    BY DEF FullRef, NoRef
  <2>2. r = NoRef => r.commit = "none"
    BY DEF NoRef
  <2> QED
    BY <1>4, <2>1, <2>2 DEF ShaMatch
<1>5. CASE m.mode \in {"timeless", "interval"}
  <2>1. CASE m.mode = "timeless"
    <3>1. SubjectVerdict(m, answered) = "current"
      BY <2>1 DEF SubjectVerdict
    <3>2. BornOut(m, Truth)
      BY <2>1 DEF BornOut
    <3> QED
      BY <3>1, <3>2
  <2>2. CASE m.mode = "interval"
    <3>1. SubjectVerdict(m, answered) = "unverifiable"
      BY <2>2 DEF SubjectVerdict
    <3> QED
      BY <3>1
  <2> QED
    BY <1>5, <2>1, <2>2
<1>6. CASE m.mode = "historical_snapshot"
  <2>1. SubjectVerdict(m, answered) =
          IF m.repo /\ answered /\ CommitExists(m.sha) THEN "current" ELSE "unverifiable"
    BY <1>6 DEF SubjectVerdict
  <2>2. BornOut(m, Truth) <=> m.sha.commit \in Truth.commits
    BY <1>6 DEF BornOut
  <2> QED
    BY <2>1, <2>2 DEF CommitExists
<1>7. CASE m.mode \notin {"timeless", "interval", "historical_snapshot"}
  <2>1. SubjectVerdict(m, answered) = HeadVerdict(m, answered)
    BY <1>7 DEF SubjectVerdict
  <2>2. CASE m.repo /\ m.pr
    <3>1. BornOut(m, Truth) <=> IF Truth.merged
                                  THEN m.merge.len # "short" /\ m.merge.commit = Truth.merge
                                  ELSE m.merge = NoRef
      BY <1>7, <2>2 DEF BornOut
    <3> QED
      BY <1>1, <1>3, <1>4, <2>1, <2>2, <3>1 DEF HeadVerdict
  <2>3. CASE ~(m.repo /\ m.pr) /\ m.repo /\ m.branch /\ answered
    <3>1. BornOut(m, Truth) <=> m.branch /\ m.sha.commit = Truth.head
      BY <1>7, <2>3 DEF BornOut
    <3> QED
      BY <1>1, <1>3, <1>4, <2>1, <2>3, <3>1 DEF HeadVerdict
  <2>4. CASE ~(m.repo /\ m.pr) /\ ~(m.repo /\ m.branch /\ answered)
    BY <2>1, <2>4 DEF HeadVerdict
  <2> QED
    BY <2>2, <2>3, <2>4
<1> QED
  BY <1>5, <1>6, <1>7

LEMMA InitVerdicts == Init => VerdictsInv /\ BatchInv
<1> SUFFICES ASSUME Init
             PROVE  VerdictsInv
  BY InitBatch
<1>1. PICK w \in Workloads : task = w.task /\ log = w.seed
  BY DEF Init, EntriesInit
<1>2. \A b \in DOMAIN log : UserRow(log[b])
  BY <1>1, LogAssumption DEF ToSet
<1>3. PlainKeys \in Nat /\ \A b \in DOMAIN log : ~(log[b].key > PlainKeys)
  BY <1>2, EntriesAssumption DEF UserRow, Plain
<1>4. head \in DOMAIN Upstream /\ \A j \in Jobs : pc[j] = "idle"
  BY UpstreamIsList DEF Init, EntriesInit
<1> QED
  BY <1>3, <1>4 DEF VerdictsInv, Reconciling

\* What was seen up to a state was seen up to a later one.

LEMMA SeenLater ==
  ASSUME NEW m, NEW lo \in Nat, NEW hi \in Nat, NEW top \in Nat, hi <= top
  PROVE  /\ AttestedSeen(m, lo, hi) => AttestedSeen(m, lo, top)
         /\ \A v : SeenBetween(m, lo, hi, v) => SeenBetween(m, lo, top, v)
<1>1. lo..hi \subseteq lo..top
  OBVIOUS
<1> QED
  BY <1>1 DEF AttestedSeen, SeenBetween

LEMMA HeadMoves ==
  ASSUME PointsOK, [Next]_vars, head \in DOMAIN Upstream
  PROVE  head' \in DOMAIN Upstream /\ head \in Nat /\ head' \in Nat /\ head <= head'
<1>1. head' = head \/ Push
  <2>1. ASSUME NEW j \in Jobs, KnowledgeStep(j) \/ ServiceStep(j)
        PROVE  head' = head
    BY <2>1, KnowledgeMoves, SessionsMoves, NamespacesMoves, TokensMoves, ArtifactsMoves
       DEF ServiceStep, Moves
  <2> QED
    BY <2>1 DEF Next, Tick, vars, entryVars
<1> QED
  BY <1>1, UpstreamIsList DEF Push

LEMMA NextClaimStays ==
  ASSUME PointsOK, RowsInv, BatchInv, [Next]_vars, NEW j \in Jobs, batch'[j] = batch[j],
         pc[j] \in Reconciling
  PROVE  NextClaim(j)' = NextClaim(j) /\ Claim(j)' = Claim(j)
<1>1. \A i \in batch[j] : log'[i] = log[i]
  <2>1. \A i \in 1..Len(log) : log'[i] = log[i]
    BY LogGrows DEF RowsInv
  <2> QED
    BY <2>1 DEF BatchInv
<1>2. NextClaim(j)' = NextClaim(j)
  <2>1. \A i : (i \in batch'[j] /\ \A i2 \in batch'[j] : log'[i].key <= log'[i2].key)
                 <=> (i \in batch[j] /\ \A i2 \in batch[j] : log[i].key <= log[i2].key)
    BY <1>1
  <2> QED
    BY <2>1 DEF NextClaim
<1>3. NextClaim(j) \in batch[j]
  BY NextIsAClaim
<1> QED
  BY <1>1, <1>2, <1>3 DEF Claim

LEMMA ResolvingStays ==
  ASSUME PointsOK, RowsInv, BatchInv, [Next]_vars, VerdictsInv, NEW j \in Jobs,
         pc[j] \in Reconciling, pc'[j] = pc[j], batch'[j] = batch[j], since'[j] = since[j],
         verdict'[j] = verdict[j]
  PROVE  ResolvingOK(j)'
<1>1. Claim(j)' = Claim(j)
  BY NextClaimStays
<1>2. task' = task /\ head \in Nat /\ head' \in Nat /\ head <= head'
  BY TaskStays, HeadMoves DEF VerdictsInv
<1>3. ResolvingOK(j)
  BY DEF VerdictsInv
<1> DEFINE m == Claim(j)
           lo == since[j]
           v == verdict[j]
<1>4. lo \in 1..head' /\ lo \in Nat
  BY <1>2, <1>3 DEF ResolvingOK
<1>5. /\ AttestedSeen(m, lo, head) => AttestedSeen(m, lo, head')
      /\ SeenBetween(m, lo, head, v) => SeenBetween(m, lo, head', v)
  <2> HIDE DEF m, lo, v
  <2> QED
    BY <1>2, <1>4, SeenLater
<1>6. /\ pc[j] = "subject" => task[j].enabled /\ AttestedSeen(m, lo, head')
      /\ pc[j] = "verdict" =>
           /\ v # "unverifiable" => task[j].enabled
           /\ SeenBetween(m, lo, head', v)
  BY <1>3, <1>5 DEF ResolvingOK
<1>7. /\ AttestedSeen(m, lo, head') => AttestedSeen(Claim(j), since[j], head)'
      /\ SeenBetween(m, lo, head', v) => SeenBetween(Claim(j), since[j], head, verdict[j])'
  <2> HIDE DEF m, lo, v
  <2>1. m = Claim(j)' /\ lo = since'[j] /\ v = verdict'[j]
    BY <1>1 DEF m, lo, v
  <2> QED
    BY <2>1 DEF AttestedSeen, SeenBetween, BornOut
<1> QED
  BY <1>2, <1>4, <1>6, <1>7 DEF ResolvingOK

LEMMA VerdictStays ==
  ASSUME PointsOK, RowsInv, [Next]_vars, NEW b \in DOMAIN log, VerdictOK(b)
  PROVE  VerdictOK(b)' /\ b \in DOMAIN log' /\ log'[b] = log[b]
<1>1. /\ DOMAIN log = 1..Len(log) /\ DOMAIN log' = 1..Len(log') /\ task' = task
      /\ Len(log) \in Nat /\ Len(log') \in Nat /\ Len(log) <= Len(log')
      /\ \A i \in 1..Len(log) : log'[i] = log[i]
  BY LogGrows, TaskStays DEF RowsInv, LogOK
<1>2. log[b].basis \in DOMAIN log
  BY DEF VerdictOK
<1>3. /\ b \in DOMAIN log' /\ log'[b] = log[b] /\ log[b].basis \in DOMAIN log'
      /\ log'[log[b].basis] = log[log[b].basis]
  BY <1>1, <1>2
<1> QED
  BY <1>1, <1>3, SMTT(60) DEF VerdictOK, SeenBetween, BornOut

\* The row a pass writes is what it resolved.

LEMMA VerdictLands ==
  ASSUME PointsOK, RowsInv, BatchInv, VerdictsInv, [Next]_vars, NEW j \in Jobs, SaveVerdict(j),
         NEW n, n = Len(log) + 1
  PROVE  VerdictOK(n)' /\ DOMAIN log' = 1..n
<1>1. /\ AppendRow(j, VerdictRow(j)) /\ RowShape(VerdictRow(j))
      /\ VerdictRow(j).val = verdict[j]
      /\ VerdictRow(j).basis = NextClaim(j) /\ VerdictRow(j).span = <<since[j], head>>
  BY VerdictShape
<1>2. /\ DOMAIN log = 1..Len(log) /\ DOMAIN log' = 1..n /\ Len(log) \in Nat
      /\ \A i \in 1..Len(log) : log'[i] = log[i]
      /\ Keeps(log'[n], VerdictRow(j)) /\ log'[n].by = j
  BY <1>1, RowLands DEF RowsInv
<1>3. /\ pc[j] = "verdict" /\ task' = task /\ pc[j] \in Reconciling
  BY DEF SaveVerdict, Reconciling
<1>4. /\ verdict[j] # "unverifiable" => task[j].enabled
      /\ SeenBetween(Claim(j), since[j], head, verdict[j])
  BY <1>3 DEF VerdictsInv, ResolvingOK
<1>5. /\ NextClaim(j) \in DOMAIN log /\ log[NextClaim(j)].kind = "claim"
      /\ log[NextClaim(j)].meta = Claim(j)
  BY <1>2, <1>3, NextIsAClaim DEF Claim
<1>6. /\ log'[n].val = verdict[j] /\ log'[n].basis = NextClaim(j)
      /\ log'[n].span = <<since[j], head>> /\ log'[n].by = j
  BY <1>1, <1>2 DEF Keeps
<1>7. /\ NextClaim(j) \in DOMAIN log' /\ log'[NextClaim(j)] = log[NextClaim(j)]
  BY <1>2, <1>5
<1> DEFINE r == log'[n]
           m == log'[r.basis].meta
<1>8. /\ r.basis \in DOMAIN log' /\ log'[r.basis].kind = "claim"
      /\ r.val # "unverifiable" => task'[r.by].enabled
      /\ m = Claim(j) /\ r.span[1] = since[j] /\ r.span[2] = head /\ r.val = verdict[j]
  BY <1>3, <1>4, <1>5, <1>6, <1>7
<1>9. SeenBetween(m, r.span[1], r.span[2], r.val)
  BY <1>4, <1>8
<1> HIDE DEF m, r
<1>10. r = log'[n] /\ m = log'[r.basis].meta
  BY DEF r, m
<1>11. VerdictOK(n)'
  BY <1>8, <1>9, <1>10, SMTT(60) DEF VerdictOK, SeenBetween, BornOut
<1> QED
  BY <1>2, <1>11

LEMMA VerdictRowsStep ==
  ASSUME PointsOK, RowsInv, PassesInv, BatchInv, VerdictsInv, [Next]_vars
  PROVE  \A b \in DOMAIN log' : log'[b].key > PlainKeys => VerdictOK(b)'
<1>1. \A b \in DOMAIN log : log'[b] = log[b] /\ (log'[b].key > PlainKeys => VerdictOK(b)')
  <2> SUFFICES ASSUME NEW b \in DOMAIN log
               PROVE  log'[b] = log[b] /\ (log'[b].key > PlainKeys => VerdictOK(b)')
    OBVIOUS
  <2>1. log'[b] = log[b]
    BY LogGrows DEF RowsInv, LogOK
  <2> QED
    BY <2>1, VerdictStays DEF VerdictsInv
<1>2. CASE log' = log
  BY <1>1, <1>2
<1>3. ASSUME NEW j \in Jobs, NEW r, AppendRow(j, r), RowShape(r), r.key \in 0..PlainKeys
      PROVE  \A b \in DOMAIN log' : log'[b].key > PlainKeys => VerdictOK(b)'
  <2>1. /\ DOMAIN log = 1..Len(log) /\ DOMAIN log' = 1..(Len(log) + 1) /\ Len(log) \in Nat
        /\ log'[Len(log) + 1].key \in 0..PlainKeys
    BY <1>3, RowLands DEF RowsInv, Keeps
  <2>2. ~(log'[Len(log) + 1].key > PlainKeys)
    BY <2>1, EntriesAssumption
  <2>3. \A b \in DOMAIN log' : b \in DOMAIN log \/ b = Len(log) + 1
    BY <2>1
  <2> QED
    BY <1>1, <2>2, <2>3
<1>4. ASSUME NEW j \in Jobs, SaveVerdict(j)
      PROVE  \A b \in DOMAIN log' : log'[b].key > PlainKeys => VerdictOK(b)'
  <2> SUFFICES ASSUME NEW b \in DOMAIN log'
               PROVE  log'[b].key > PlainKeys => VerdictOK(b)'
    OBVIOUS
  <2>1. DOMAIN log' = 1..(Len(log) + 1) /\ DOMAIN log = 1..Len(log) /\ Len(log) \in Nat
    BY <1>4, VerdictLands DEF RowsInv, LogOK
  <2>2. b \in DOMAIN log \/ b = Len(log) + 1
    BY <2>1
  <2> QED
    BY <1>1, <1>4, <2>2, VerdictLands
<1>5. ASSUME NEW j \in Jobs, Close(j)
      PROVE  log' = log \/ \E r : AppendRow(j, r) /\ RowShape(r) /\ r.key \in 0..PlainKeys
  <2>1. RowShape(Boundary(j)) /\ Boundary(j).key \in Plain
    BY <1>5, BoundaryShape
  <2>2. Boundary(j).key \in 0..PlainKeys
    BY <2>1, EntriesAssumption DEF Plain
  <2> QED
    BY <1>5, <2>1, <2>2 DEF Close, Land
<1> QED
  BY <1>2, <1>3, <1>4, <1>5, WhatIsWritten DEF Ordinary

\* The resolver's answers are true of the state they were given at.

LEMMA ResolvingStep ==
  ASSUME PointsOK, RowsInv, BatchInv, VerdictsInv, [Next]_vars, NEW j \in Jobs,
         ClaimsStep(j), pc'[j] \in Reconciling
  PROVE  ResolvingOK(j)'
<1>0. /\ task' = task /\ head \in Nat \ {0} /\ head \in DOMAIN Upstream
      /\ since = [i \in Jobs |-> since[i]] /\ verdict = [i \in Jobs |-> verdict[i]]
  BY TaskStays, UpstreamIsList DEF VerdictsInv, BatchInv
<1>1. CASE ReadClaims(j) \/ SaveVerdict(j)
  <2>1. since'[j] = head /\ head' = head /\ pc'[j] = "attest"
    BY <1>0, <1>1 DEF ReadClaims, SaveVerdict, Goes, Goto, PointsOK, Reconciling
  <2> QED
    BY <1>0, <2>1 DEF ResolvingOK
<1>2. ASSUME pc[j] \in Reconciling, batch' = batch, since' = since, head' = head
      PROVE  Claim(j)' = Claim(j) /\ since'[j] \in 1..head'
  BY <1>2, NextClaimStays DEF VerdictsInv, ResolvingOK
<1>3. CASE Attest(j)
  <2>1. /\ pc[j] = "attest" /\ pc[j] \in Reconciling /\ UNCHANGED <<batch, since, head>>
        /\ \/ /\ pc'[j] = "subject" /\ task[j].enabled
              /\ Claim(j).evidence = "none" \/ CommitExists(Claim(j).sha)
           \/ pc'[j] = "verdict" /\ verdict'[j] = "unverifiable"
    BY <1>0, <1>3 DEF Attest, Observed, Settle, Goto, PointsOK, Reconciling
  <2>2. since[j] \in 1..head /\ Claim(j)' = Claim(j)
    BY <1>2, <2>1
  <2>3. pc'[j] = "subject" => AttestedSeen(Claim(j), since[j], head)
    <3>1. head \in since[j]..head
      BY <1>0, <2>2
    <3> QED
      BY <2>1, <3>1 DEF AttestedSeen, CommitExists, Truth
  <2>4. AttestedSeen(Claim(j), since[j], head) => AttestedSeen(Claim(j), since[j], head)'
    BY <2>1, <2>2 DEF AttestedSeen
  <2> QED
    BY <1>0, <2>1, <2>2, <2>3, <2>4 DEF ResolvingOK, SeenBetween
<1>4. CASE ResolveSubject(j)
  <2>1. PICK answered \in BOOLEAN :
          /\ pc[j] = "subject" /\ pc[j] \in Reconciling /\ UNCHANGED <<batch, since, head>>
          /\ pc'[j] = "verdict" /\ verdict'[j] = SubjectVerdict(Claim(j), answered)
    BY <1>0, <1>4 DEF ResolveSubject, Settle, Goto, PointsOK, Reconciling
  <2>2. /\ since[j] \in 1..head /\ Claim(j)' = Claim(j) /\ task[j].enabled
        /\ AttestedSeen(Claim(j), since[j], head)
    BY <1>2, <2>1 DEF VerdictsInv, ResolvingOK
  <2>3. Claim(j) \in Metas /\ Claim(j).sha.len # "short"
    BY <2>1, NextIsAClaim DEF Claim, RowShape
  <2> DEFINE m == Claim(j)
             v == SubjectVerdict(m, answered)
  <2>4. (v = "current" => BornOut(m, Truth)) /\ (v = "stale" => ~BornOut(m, Truth))
    <3> HIDE DEF m
    <3>1. m \in Metas /\ m.sha.len # "short"
      BY <2>3 DEF m
    <3> QED
      BY <1>0, <3>1, SubjectIsTrue
  <2>5. head \in since[j]..head /\ Truth = Upstream[head]
    BY <1>0, <2>2 DEF Truth
  <2>6. SeenBetween(m, since[j], head, v)
    <3> HIDE DEF m, v
    <3>1. AttestedSeen(m, since[j], head)
      BY <2>2 DEF m
    <3> QED
      BY <2>4, <2>5, <3>1 DEF SeenBetween, AttestedSeen
  <2>7. SeenBetween(Claim(j), since[j], head, verdict[j])'
    <3> HIDE DEF m, v
    <3>1. m = Claim(j)' /\ v = verdict'[j] /\ since'[j] = since[j] /\ head' = head
      BY <2>1, <2>2 DEF m, v
    <3> QED
      BY <2>6, <3>1 DEF SeenBetween, BornOut
  <2> QED
    BY <1>0, <2>1, <2>2, <2>7 DEF ResolvingOK
<1>5. CASE BreakPass(j) \/ BootstrapHealth(j) \/ BootstrapBatons(j) \/ BootstrapSession(j)
  BY <1>5 DEF BreakPass, BootstrapHealth, BootstrapBatons, BootstrapSession, Degrade, Goto,
              PointsOK, Reconciling
<1> QED
  BY <1>1, <1>3, <1>4, <1>5 DEF ClaimsStep

LEMMA VerdictsStep ==
  ASSUME PointsOK, PointsOK', RowsInv, PassesInv, BatchInv, VerdictsInv, [Next]_vars
  PROVE  VerdictsInv'
<1>1. head' \in DOMAIN Upstream
  BY HeadMoves DEF VerdictsInv
<1>2. \A j \in Jobs : pc'[j] \in Reconciling => ResolvingOK(j)'
  <2>1. CASE UNCHANGED claimVars /\ Elsewhere(ClaimsOps)
    <3> SUFFICES ASSUME NEW j \in Jobs, pc'[j] \in Reconciling
                 PROVE  ResolvingOK(j)'
      OBVIOUS
    <3>1. pc'[j] = pc[j]
      BY <2>1, TaskStays DEF Elsewhere, ClaimsOps, Reconciling, PointsOK, At
    <3> QED
      BY <2>1, <3>1, ResolvingStays DEF claimVars
  <2>2. ASSUME NEW j \in Jobs, ClaimsStep(j), NEW i \in Jobs, pc'[i] \in Reconciling
        PROVE  ResolvingOK(i)'
    <3>1. CASE i = j
      BY <2>2, <3>1, ResolvingStep
    <3>2. CASE i # j
      BY <2>2, <3>2, ClaimsForOneJob, ResolvingStays DEF ClaimsOnly
    <3> QED
      BY <3>1, <3>2
  <2> QED
    BY <2>1, <2>2, ClaimsFrame
<1> QED
  BY <1>1, <1>2, VerdictRowsStep DEF VerdictsInv

\* What is known of the log, of passes and of verdicts, taken together.
KnowledgeInv == RowsInv /\ PassesInv /\ BatchInv /\ VerdictsInv

LEMMA KnowledgeInvariant == Spec => [](PointsOK /\ KnowledgeInv)
<1>1. Init => KnowledgeInv
  BY InitRows, InitPasses, InitVerdicts DEF KnowledgeInv
<1>2. PointsOK /\ [Next]_vars => PointsOK'
  BY PointsStep
<1>3. PointsOK /\ PointsOK' /\ KnowledgeInv /\ [Next]_vars => KnowledgeInv'
  BY RowsInvStep, PassesStep, BatchInvStep, VerdictsStep DEF KnowledgeInv
<1> QED
  BY <1>1, <1>2, <1>3, PointsInvariant, PTL DEF Spec

\* Reconciling passes: a verdict is about a claim; when it says current, upstream
\* bore the claim out at a state between the reading of the claim and the writing
\* of the verdict, and a sha attested locally had been seen upstream; when it says
\* stale, upstream did not; and a blind resolver says neither.
THEOREM VerdictsWereSeen == Spec => []CurrentMeansSeen
<1>1. KnowledgeInv => CurrentMeansSeen
  <2> SUFFICES ASSUME KnowledgeInv, NEW b \in DOMAIN log, log[b].key > PlainKeys
               PROVE  LET m == log[log[b].basis].meta
                          states == {Upstream[u] : u \in log[b].span[1]..log[b].span[2]}
                      IN /\ log[log[b].basis].kind = "claim"
                         /\ log[b].val # "unverifiable" => task[log[b].by].enabled
                         /\ log[b].val = "current" =>
                              /\ \E u \in states : BornOut(m, u)
                              /\ m.evidence # "none" => \E u \in states : m.sha.commit \in u.commits
                         /\ log[b].val = "stale" => \E u \in states : ~BornOut(m, u)
    BY DEF CurrentMeansSeen
  <2>1. VerdictOK(b)
    BY DEF KnowledgeInv, VerdictsInv
  <2> DEFINE m == log[log[b].basis].meta
             lo == log[b].span[1]
             hi == log[b].span[2]
  <2>2. SeenBetween(m, lo, hi, log[b].val)
    BY <2>1 DEF VerdictOK
  <2> HIDE DEF m, lo, hi
  <2> DEFINE states == {Upstream[u] : u \in lo..hi}
  <2>3. \A u \in lo..hi : Upstream[u] \in states
    OBVIOUS
  <2> HIDE DEF states
  <2>4. /\ log[b].val = "current" =>
             /\ \E u \in states : BornOut(m, u)
             /\ m.evidence # "none" => \E u \in states : m.sha.commit \in u.commits
        /\ log[b].val = "stale" => \E u \in states : ~BornOut(m, u)
    BY <2>2, <2>3 DEF SeenBetween
  <2> QED
    BY <2>1, <2>4 DEF VerdictOK, states, m, lo, hi
<1> QED
  BY <1>1, KnowledgeInvariant, PTL

-----------------------------------------------------------------------------
(* Closings: what curation hides.                                            *)

\* The boundary at b is its session's, for its key, and hides what its pass read
\* or something newer.
ClosedOK(b) ==
    LET j == log[b].by
        hidden == LatestAt(log[b].key, b - 1)
    IN /\ j \in Jobs /\ task[j].op = "curate"
       /\ log[b].event = <<task[j].session, log[b].key, "supersede-boundary">>
       /\ log[b].basis \in DOMAIN log
       /\ \/ hidden = log[b].basis /\ IsLive(log[hidden])
          \/ hidden > log[b].span[1]

ClosedOnce ==
    \A b, b2 \in DOMAIN log :
        log[b].closed /\ log[b2].closed /\ log[b].event = log[b2].event => b = b2

ClosingsInv == ClosedOnce /\ \A b \in DOMAIN log : log[b].closed => ClosedOK(b)

\* Rows stay where they are.

LEMMA RowsStay ==
  ASSUME PointsOK, RowsInv, [Next]_vars
  PROVE  /\ DOMAIN log = 1..Len(log) /\ DOMAIN log' = 1..Len(log')
         /\ Len(log) \in Nat /\ Len(log') \in Nat /\ Len(log) <= Len(log')
         /\ task' = task
         /\ \A b \in DOMAIN log : b \in DOMAIN log' /\ log'[b] = log[b]
         /\ \A n \in 0..Len(log) : \A k : LatestAt(k, n)' = LatestAt(k, n)
<1>1. /\ DOMAIN log = 1..Len(log) /\ DOMAIN log' = 1..Len(log') /\ task' = task
      /\ Len(log) \in Nat /\ Len(log') \in Nat /\ Len(log) <= Len(log')
      /\ \A i \in 1..Len(log) : log'[i] = log[i]
  BY LogGrows, TaskStays DEF RowsInv, LogOK
<1>2. \A n \in 0..Len(log) : \A k : LatestAt(k, n)' = LatestAt(k, n)
  BY LatestStays DEF RowsInv
<1> QED
  BY <1>1, <1>2

LEMMA ClosedStays ==
  ASSUME PointsOK, RowsInv, [Next]_vars, NEW b \in DOMAIN log, ClosedOK(b)
  PROVE  ClosedOK(b)'
<1>1. /\ task' = task /\ b - 1 \in 0..Len(log)
      /\ \A i \in DOMAIN log : i \in DOMAIN log' /\ log'[i] = log[i]
      /\ \A n \in 0..Len(log) : \A k : LatestAt(k, n)' = LatestAt(k, n)
  BY RowsStay
<1> DEFINE k == log[b].key
           m == b - 1
           hidden == LatestAt(k, m)
<1>2. log'[b] = log[b] /\ log[b].basis \in DOMAIN log' /\ log'[log[b].basis] = log[log[b].basis]
  BY <1>1 DEF ClosedOK
<1>3. (hidden = log[b].basis /\ IsLive(log[hidden])) \/ hidden > log[b].span[1]
  BY DEF ClosedOK
<1>4. LatestAt(log[b].key, b - 1)' = hidden
  <2>1. \A x : LatestAt(x, m)' = LatestAt(x, m)
    BY <1>1
  <2>2. k = log'[b].key
    BY <1>2
  <2> HIDE DEF k
  <2> QED
    BY <2>1, <2>2 DEF LatestAt
<1> HIDE DEF hidden, k
<1> QED
  BY <1>1, <1>2, <1>3, <1>4 DEF ClosedOK, IsLive

\* The boundary that lands: nothing in the log has its event yet.

LEMMA BoundaryLands ==
  ASSUME PointsOK, RowsInv, PassesInv, [Next]_vars, NEW j \in Jobs, Close(j), log' # log,
         NEW n, n = Len(log) + 1
  PROVE  /\ DOMAIN log' = 1..n /\ n \in Nat /\ log'[n].by = j
         /\ log'[n].key \in ToSet(OldKeys(Op(j)))
         /\ \A i \in DOMAIN log : log[i].event # log'[n].event
         /\ ClosedOK(n)'
<1>1. /\ task[j].op = "curate" /\ HeldOK(j) /\ RowShape(Boundary(j))
      /\ Boundary(j).key = Head(todo[j]) /\ Head(todo[j]) \in ToSet(OldKeys(Op(j)))
      /\ Boundary(j).basis = held[j].row /\ Boundary(j).span = <<held[j].at, Len(log)>>
      /\ Boundary(j).event = <<task[j].session, Head(todo[j]), "supersede-boundary">>
  BY BoundaryShape
<1>2. AppendRow(j, Boundary(j)) /\ Seen(Boundary(j).event) = {}
  BY DEF Close, Land
<1>3. /\ DOMAIN log = 1..Len(log) /\ DOMAIN log' = 1..n /\ Len(log) \in Nat
      /\ \A i \in 1..Len(log) : log'[i] = log[i]
      /\ Keeps(log'[n], Boundary(j)) /\ log'[n].by = j
  BY <1>1, <1>2, RowLands DEF RowsInv
<1> DEFINE k == Head(todo[j])
           at == held[j].at
           row == held[j].row
           hidden == LatestAt(k, Len(log))
<1>4. /\ log'[n].key = k /\ log'[n].basis = row /\ log'[n].span = <<at, Len(log)>>
      /\ log'[n].event = <<task[j].session, k, "supersede-boundary">>
  BY <1>1, <1>3 DEF Keeps
<1>5. row \in 1..Len(log) /\ at \in row..Len(log) /\ LatestAt(k, at) = row /\ IsLive(log[row])
  BY <1>1 DEF HeldOK
<1>6. hidden = row \/ hidden > at
  <2>1. at \in Nat /\ Len(log) \in Nat /\ at <= Len(log)
    BY <1>3, <1>5
  <2> HIDE DEF k, at, row
  <2> QED
    BY <1>5, <2>1, LatestLater
<1>7. LatestAt(log[n].key, n - 1)' = hidden
  <2>1. \A m \in 0..Len(log) : \A x : LatestAt(x, m)' = LatestAt(x, m)
    BY RowsStay
  <2>2. \A m \in 0..Len(log) : LatestAt(k, m) = hidden \/ m # Len(log)
    OBVIOUS
  <2>3. n - 1 = Len(log) /\ n - 1 \in 0..Len(log) /\ log'[n].key = k
    BY <1>3, <1>4
  <2> HIDE DEF k, hidden
  <2>4. LatestAt(k, n - 1) = hidden
    BY <2>2, <2>3
  <2>5. \A x : LatestAt(x, n - 1)' = LatestAt(x, n - 1)
    BY <2>1, <2>3
  <2>6. \A x : x = log'[n].key => LatestAt(x, n - 1)' = hidden
    BY <2>3, <2>4, <2>5
  <2> QED
    BY <2>6 DEF LatestAt
<1> DEFINE r == log'[n]
<1>8. /\ r.by = j /\ task' = task /\ r.basis = row /\ r.span[1] = at
      /\ r.event = <<task[j].session, r.key, "supersede-boundary">>
      /\ row \in DOMAIN log' /\ log'[row] = log[row]
  BY <1>3, <1>4, <1>5, RowsStay
<1>9. (hidden = r.basis /\ IsLive(log'[hidden])) \/ hidden > r.span[1]
  BY <1>5, <1>6, <1>8
<1>10. \A i \in DOMAIN log : log[i].event # r.event
  BY <1>1, <1>2, <1>4 DEF Seen
<1> HIDE DEF k, at, row, hidden
<1>11. ClosedOK(n)'
  BY <1>1, <1>7, <1>8, <1>9 DEF ClosedOK, IsLive
<1> QED
  BY <1>1, <1>3, <1>4, <1>10, <1>11 DEF k

LEMMA ClosingsStep ==
  ASSUME PointsOK, RowsInv, PassesInv, BatchInv, ClosingsInv, [Next]_vars
  PROVE  ClosingsInv'
<1>1. /\ DOMAIN log = 1..Len(log) /\ DOMAIN log' = 1..Len(log') /\ Len(log) \in Nat
      /\ \A b \in DOMAIN log : b \in DOMAIN log' /\ log'[b] = log[b]
  BY RowsStay
<1>2. ASSUME NEW b \in DOMAIN log, log'[b].closed
      PROVE  ClosedOK(b)'
  BY <1>1, <1>2, ClosedStays DEF ClosingsInv
<1>3. CASE log' = log
  BY <1>2, <1>3 DEF ClosingsInv, ClosedOnce
<1>4. ASSUME NEW j \in Jobs, NEW r, AppendRow(j, r), RowShape(r), ~r.closed
      PROVE  ClosingsInv'
  <2>1. DOMAIN log' = 1..(Len(log) + 1) /\ ~log'[Len(log) + 1].closed
    BY <1>4, RowLands DEF RowsInv, Keeps
  <2>2. \A b \in DOMAIN log' : log'[b].closed => b \in DOMAIN log
    BY <1>1, <2>1
  <2> QED
    BY <1>1, <1>2, <2>2 DEF ClosingsInv, ClosedOnce
<1>5. ASSUME NEW j \in Jobs, Close(j), log' # log
      PROVE  ClosingsInv'
  <2> DEFINE n == Len(log) + 1
  <2>1. /\ DOMAIN log' = 1..n /\ \A i \in DOMAIN log : log[i].event # log'[n].event
        /\ \A b : b = n => ClosedOK(b)'
    BY <1>5, BoundaryLands
  <2>2. \A b \in DOMAIN log' : b \in DOMAIN log \/ b = n
    BY <1>1, <2>1
  <2>3. \A b \in DOMAIN log' : log'[b].closed => ClosedOK(b)'
    BY <1>2, <2>1, <2>2
  <2>4. ClosedOnce'
    <3> HIDE DEF n
    <3> QED
      BY <1>1, <2>1, <2>2 DEF ClosingsInv, ClosedOnce
  <2> QED
    BY <2>3, <2>4 DEF ClosingsInv
<1>6. ASSUME NEW j \in Jobs, SaveVerdict(j)
      PROVE  ClosingsInv'
  BY <1>4, <1>6, VerdictShape
<1> QED
  BY <1>3, <1>4, <1>5, <1>6, WhatIsWritten DEF Ordinary

LEMMA InitClosings == Init => ClosingsInv
<1> SUFFICES ASSUME Init
             PROVE  ClosingsInv
  OBVIOUS
<1>1. PICK w \in Workloads : task = w.task /\ log = w.seed
  BY DEF Init, EntriesInit
<1>2. \A b \in DOMAIN log : ~log[b].closed
  BY <1>1, LogAssumption DEF ToSet, UserRow
<1> QED
  BY <1>2 DEF ClosingsInv, ClosedOnce

LEMMA ClosingsInvariant == Spec => []ClosingsInv
<1>1. PointsOK /\ KnowledgeInv /\ ClosingsInv /\ [Next]_vars => ClosingsInv'
  BY ClosingsStep DEF KnowledgeInv
<1> QED
  BY <1>1, InitClosings, KnowledgeInvariant, PTL DEF Spec

\* Curation: a session closes a key at most once, so what is saved afterwards
\* stays, and what a closing hides is the revision its pass has read, or one that
\* landed between that read and the closing.
THEOREM SavesStay == Spec => []SavesAreNotBuried
<1>1. ClosingsInv => SavesAreNotBuried
  BY DEF ClosingsInv, ClosedOnce, ClosedOK, SavesAreNotBuried
<1> QED
  BY <1>1, ClosingsInvariant, PTL

-----------------------------------------------------------------------------
(* Closings: what becomes of the op that closed.                             *)

Survives(session, op) ==
    \E r \in DOMAIN log :
        /\ log[r].event = <<session, op.key, op.action>>
        /\ log[r].val = op.val /\ log[r].kind = KindOf(op)

\* The i-th op of j is under way past its gates, has failed there, was dropped,
\* or has written its survivor.
OpOK(j, i) ==
    \/ i = step[j] /\ pc[j] \in {"bound", "close", "write"}
    \/ i = step[j] /\ pc[j] = "done" /\ out[j] = "failed"
    \/ i < step[j] /\ told[j][i] = "idempotency_conflict"
    \/ i < step[j] /\ told[j][i] = "applied" /\ Survives(task[j].session, task[j].ops[i])

AccountedOK(b) ==
    LET j == log[b].by IN
    \E i \in DOMAIN task[j].ops : log[b].key \in ToSet(OldKeys(task[j].ops[i])) /\ OpOK(j, i)

AccountedInv == \A b \in DOMAIN log : log[b].closed => AccountedOK(b)

LEMMA SurvivorStays ==
  ASSUME PointsOK, RowsInv, [Next]_vars, NEW session, NEW op, Survives(session, op)
  PROVE  Survives(session, op)'
BY RowsStay DEF Survives, KindOf, HasProvenance

\* An op that another job's step does not touch.

LEMMA OpStays ==
  ASSUME PointsOK, RowsInv, [Next]_vars, NEW j \in Jobs, NEW i, OpOK(j, i),
         pc'[j] = pc[j], step'[j] = step[j], told'[j] = told[j], out'[j] = out[j]
  PROVE  OpOK(j, i)'
<1>1. task' = task
  BY TaskStays
<1>2. \A s, op : Survives(s, op) => Survives(s, op)'
  BY SurvivorStays
<1>3. \A s, op : s = task'[j].session /\ op = task'[j].ops[i] /\ Survives(s, op)'
                  => Survives(task[j].session, task[j].ops[i])'
  BY DEF Survives
<1>4. Survives(task[j].session, task[j].ops[i]) => Survives(task[j].session, task[j].ops[i])'
  <2> DEFINE s == task[j].session
             op == task[j].ops[i]
  <2>1. s = task'[j].session /\ op = task'[j].ops[i]
    BY <1>1
  <2> HIDE DEF s, op
  <2>2. Survives(s, op) => \A x, y : x = s /\ y = op => Survives(x, y)'
    BY <1>2
  <2>3. Survives(s, op) => Survives(task[j].session, task[j].ops[i])'
    BY <1>3, <2>1, <2>2
  <2> QED
    BY <2>3 DEF s, op
<1> QED
  BY <1>1, <1>4 DEF OpOK

\* A pass has its outcomes, the new one last.

LEMMA OutcomesStay ==
  ASSUME NEW j \in Jobs, PassesInv, task[j].op = "curate", NEW outcome,
         Advance(j, outcome), outcome \in Outcomes
  PROVE  /\ step[j] \in Nat \ {0} /\ step'[j] = step[j] + 1
         /\ told'[j][step[j]] = outcome
         /\ \A i \in 1..(step[j] - 1) : told'[j][i] = told[j][i]
<1>1. /\ step \in [Jobs -> Nat \ {0}] /\ told \in [Jobs -> Seq(Outcomes)]
      /\ Len(told[j]) = step[j] - 1
  BY DEF PassesInv, PassOK
<1>2. step'[j] = step[j] + 1 /\ told'[j] = Append(told[j], outcome)
  BY <1>1 DEF Advance
<1>3. /\ Append(told[j], outcome)[Len(told[j]) + 1] = outcome
      /\ \A i \in 1..Len(told[j]) : Append(told[j], outcome)[i] = told[j][i]
  BY <1>1, AppendProperties
<1> QED
  BY <1>1, <1>2, <1>3

\* What a write of the survivor leaves in the log.

LEMMA SurvivorLands ==
  ASSUME NEW j \in Jobs, PointsOK, RowsInv, PassesInv, [Next]_vars, pc[j] = "write",
         ~Refused(Survivor(j)), ~Conflicting(Survivor(j)), Land(j, Survivor(j)),
         NEW session, session = task[j].session, NEW op, op = Op(j)
  PROVE  Survives(session, op)'
<1> DEFINE s == Survivor(j)
           e == <<session, op.key, op.action>>
<1>1. s.event = e /\ s.val = op.val /\ s.kind = KindOf(op)
  BY BlankShape DEF Survivor, CurateEvent
<1>2. task' = task /\ (Seen(s.event) = {} => RowShape(s))
  BY TaskStays, SurvivorIsOrdinary DEF Ordinary
<1>3. \E r \in DOMAIN log' : log'[r].event = e /\ log'[r].val = op.val /\ log'[r].kind = KindOf(op)
  <2>1. CASE Seen(s.event) = {}
    <3>1. AppendRow(j, s)
      BY <2>1 DEF Land
    <3> HIDE DEF s, e
    <3>2. DOMAIN log' = 1..(Len(log) + 1) /\ Len(log) \in Nat /\ Keeps(log'[Len(log) + 1], s)
      BY <1>2, <2>1, <3>1, RowLands DEF RowsInv
    <3>3. Len(log) + 1 \in DOMAIN log'
      BY <3>2
    <3> QED
      BY <1>1, <3>2, <3>3 DEF Keeps
  <2>2. CASE Seen(s.event) # {}
    <3>1. PICK r \in DOMAIN log : log[r].event = s.event
      BY <2>2 DEF Seen
    <3>2. SameWrite(log[r], s)
      BY <3>1 DEF Conflicting, Seen
    <3> HIDE DEF s, e
    <3> QED
      BY <1>1, <3>1, <3>2, RowsStay DEF SameWrite
  <2> QED
    BY <2>1, <2>2
<1> QED
  BY <1>3 DEF Survives, KindOf, HasProvenance

\* An op that is through stays through.

LEMMA OpIsThrough ==
  ASSUME PointsOK, RowsInv, PassesInv, [Next]_vars, NEW j \in Jobs, CurationStep(j),
         NEW i \in Nat \ {0}, i < step[j], OpOK(j, i)
  PROVE  OpOK(j, i)'
<1>1. task' = task /\ task[j].op = "curate" /\ (StaysAt(j) \/ GoesOn(j))
  BY PassForOneJob DEF CurationOnly
<1>2. /\ step \in [Jobs -> Nat \ {0}] /\ told \in [Jobs -> Seq(Outcomes)]
      /\ Len(told[j]) = step[j] - 1
  BY <1>1 DEF PassesInv, PassOK
<1>3. i < step'[j] /\ told'[j][i] = told[j][i]
  <2>1. CASE StaysAt(j)
    BY <2>1 DEF StaysAt
  <2>2. CASE GoesOn(j)
    <3>1. PICK outcome \in Outcomes :
            told'[j] = Append(told[j], outcome) /\ step'[j] = step[j] + 1
      BY <1>2, <2>2 DEF GoesOn
    <3>2. \A n \in 1..Len(told[j]) : Append(told[j], outcome)[n] = told[j][n]
      BY <1>2, AppendProperties
    <3> QED
      BY <1>2, <3>1, <3>2
  <2> QED
    BY <1>1, <2>1, <2>2
<1>4. told[j][i] = "applied" => Survives(task[j].session, task[j].ops[i])
  BY <1>2 DEF OpOK
<1>5. Survives(task[j].session, task[j].ops[i]) => Survives(task[j].session, task[j].ops[i])'
  <2> DEFINE s == task[j].session
             op == task[j].ops[i]
  <2>1. s = task'[j].session /\ op = task'[j].ops[i]
    BY <1>1
  <2> HIDE DEF s, op
  <2>2. Survives(s, op) => \A x, y : x = s /\ y = op => Survives(x, y)'
    BY SurvivorStays
  <2>3. \A x, y : x = task'[j].session /\ y = task'[j].ops[i] /\ Survives(x, y)'
                    => Survives(task[j].session, task[j].ops[i])'
    BY DEF Survives
  <2>4. Survives(s, op) => Survives(task[j].session, task[j].ops[i])'
    BY <2>1, <2>2, <2>3
  <2> QED
    BY <2>4 DEF s, op
<1>6. told[j][i] \in {"idempotency_conflict", "applied"}
  BY <1>2 DEF OpOK
<1> QED
  BY <1>3, <1>4, <1>5, <1>6 DEF OpOK

\* The op a pass is at goes on, fails there, is dropped, or is written.

LEMMA OpMoves ==
  ASSUME PointsOK, RowsInv, PassesInv, [Next]_vars, NEW j \in Jobs, CurationStep(j),
         NEW i \in Nat \ {0}, i = step[j], OpOK(j, i)
  PROVE  OpOK(j, i)'
<1>1. task' = task /\ task[j].op = "curate" /\ pc[j] # "done"
  BY PassForOneJob DEF CurationOnly
<1>2. pc[j] \in {"bound", "close", "write"} /\ step \in [Jobs -> Nat \ {0}]
  BY <1>1 DEF OpOK, PassesInv
<1>3. CASE End(j, "failed") /\ step' = step
  <2>1. out = [k \in Jobs |-> out[k]]
    BY DEF PassesInv
  <2>2. pc'[j] = "done" /\ out'[j] = "failed"
    BY <1>3, <2>1 DEF End, Goto, PointsOK
  <2> QED
    BY <1>3, <2>2 DEF OpOK
<1>4. CASE Advance(j, "idempotency_conflict")
  <2>1. step'[j] = step[j] + 1 /\ told'[j][step[j]] = "idempotency_conflict"
    BY <1>1, <1>4, OutcomesStay DEF Outcomes
  <2> QED
    BY <2>1 DEF OpOK
<1>5. CASE NextOld(j) /\ step' = step
  <2>1. pc'[j] \in {"bound", "write"}
    BY <1>5 DEF NextOld, Goto, PointsOK
  <2> QED
    BY <1>5, <2>1 DEF OpOK
<1>6. CASE Bound(j)
  <2>1. step' = step /\ pc'[j] \in {"bound", "close", "write"}
    BY <1>6 DEF Bound, NextOld, Goto, PointsOK
  <2> QED
    BY <2>1 DEF OpOK
<1>7. CASE Close(j)
  BY <1>4, <1>5, <1>7 DEF Close
<1>8. CASE Write(j)
  <2>1. ASSUME pc[j] = "write", ~Refused(Survivor(j)), ~Conflicting(Survivor(j)),
               Land(j, Survivor(j)), Advance(j, "applied")
        PROVE  OpOK(j, i)'
    <3>1. step'[j] = step[j] + 1 /\ told'[j][step[j]] = "applied"
      BY <1>1, <2>1, OutcomesStay DEF Outcomes
    <3>2. \A s, op : s = task[j].session /\ op = Op(j) => Survives(s, op)'
      BY <2>1, SurvivorLands
    <3>3. Op(j) = task[j].ops[i]
      BY DEF Op
    <3>4. \A s, op : s = task'[j].session /\ op = task'[j].ops[i] /\ Survives(s, op)'
                      => Survives(task[j].session, task[j].ops[i])'
      BY DEF Survives
    <3>5. Survives(task[j].session, task[j].ops[i])'
      BY <1>1, <3>2, <3>3, <3>4
    <3> QED
      BY <1>2, <3>1, <3>5 DEF OpOK
  <2> QED
    BY <1>3, <1>4, <1>8, <2>1 DEF Write, Refuse
<1>9. CASE BreakOff(j)
  BY <1>3, <1>9 DEF BreakOff
<1>10. CASE Disabled(j) \/ AskModel(j) \/ Gates(j) \/ Compare(j)
  BY <1>2, <1>10 DEF Disabled, AskModel, Gates, Compare
<1> QED
  BY <1>6, <1>7, <1>8, <1>9, <1>10 DEF CurationStep

LEMMA OpStep ==
  ASSUME PointsOK, RowsInv, PassesInv, [Next]_vars, NEW j \in Jobs, task[j].op = "curate",
         NEW i \in Nat \ {0}, OpOK(j, i)
  PROVE  OpOK(j, i)'
<1>1. i < step[j] \/ i = step[j]
  BY DEF OpOK
<1>2. CASE CurationStep(j)
  BY <1>1, <1>2, OpIsThrough, OpMoves
<1>3. CASE ~CurationStep(j)
  <2>1. /\ pc'[j] = pc[j] /\ step'[j] = step[j] /\ told'[j] = told[j] /\ out'[j] = out[j]
    <3>1. CASE UNCHANGED curateVars /\ Elsewhere(CurationOps)
      BY <3>1 DEF curateVars, Elsewhere, CurationOps
    <3>2. ASSUME NEW j2 \in Jobs, CurationStep(j2)
          PROVE  /\ pc'[j] = pc[j] /\ step'[j] = step[j] /\ told'[j] = told[j]
                 /\ out'[j] = out[j]
      BY <1>3, <3>2, PassForOneJob DEF CurationOnly
    <3> QED
      BY <3>1, <3>2, CurationFrame
  <2> QED
    BY <2>1, OpStays
<1> QED
  BY <1>2, <1>3

LEMMA OpsAreList ==
  ASSUME RowsInv, NEW j \in Jobs, task[j].op = "curate"
  PROVE  DOMAIN task[j].ops \subseteq Nat \ {0}
<1>1. task[j].ops \in Seq(ToSet(task[j].ops))
  BY TasksAreAsked
<1> QED
  BY <1>1

LEMMA AccountedStays ==
  ASSUME PointsOK, RowsInv, PassesInv, [Next]_vars, NEW b \in DOMAIN log, ClosedOK(b),
         AccountedOK(b)
  PROVE  AccountedOK(b)'
<1> DEFINE j == log[b].by
<1>1. j \in Jobs /\ task[j].op = "curate" /\ log'[b] = log[b] /\ task' = task
  BY RowsStay DEF ClosedOK
<1>2. PICK i \in DOMAIN task[j].ops :
        log[b].key \in ToSet(OldKeys(task[j].ops[i])) /\ OpOK(j, i)
  BY DEF AccountedOK
<1>3. \A x \in Jobs : x = j => OpOK(x, i)'
  <2> HIDE DEF j
  <2> QED
    BY <1>1, <1>2, OpsAreList, OpStep
<1>4. OpOK(log[b].by, i)'
  BY <1>1, <1>3 DEF OpOK, Survives
<1> QED
  BY <1>1, <1>2, <1>4 DEF AccountedOK

\* A boundary that lands is that of the op its pass is at.

LEMMA AccountedLands ==
  ASSUME PointsOK, RowsInv, PassesInv, [Next]_vars, NEW j \in Jobs, Close(j), log' # log,
         NEW n, n = Len(log) + 1
  PROVE  AccountedOK(n)'
<1>1. log'[n].by = j /\ log'[n].key \in ToSet(OldKeys(Op(j)))
  BY BoundaryLands
<1>2. /\ pc[j] = "close" /\ task[j].op = "curate" /\ task' = task
      /\ step[j] \in DOMAIN task[j].ops
  BY TaskStays DEF Close, PointsOK, At, PassesInv, PassOK, InOp
<1>3. step[j] \in Nat \ {0} /\ OpOK(j, step[j])
  BY <1>2, OpsAreList DEF OpOK
<1>4. \A i : i = step[j] => OpOK(j, i)'
  BY <1>2, <1>3, OpStep
<1>5. \A i : i = step[j] => OpOK(log[n].by, i)'
  BY <1>1, <1>4 DEF OpOK, Survives
<1>6. \E i \in DOMAIN task'[j].ops :
        log'[n].key \in ToSet(OldKeys(task'[j].ops[i])) /\ OpOK(log[n].by, i)'
  BY <1>1, <1>2, <1>5 DEF Op
<1> QED
  BY <1>1, <1>6 DEF AccountedOK

LEMMA AccountedStep ==
  ASSUME PointsOK, RowsInv, PassesInv, BatchInv, ClosingsInv, AccountedInv, [Next]_vars
  PROVE  AccountedInv'
<1>1. /\ DOMAIN log = 1..Len(log) /\ DOMAIN log' = 1..Len(log') /\ Len(log) \in Nat
      /\ \A b \in DOMAIN log : b \in DOMAIN log' /\ log'[b] = log[b]
  BY RowsStay
<1>2. ASSUME NEW b \in DOMAIN log, log'[b].closed
      PROVE  AccountedOK(b)'
  BY <1>1, <1>2, AccountedStays DEF ClosingsInv, AccountedInv
<1>3. CASE log' = log
  BY <1>2, <1>3 DEF AccountedInv
<1>4. ASSUME NEW j \in Jobs, NEW r, AppendRow(j, r), RowShape(r), ~r.closed
      PROVE  AccountedInv'
  <2>1. DOMAIN log' = 1..(Len(log) + 1) /\ ~log'[Len(log) + 1].closed
    BY <1>4, RowLands DEF RowsInv, Keeps
  <2>2. \A b \in DOMAIN log' : log'[b].closed => b \in DOMAIN log
    BY <1>1, <2>1
  <2> QED
    BY <1>2, <2>2 DEF AccountedInv
<1>5. ASSUME NEW j \in Jobs, Close(j), log' # log
      PROVE  AccountedInv'
  <2>1. DOMAIN log' = 1..(Len(log) + 1)
    BY <1>5, BoundaryLands
  <2>2. \A b \in DOMAIN log' : b \in DOMAIN log \/ b = Len(log) + 1
    BY <1>1, <2>1
  <2>3. \A b : b = Len(log) + 1 => AccountedOK(b)'
    BY <1>5, AccountedLands
  <2> QED
    BY <1>2, <2>2, <2>3 DEF AccountedInv
<1>6. ASSUME NEW j \in Jobs, SaveVerdict(j)
      PROVE  AccountedInv'
  BY <1>4, <1>6, VerdictShape
<1> QED
  BY <1>3, <1>4, <1>5, <1>6, WhatIsWritten DEF Ordinary

LEMMA InitAccounted == Init => AccountedInv
<1> SUFFICES ASSUME Init
             PROVE  AccountedInv
  OBVIOUS
<1>1. PICK w \in Workloads : task = w.task /\ log = w.seed
  BY DEF Init, EntriesInit
<1>2. \A b \in DOMAIN log : ~log[b].closed
  BY <1>1, LogAssumption DEF ToSet, UserRow
<1> QED
  BY <1>2 DEF AccountedInv

\* Curation: of each closing some op of its pass that named the key is under way,
\* broke off with the pass, was counted as an idempotency_conflict, or has its
\* survivor in the log.
THEOREM ClosingsAreAccounted == Spec => []ClosuresAreAccountedFor
<1>1. KnowledgeInv /\ ClosingsInv /\ AccountedInv => ClosuresAreAccountedFor
  <2> SUFFICES ASSUME KnowledgeInv, ClosingsInv, AccountedInv,
                      NEW b \in DOMAIN log, log[b].closed
               PROVE  \E i \in DOMAIN task[log[b].by].ops :
                        LET op == task[log[b].by].ops[i]
                            j == log[b].by
                        IN /\ log[b].key \in ToSet(OldKeys(op))
                           /\ \/ i = step[j] /\ out[j] \in {"none", "failed"}
                              \/ i < step[j] /\ told[j][i] = "idempotency_conflict"
                              \/ /\ i < step[j] /\ told[j][i] = "applied"
                                 /\ Survives(task[j].session, op)
    BY DEF ClosuresAreAccountedFor, Survives
  <2>1. log[b].by \in Jobs /\ task[log[b].by].op = "curate"
    BY DEF ClosingsInv, ClosedOK
  <2>2. PassOK(log[b].by) /\ AccountedOK(b)
    BY <2>1 DEF KnowledgeInv, PassesInv, AccountedInv
  <2>3. \A i : OpOK(log[b].by, i) =>
          \/ i = step[log[b].by] /\ out[log[b].by] \in {"none", "failed"}
          \/ i < step[log[b].by] /\ told[log[b].by][i] = "idempotency_conflict"
          \/ /\ i < step[log[b].by] /\ told[log[b].by][i] = "applied"
             /\ Survives(task[log[b].by].session, task[log[b].by].ops[i])
    BY <2>2 DEF OpOK, PassOK, InOp
  <2> QED
    BY <2>2, <2>3 DEF AccountedOK
<1>2. PointsOK /\ KnowledgeInv /\ ClosingsInv /\ AccountedInv /\ [Next]_vars => AccountedInv'
  BY AccountedStep DEF KnowledgeInv
<1> QED
  BY <1>1, <1>2, InitAccounted, KnowledgeInvariant, ClosingsInvariant, PTL DEF Spec
===============================================================================
