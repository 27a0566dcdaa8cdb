----------------------------- MODULE SkillsProofs -----------------------------
(***************************************************************************)
(* Skills' safety, for any skills, intents, jobs, workloads and validity      *)
(* windows.                                                                 *)
(***************************************************************************)
EXTENDS Skills, TLAPS, FiniteSetTheorems, SequenceTheorems

-----------------------------------------------------------------------------
(* The inductive invariant.                                                 *)

Points == {"idle", "append", "events", "close", "rollread", "rollwrite", "done"}
Items == Skills \X Goals \X Stages
EventSet == [skill : Skills, goal : Goals, stage : Stages, by : Jobs,
             outcome : Outcomes \cup {"none"}]
Matches == [skill : Skills, goal : Goals, acted : {"null", "yes", "no"}]
Sums == [Outcomes \cup {"fired"} -> Nat]
Replies == {"none", "ok", "unavailable"}

\* What skill_define wrote has a trigger and its author, or neither.
Signed(s, asked) ==
    s.text # 0 /\ asked[s.text].op = "define" => (s.trigger <=> s.author # "none")

\* TypeOK, with what EXCEPT updates as functions, and where a job's control is.
Types ==
    /\ skill \in [Skills -> Revision] /\ \A k \in Skills : Signed(skill[k], req)
    /\ authored \in [Skills -> Revision]
    /\ events \subseteq EventSet
    /\ matchlog \subseteq Matches
    /\ rollup \in Sums
    /\ newest \in Goals \cup {NoGoal}
    /\ now \in 0..MaxNow
    /\ req \in Workloads
    /\ pc \in [Jobs -> Points]
    /\ draft \in [Jobs -> Revision] /\ \A j \in Jobs : Signed(draft[j], req)
    /\ sums \in [Jobs -> Sums]
    /\ todo \in [Jobs -> Seq(Items)]
    /\ closed \in [Jobs -> SUBSET Skills] /\ already \in [Jobs -> SUBSET Skills]
    /\ basis \in [Jobs -> Revision]
    /\ ack \in [Jobs -> Replies]

\* The point a job is at fits what it does.
PointsOK ==
    \A j \in Jobs :
      /\ pc[j] = "append" => req[j].op \in {"define", "save", "delete", "bump"}
      /\ pc[j] = "events" => req[j].op \in {"intent", "write"}
      /\ pc[j] = "close" => req[j].op = "close"
      /\ pc[j] \in {"rollread", "rollwrite"} => req[j].op \in {"intent", "ledger", "close"}

\* What a job is about to append.  A bump that was not overtaken appends what
\* the skill is, with one counter more.
DraftOK(j) ==
    LET s == skill[req[j].skill]
    IN  /\ req[j].op = "bump" =>
             /\ draft[j].rev <= s.rev
             /\ draft[j].rev = s.rev => s.live /\ draft[j] = Bumped(s)
        /\ draft[j].text # 0 => OfRequest(draft[j], req[draft[j].text])

SkillsOK ==
    /\ SkillIsAsAuthored
    /\ \A j \in Jobs : pc[j] = "append" => DraftOK(j)

\* What a job has yet to record: each is in order already.
Retrieved(k, g) ==
    \E d \in events : d.skill = k /\ d.goal = g /\ d.stage \in {"matched", "surfaced"}
NotesOK(j) ==
    \A i \in DOMAIN todo[j] :
      /\ todo[j][i][3] \in {"matched", "surfaced", "acted_upon"}
      /\ todo[j][i][3] = "acted_upon" => Recorded(todo[j][i][1], todo[j][i][2], "surfaced") # {}
ClosingsOK(j) ==
    /\ \A i \in DOMAIN todo[j] :
         /\ todo[j][i][2] = req[j].goal
         /\ todo[j][i][1] \notin closed[j] \cup already[j]
         /\ Retrieved(todo[j][i][1], req[j].goal)
    /\ \A h, i \in DOMAIN todo[j] : h # i => todo[j][h][1] # todo[j][i][1]

\* One event of a stage, and an outcome by the job that was told it closed it.
EventsOK ==
    /\ IsFiniteSet(events)
    /\ \A d, e \in events :
         d.skill = e.skill /\ d.goal = e.goal /\ d.stage = e.stage => d = e
    /\ \A e \in events : e.stage = "outcome_closed" =>
         /\ req[e.by].op = "close" /\ req[e.by].goal = e.goal
         /\ e.skill \in closed[e.by]
    /\ StagesInOrder
    /\ CloseAnswersTrue
    /\ \A j \in Jobs :
         /\ closed[j] \cap already[j] = {}
         /\ pc[j] = "idle" => closed[j] = {} /\ already[j] = {}
         /\ pc[j] = "events" => NotesOK(j)
         /\ pc[j] = "close" => ClosingsOK(j)

\* The closers of an outcome that are through with the rollup.
Wrote(o) ==
    {j \in Jobs : /\ req[j].op = "close" /\ req[j].outcome = o
                  /\ closed[j] # {} /\ pc[j] = "done"}
RollupOK ==
    /\ \A o \in Outcomes : rollup[o] <= Cardinality(Wrote(o))
    /\ \A j \in Jobs :
         /\ pc[j] \in {"rollread", "rollwrite"} /\ req[j].op = "close" => closed[j] # {}
         /\ pc[j] = "rollwrite" =>
              \A o \in Outcomes :
                sums[j][o] <= Cardinality(Wrote(o)) + (IF Counter(j) = o THEN 1 ELSE 0)

\* A closing of the goal that said so, and is past its backfill.
Sayer(j, m) ==
    /\ req[j].op = "close" /\ req[j].goal = m.goal
    /\ (req[j].outcome = "followed") = (m.acted = "yes")
    /\ pc[j] \in {"rollread", "rollwrite", "done"}

JudgedOK == \A m \in matchlog : m.acted # "null" => \E j \in Jobs : Sayer(j, m)

IInv ==
    /\ Types /\ PointsOK
    /\ SkillsOK
    /\ EventsOK
    /\ RollupOK
    /\ JudgedOK

-----------------------------------------------------------------------------
(* Orders and requests.                                                     *)

LEMMA OrderOf ==
    ASSUME NEW S, IsFiniteSet(S), NEW s \in SetToSeqs(S)
    PROVE  \E n \in Nat : /\ s \in [1..n -> S]
                          /\ \A h, i \in 1..n : h # i => s[h] # s[i]
<1>1. Cardinality(S) \in Nat
  BY FS_CardinalityType
<1> QED
  BY <1>1 DEF SetToSeqs

\* A list of what an order's members become.
LEMMA ListOf ==
    ASSUME NEW n \in Nat, NEW S, NEW s \in [1..n -> S]
    PROVE  s \in Seq(S) /\ Len(s) = n /\ DOMAIN s = 1..n
<1>1. s \in Seq(S)
  BY SeqDef
<1> QED
  BY <1>1, LenProperties

LEMMA FiniteSkills ==
    ASSUME NEW S, S \subseteq Skills
    PROVE  IsFiniteSet(S)
BY FS_Subset, WorkloadsAssumption

LEMMA Asked ==
    ASSUME Types, NEW j \in Jobs
    PROVE  WellFormed(req[j]) /\ j # 0
BY WorkloadsAssumption DEF Types

\* What a job has left to record, first and rest.
LEMMA FirstOf ==
    ASSUME Types, NEW j \in Jobs, todo[j] # <<>>
    PROVE  /\ todo[j] \in Seq(Items)
           /\ 1 \in DOMAIN todo[j] /\ todo[j][1] \in Items
           /\ Tail(todo[j]) \in Seq(Items)
           /\ \A i \in DOMAIN Tail(todo[j]) :
                /\ i + 1 \in DOMAIN todo[j] /\ i + 1 # 1
                /\ Tail(todo[j])[i] = todo[j][i + 1]
           /\ \A h, i \in DOMAIN Tail(todo[j]) : h # i => h + 1 # i + 1
<1>1. todo[j] \in Seq(Items)
  BY DEF Types
<1>2. Len(todo[j]) \in Nat \ {0} /\ DOMAIN todo[j] = 1..Len(todo[j])
  BY <1>1, EmptySeq, LenProperties
<1>3. /\ Tail(todo[j]) \in Seq(Items)
      /\ Len(Tail(todo[j])) = Len(todo[j]) - 1
      /\ \A i \in 1..Len(Tail(todo[j])) : Tail(todo[j])[i] = todo[j][i + 1]
  BY <1>1, HeadTailProperties
<1>4. DOMAIN Tail(todo[j]) = 1..(Len(todo[j]) - 1)
  BY <1>3, LenProperties
<1>5. todo[j][1] \in Items
  BY <1>1, <1>2, ElementOfSeq
<1> QED
  BY <1>1, <1>2, <1>3, <1>4, <1>5

-----------------------------------------------------------------------------
(* Types.                                                                   *)

\* A skill's revisions.
LEMMA RevisionsAre ==
    ASSUME Types, NEW j \in Jobs, NEW s \in Revision, Signed(s, req)
    PROVE  /\ req[j].op = "define" => Defined(j, s) \in Revision /\ Signed(Defined(j, s), req)
           /\ req[j].op \in {"save", "delete"} => Written(j, s) \in Revision /\ Signed(Written(j, s), req)
           /\ Bumped(s) \in Revision /\ Signed(Bumped(s), req)
           /\ Blank \in Revision /\ Signed(Blank, req)
           /\ \A b \in BOOLEAN, n \in Nat :
                /\ [s EXCEPT !.rev = n, !.raced = b] \in Revision
                /\ Signed([s EXCEPT !.rev = n, !.raced = b], req)
<1>1. WellFormed(req[j])
  BY Asked
<1>2. now \in -1..MaxNow /\ 0 \in Nat /\ 0 \in Jobs \cup {0} /\ -1 \in -1..MaxNow
  BY WorkloadsAssumption DEF Types
<1>3. req[j].op = "define" => Defined(j, s) \in Revision /\ Signed(Defined(j, s), req)
  <2> SUFFICES ASSUME req[j].op = "define"
               PROVE  Defined(j, s) \in Revision /\ Signed(Defined(j, s), req)
    OBVIOUS
  <2> DEFINE d == Defined(j, s)
             valid == req[j].trigger = "valid"
             named == req[j].author \in Named
  <2>1. /\ req[j].author \in Named \cup {"unvalidated"}
        /\ req[j].antipattern \in BOOLEAN
    BY <1>1 DEF WellFormed
  <2> DEFINE author == IF valid THEN req[j].author ELSE "none"
             vouched == s.provenance \/ (valid /\ named)
             at == IF named THEN now ELSE s.at
             wary == req[j].antipattern
  <2>2. /\ valid \in BOOLEAN /\ vouched \in BOOLEAN
        /\ author \in Named \cup {"unvalidated", "none"}
        /\ at \in -1..MaxNow
    BY <1>2, <2>1 DEF Revision
  <2>3. valid <=> author # "none"
    BY <2>1 DEF Named
  <2>4. d = [s EXCEPT !.live = TRUE, !.text = j, !.antipattern = wary,
                      !.trigger = valid, !.author = author, !.provenance = vouched,
                      !.at = at]
    BY DEF Defined
  <2> HIDE DEF d, valid, author, vouched, at, wary
  <2>5. wary \in BOOLEAN /\ j \in Jobs \cup {0}
    BY <2>1 DEF wary
  <2>6. d \in Revision
    BY <2>2, <2>4, <2>5, ZenonT(40) DEF Revision
  <2>7. d.trigger = valid /\ d.author = author
    BY <2>4 DEF Revision
  <2> QED
    BY <2>3, <2>6, <2>7 DEF Signed, d
<1>4. Blank \in Revision /\ Signed(Blank, req)
  BY <1>2 DEF Blank, Revision, Signed
<1>5. req[j].op \in {"save", "delete"} => Written(j, s) \in Revision /\ Signed(Written(j, s), req)
  <2> SUFFICES ASSUME req[j].op \in {"save", "delete"}
               PROVE  Written(j, s) \in Revision /\ Signed(Written(j, s), req)
    OBVIOUS
  <2> DEFINE n == s.rev
             m == req[j].meta
             saved == req[j].op = "save"
             w == Written(j, s)
  <2>1. m \in Metas
    BY <1>1 DEF WellFormed
  <2>2. /\ m.antipattern \in BOOLEAN /\ m.trigger \in BOOLEAN
        /\ m.author \in Named \cup {"unvalidated", "none"}
        /\ m.provenance \in BOOLEAN /\ m.at \in -1..MaxNow /\ m.count \in Nat
    BY <2>1 DEF Metas
  <2>3. saved \in BOOLEAN /\ n \in Nat /\ j \in Jobs \cup {0}
    BY DEF Revision
  <2>4. w = [Blank EXCEPT !.rev = n, !.live = saved, !.text = j,
                          !.antipattern = m.antipattern, !.trigger = m.trigger,
                          !.author = m.author, !.provenance = m.provenance,
                          !.at = m.at, !.count = m.count]
    BY DEF Written
  <2> HIDE DEF n, m, saved, w
  <2>5. w \in Revision
    BY <1>4, <2>2, <2>3, <2>4, ZenonT(60) DEF Revision
  <2>6. w.text = j
    BY <1>4, <2>4 DEF Revision
  <2>7. Signed(w, req)
    BY <2>6 DEF Signed
  <2> QED
    BY <2>5, <2>7 DEF w
<1>6. Bumped(s) \in Revision /\ Signed(Bumped(s), req)
  <2> DEFINE n == s.count + 1
  <2>1. n \in Nat
    BY DEF Revision
  <2>2. Bumped(s) = [s EXCEPT !.live = TRUE, !.count = n]
    BY DEF Bumped
  <2> HIDE DEF n
  <2> QED
    BY <2>1, <2>2 DEF Revision, Signed
<1>7. \A b \in BOOLEAN, n \in Nat :
                /\ [s EXCEPT !.rev = n, !.raced = b] \in Revision
                /\ Signed([s EXCEPT !.rev = n, !.raced = b], req)
  BY DEF Revision, Signed
<1> QED
  BY <1>3, <1>4, <1>5, <1>6, <1>7

\* Where control goes, and what is answered.
LEMMA Moves ==
    ASSUME Types, NEW j \in Jobs, NEW p \in Points, Goto(j, p)
    PROVE  /\ pc' \in [Jobs -> Points]
           /\ pc'[j] = p
           /\ \A i \in Jobs : i # j => pc'[i] = pc[i]
BY DEF Types, Goto

LEMMA Finishes ==
    ASSUME Types, NEW j \in Jobs, Finish(j)
    PROVE  Goto(j, "done") /\ ack' \in [Jobs -> Replies]
BY DEF Types, Finish, Replies

\* A list of items, of what an order of skills becomes.
LEMMA ItemsAre ==
    ASSUME Types, NEW S, S \subseteq Skills, NEW s \in SetToSeqs(S), NEW g \in Goals,
           NEW stage \in Stages
    PROVE  /\ [i \in DOMAIN s |-> <<s[i], g, stage>>] \in Seq(Items)
           /\ StagesOf(s, g) \in Seq(Items)
<1>1. IsFiniteSet(S)
  BY FiniteSkills
<1>2. PICK n \in Nat : s \in [1..n -> S]
  BY <1>1, OrderOf
<1>3. Len(s) = n /\ DOMAIN s = 1..n
  BY <1>2, ListOf
<1>4. [i \in DOMAIN s |-> <<s[i], g, stage>>] \in [1..n -> Items]
  BY <1>2, <1>3 DEF Items
<1>5. 2 * n \in Nat /\ \A i \in 1..(2 * n) : (i + 1) \div 2 \in 1..n
  OBVIOUS
<1>6. StagesOf(s, g) \in [1..(2 * n) -> Items]
  BY <1>2, <1>3, <1>5 DEF StagesOf, Items, Stages
<1> QED
  BY <1>4, <1>5, <1>6, ListOf

\* The variables a step leaves alone; the rest is typed by hypothesis.
LEMMA SkillTypes ==
    ASSUME Types, PointsOK, NEW j \in Jobs,
           ReadSkill(j) \/ ReadForBump(j) \/ ReplaceSkill(j) \/ AppendSkill(j)
    PROVE  Types'
<1> USE DEF Types
<1>1. WellFormed(req[j])
  BY Asked
<1>2. CASE ReadSkill(j)
  <2> DEFINE d == Defined(j, skill[req[j].skill])
  <2>1. d \in Revision /\ Signed(d, req)
    BY <1>1, <1>2, RevisionsAre DEF ReadSkill, WellFormed
  <2>2. Goto(j, "append") /\ draft' = [draft EXCEPT ![j] = d]
    BY <1>2 DEF ReadSkill
  <2> HIDE DEF d
  <2>3. draft' \in [Jobs -> Revision] /\ \A i \in Jobs : Signed(draft'[i], req)
    BY <2>1, <2>2
  <2>4. pc' \in [Jobs -> Points]
    BY <2>2, Moves DEF Points
  <2>5. UNCHANGED <<store, asks, sums, todo, closed, already, basis, ack>>
    BY <1>2 DEF ReadSkill
  <2> QED
    BY <2>3, <2>4, <2>5 DEF store, asks
<1>3. CASE ReplaceSkill(j)
  <2> DEFINE d == Written(j, skill[req[j].skill])
  <2>1. d \in Revision /\ Signed(d, req)
    BY <1>1, <1>3, RevisionsAre DEF ReplaceSkill, WellFormed
  <2>2. Goto(j, "append") /\ draft' = [draft EXCEPT ![j] = d]
    BY <1>3 DEF ReplaceSkill
  <2> HIDE DEF d
  <2>3. draft' \in [Jobs -> Revision] /\ \A i \in Jobs : Signed(draft'[i], req)
    BY <2>1, <2>2
  <2>4. pc' \in [Jobs -> Points]
    BY <2>2, Moves DEF Points
  <2>5. UNCHANGED <<store, asks, sums, todo, closed, already, basis, ack>>
    BY <1>3 DEF ReplaceSkill
  <2> QED
    BY <2>3, <2>4, <2>5 DEF store, asks
<1>4. CASE ReadForBump(j)
  <2> DEFINE d == Bumped(skill[req[j].skill])
  <2>1. d \in Revision /\ Signed(d, req)
    BY <1>1, <1>4, RevisionsAre DEF ReadForBump, WellFormed
  <2>2. \/ Goto(j, "append") /\ draft' = [draft EXCEPT ![j] = d] /\ UNCHANGED ack
        \/ Finish(j) /\ UNCHANGED draft
    BY <1>4 DEF ReadForBump
  <2> HIDE DEF d
  <2>3. draft' \in [Jobs -> Revision] /\ \A i \in Jobs : Signed(draft'[i], req)
    BY <2>1, <2>2
  <2>4. pc' \in [Jobs -> Points] /\ ack' \in [Jobs -> Replies]
    BY <2>2, Moves, Finishes DEF Points
  <2>5. UNCHANGED <<store, asks, sums, todo, closed, already, basis>>
    BY <1>4 DEF ReadForBump
  <2> QED
    BY <2>3, <2>4, <2>5 DEF store, asks
<1>5. CASE AppendSkill(j)
  <2> DEFINE k == req[j].skill
             raced == req[j].op = "bump" /\ (draft[j].raced \/ Overtaken(j))
             n == skill[k].rev + 1
             row == [draft[j] EXCEPT !.rev = n, !.raced = raced]
  <2>1. /\ skill' = [skill EXCEPT ![k] = row]
        /\ authored' = authored \/ authored' = [authored EXCEPT ![k] = row]
        /\ draft' = [draft EXCEPT ![j] = Blank]
        /\ Finish(j)
    BY <1>5 DEF AppendSkill
  <2>2. UNCHANGED <<events, matchlog, rollup, newest, asks, sums, todo, closed,
                    already, basis>>
    BY <1>5 DEF AppendSkill
  <2>3. draft[j].raced \in BOOLEAN /\ n \in Nat
    <3>1. k \in Skills
      BY <1>1, <1>5 DEF AppendSkill, PointsOK, WellFormed
    <3>2. draft[j] \in Revision /\ skill[k] \in Revision
      BY <3>1
    <3>3. draft[j].raced \in BOOLEAN
      BY <3>2 DEF Revision
    <3>4. skill[k].rev \in Nat
      BY <3>2 DEF Revision
    <3> QED
      BY <3>3, <3>4
  <2>4. raced \in BOOLEAN
    BY DEF Overtaken
  <2> HIDE DEF k, raced, n
  <2>5. row \in Revision /\ Signed(row, req) /\ Blank \in Revision /\ Signed(Blank, req)
    BY <2>3, <2>4, RevisionsAre
  <2> HIDE DEF row
  <2>6. skill' \in [Skills -> Revision] /\ \A i \in Skills : Signed(skill'[i], req)
    BY <2>1, <2>5
  <2>7. authored' \in [Skills -> Revision]
    BY <2>1, <2>5
  <2>8. draft' \in [Jobs -> Revision] /\ \A i \in Jobs : Signed(draft'[i], req)
    BY <2>1, <2>5
  <2>9. pc' \in [Jobs -> Points] /\ ack' \in [Jobs -> Replies]
    BY <2>1, Moves, Finishes DEF Points
  <2> QED
    BY <2>2, <2>6, <2>7, <2>8, <2>9 DEF asks
<1> QED
  BY <1>2, <1>3, <1>4, <1>5

\* What is added to the events.
LEMMA EventTypes ==
    ASSUME Types, NEW j \in Jobs, NEW k \in Skills, NEW g \in Goals, NEW stage \in Stages,
           stage = "outcome_closed" => req[j].op = "close",
           Record(j, k, g, stage)
    PROVE  /\ events' \subseteq EventSet
           /\ Event(j, k, g, stage) \in EventSet
<1>1. stage = "outcome_closed" => req[j].outcome \in Outcomes
  BY Asked DEF WellFormed
<1>2. Event(j, k, g, stage) \in EventSet
  BY <1>1 DEF Event, EventSet
<1> QED
  BY <1>2 DEF Record, Types

LEMMA TodoTypes ==
    ASSUME Types, NEW j \in Jobs, NEW s \in Seq(Items), todo' = [todo EXCEPT ![j] = s]
    PROVE  todo' \in [Jobs -> Seq(Items)]
BY DEF Types

\* The intents' steps, and those of the writes linked to them.
LEMMA NoteTypes ==
    ASSUME Types, EventsOK, NEW j \in Jobs,
           Scan(j) \/ NoteEvent(j) \/ Register(j) \/ Link(j) \/ Linked(j)
    PROVE  Types'
<1> USE DEF Types
<1>1. WellFormed(req[j])
  BY Asked
<1>2. CASE Scan(j)
  <2>1. req[j].goal \in Goals
    BY <1>1, <1>2 DEF Scan, WellFormed
  <2>2. PICK found \in SUBSET {k \in Skills : skill[k].live} :
          /\ \E order \in SetToSeqs({k \in found : Trusted(skill[k])}) :
               /\ todo' = [todo EXCEPT ![j] = StagesOf(order, req[j].goal)]
               /\ \/ UNCHANGED basis
                  \/ \E i \in DOMAIN order : basis' = [basis EXCEPT ![j] = skill[order[i]]]
          /\ matchlog' = matchlog \cup Candidates(j, found)
    BY <1>2 DEF Scan
  <2>3. PICK order \in SetToSeqs({k \in found : Trusted(skill[k])}) :
               /\ todo' = [todo EXCEPT ![j] = StagesOf(order, req[j].goal)]
               /\ \/ UNCHANGED basis
                  \/ \E i \in DOMAIN order : basis' = [basis EXCEPT ![j] = skill[order[i]]]
    BY <2>2
  <2>4. {k \in found : Trusted(skill[k])} \subseteq Skills
    OBVIOUS
  <2>5. StagesOf(order, req[j].goal) \in Seq(Items)
    BY <2>1, <2>4, ItemsAre DEF Stages
  <2>6. todo' \in [Jobs -> Seq(Items)]
    BY <2>3, <2>5, TodoTypes
  <2>7. \A i \in DOMAIN order : order[i] \in Skills
    <3>1. IsFiniteSet({k \in found : Trusted(skill[k])})
      BY <2>4, FiniteSkills
    <3>2. PICK n \in Nat : order \in [1..n -> {k \in found : Trusted(skill[k])}]
      BY <3>1, OrderOf
    <3> QED
      BY <2>4, <3>2
  <2>8. basis' \in [Jobs -> Revision]
    BY <2>3, <2>7
  <2>9. matchlog' \subseteq Matches
    BY <2>1, <2>2 DEF Candidates, Matches
  <2>10. pc' \in [Jobs -> Points]
    BY <1>2, Moves DEF Scan, Points
  <2>11. UNCHANGED <<skill, authored, events, rollup, newest, asks, draft, sums, closed,
                     already, ack>>
    BY <1>2 DEF Scan
  <2> QED
    BY <2>6, <2>8, <2>9, <2>10, <2>11 DEF asks
<1>3. CASE NoteEvent(j)
  <2>1. pc[j] = "events" /\ todo[j] # <<>> /\ todo' = [todo EXCEPT ![j] = Tail(@)]
    BY <1>3 DEF NoteEvent
  <2>2. todo[j][1] \in Items /\ todo[j][1][3] # "outcome_closed"
    BY <2>1, FirstOf DEF EventsOK, NotesOK
  <2>3. events' \subseteq EventSet
    BY <1>3, <2>2, EventTypes DEF NoteEvent, Items
  <2>4. todo' \in [Jobs -> Seq(Items)]
    BY <2>1, FirstOf, TodoTypes
  <2>5. UNCHANGED <<skill, authored, matchlog, rollup, newest, asks, pc, draft,
                    sums, closed, already, basis, ack>>
    BY <1>3 DEF NoteEvent
  <2> QED
    BY <2>3, <2>4, <2>5 DEF asks
<1>4. CASE Register(j)
  <2>1. newest' \in Goals
    BY <1>1, <1>4 DEF Register, WellFormed
  <2>2. pc' \in [Jobs -> Points]
    BY <1>4, Moves DEF Register, Points
  <2>3. UNCHANGED <<skill, authored, events, matchlog, rollup, asks, notes, ack>>
    BY <1>4 DEF Register
  <2> QED
    BY <2>1, <2>2, <2>3 DEF asks, notes
<1>5. CASE Link(j)
  <2>1. PICK order \in SetToSeqs(Linkable(newest)) :
          todo' = [todo EXCEPT ![j] = [i \in DOMAIN order |-> <<order[i], newest, "acted_upon">>]]
    BY <1>5 DEF Link
  <2>2. Linkable(newest) \subseteq Skills
    BY DEF Linkable
  <2>3. todo' \in [Jobs -> Seq(Items)]
    <3>1. CASE newest \in Goals
      <4>1. [i \in DOMAIN order |-> <<order[i], newest, "acted_upon">>] \in Seq(Items)
        BY <2>2, <3>1, ItemsAre, ZenonT(40) DEF Stages
      <4> QED
        BY <2>1, <4>1, TodoTypes
    <3>2. CASE newest \notin Goals
      <4>1. Linkable(newest) = {}
        BY <3>2 DEF Linkable, Recorded, EventSet
      <4>2. PICK n \in Nat : order \in [1..n -> Linkable(newest)]
        BY <2>2, FiniteSkills, OrderOf
      <4>3. DOMAIN order = 1..n /\ DOMAIN order = {}
        BY <4>1, <4>2
      <4>4. [i \in DOMAIN order |-> <<order[i], newest, "acted_upon">>] \in [1..n -> Items]
        BY <4>3
      <4> QED
        BY <2>1, <4>4, ListOf, TodoTypes
    <3> QED
      BY <3>1, <3>2
  <2>4. pc' \in [Jobs -> Points]
    BY <1>5, Moves DEF Link, Points
  <2>5. UNCHANGED <<store, asks, draft, sums, closed, already, basis, ack>>
    BY <1>5 DEF Link
  <2> QED
    BY <2>3, <2>4, <2>5 DEF store, asks
<1>6. CASE Linked(j)
  <2>1. pc' \in [Jobs -> Points] /\ ack' \in [Jobs -> Replies]
    BY <1>6, Moves, Finishes DEF Linked, Points
  <2>2. UNCHANGED <<store, asks, notes>>
    BY <1>6 DEF Linked
  <2> QED
    BY <2>1, <2>2 DEF store, asks, notes
<1> QED
  BY <1>2, <1>3, <1>4, <1>5, <1>6

\* The steps of the closings and of the rollup.
LEMMA CloseTypes ==
    ASSUME Types, PointsOK, NEW j \in Jobs,
           Close(j) \/ CloseOne(j) \/ CountOutcome(j)
    PROVE  Types'
<1> USE DEF Types
<1>1. WellFormed(req[j])
  BY Asked
<1>2. CASE Close(j)
  <2>1. PICK order \in SetToSeqs(Closable(j)) :
          todo' = [todo EXCEPT ![j] =
                     [i \in DOMAIN order |-> <<order[i], req[j].goal, "outcome_closed">>]]
    BY <1>2 DEF Close
  <2>2. Closable(j) \subseteq Skills
    BY DEF Closable
  <2>3. req[j].goal \in Goals
    BY <1>1, <1>2 DEF Close, WellFormed
  <2>4. [i \in DOMAIN order |-> <<order[i], req[j].goal, "outcome_closed">>] \in Seq(Items)
    BY <2>2, <2>3, ItemsAre, ZenonT(40) DEF Stages
  <2>5. todo' \in [Jobs -> Seq(Items)]
    BY <2>1, <2>4, TodoTypes
  <2>6. pc' \in [Jobs -> Points]
    BY <1>2, Moves DEF Close, Points
  <2>7. UNCHANGED <<store, asks, draft, sums, closed, already, basis, ack>>
    BY <1>2 DEF Close
  <2> QED
    BY <2>5, <2>6, <2>7 DEF store, asks
<1>3. CASE CloseOne(j)
  <2> DEFINE k == todo[j][1][1]
  <2>1. pc[j] = "close" /\ todo[j] # <<>> /\ todo' = [todo EXCEPT ![j] = Tail(@)]
    BY <1>3 DEF CloseOne
  <2>2. req[j].op = "close" /\ req[j].goal \in Goals
    BY <1>1, <2>1 DEF PointsOK, WellFormed
  <2>3. k \in Skills
    BY <2>1, FirstOf DEF Items
  <2>4. /\ Record(j, k, req[j].goal, "outcome_closed")
        /\ closed' = closed \/ closed' = [closed EXCEPT ![j] = @ \cup {k}]
        /\ already' = already \/ already' = [already EXCEPT ![j] = @ \cup {k}]
    BY <1>3 DEF CloseOne
  <2> HIDE DEF k
  <2>5. events' \subseteq EventSet
    BY <2>2, <2>3, <2>4, EventTypes DEF Stages
  <2>6. closed' \in [Jobs -> SUBSET Skills] /\ already' \in [Jobs -> SUBSET Skills]
    <3>1. closed[j] \cup {k} \in SUBSET Skills /\ already[j] \cup {k} \in SUBSET Skills
      BY <2>3
    <3>2. closed' \in [Jobs -> SUBSET Skills]
      BY <2>4, <3>1
    <3>3. already' \in [Jobs -> SUBSET Skills]
      BY <2>4, <3>1
    <3> QED
      BY <3>2, <3>3
  <2>7. todo' \in [Jobs -> Seq(Items)]
    BY <2>1, FirstOf, TodoTypes
  <2>8. UNCHANGED <<skill, authored, matchlog, rollup, newest, asks, pc, draft,
                    sums, basis, ack>>
    BY <1>3 DEF CloseOne
  <2> QED
    BY <2>5, <2>6, <2>7, <2>8 DEF asks
<1>4. CASE CountOutcome(j)
  <2>1. matchlog' \subseteq Matches
    <3>1. Answer(j) \in {"null", "yes", "no"}
      BY DEF Answer
    <3>2. \A m \in matchlog : [m EXCEPT !.acted = Answer(j)] \in Matches
      BY <3>1 DEF Matches
    <3>3. Judged(j) \subseteq Matches
      BY <3>2 DEF Judged
    <3> QED
      BY <1>4, <3>3 DEF CountOutcome
  <2>2. pc' \in [Jobs -> Points] /\ ack' \in [Jobs -> Replies]
    BY <1>4, Moves, Finishes DEF CountOutcome, Points
  <2>3. UNCHANGED <<skill, authored, events, rollup, newest, asks, notes>>
    BY <1>4 DEF CountOutcome
  <2> QED
    BY <2>1, <2>2, <2>3 DEF asks, notes
<1> QED
  BY <1>2, <1>3, <1>4

LEMMA CounterIs ==
    ASSUME Types, PointsOK, NEW j \in Jobs, pc[j] \in {"rollread", "rollwrite"}
    PROVE  /\ Counter(j) \in Outcomes \cup {"fired"}
           /\ Counter(j) \in Outcomes => req[j].op = "close" /\ Counter(j) = req[j].outcome
BY Asked DEF WellFormed, Counter, Outcomes

LEMMA RollupTypes ==
    ASSUME Types, PointsOK, NEW j \in Jobs,
           StartLedger(j) \/ ReadRollup(j) \/ WriteRollup(j) \/ Fail(j)
    PROVE  Types'
<1> USE DEF Types
<1>1. NoSums \in Sums
  BY DEF NoSums, Sums
<1>2. CASE StartLedger(j)
  <2>1. pc' \in [Jobs -> Points]
    BY <1>2, Moves DEF StartLedger, Points
  <2>2. UNCHANGED <<store, asks, notes, ack>>
    BY <1>2 DEF StartLedger
  <2> QED
    BY <2>1, <2>2 DEF store, asks, notes
<1>3. CASE ReadRollup(j)
  <2>1. sums' = [sums EXCEPT ![j] = [rollup EXCEPT ![Counter(j)] = @ + 1]]
    BY <1>3 DEF ReadRollup
  <2>2. [rollup EXCEPT ![Counter(j)] = @ + 1] \in Sums
    <3>1. Counter(j) \in Outcomes \cup {"fired"}
      BY <1>3, CounterIs DEF ReadRollup
    <3>2. rollup[Counter(j)] + 1 \in Nat
      BY <3>1 DEF Sums
    <3> QED
      BY <3>2 DEF Sums
  <2>3. sums' \in [Jobs -> Sums]
    BY <2>1, <2>2
  <2>4. pc' \in [Jobs -> Points]
    BY <1>3, Moves DEF ReadRollup, Points
  <2>5. UNCHANGED <<store, asks, draft, todo, closed, already, basis, ack>>
    BY <1>3 DEF ReadRollup
  <2> QED
    BY <2>3, <2>4, <2>5 DEF store, asks
<1>4. CASE WriteRollup(j)
  <2>1. rollup' \in Sums /\ sums' \in [Jobs -> Sums]
    BY <1>1, <1>4 DEF WriteRollup
  <2>2. pc' \in [Jobs -> Points] /\ ack' \in [Jobs -> Replies]
    BY <1>4, Moves, Finishes DEF WriteRollup, Points
  <2>3. UNCHANGED <<skill, authored, events, matchlog, newest, asks, draft, todo,
                    closed, already, basis>>
    BY <1>4 DEF WriteRollup
  <2> QED
    BY <2>1, <2>2, <2>3 DEF asks
<1>5. CASE Fail(j)
  <2>1. draft' = [draft EXCEPT ![j] = Blank] /\ Blank \in Revision /\ Signed(Blank, req)
    BY <1>5, RevisionsAre DEF Fail
  <2>2. draft' \in [Jobs -> Revision] /\ \A i \in Jobs : Signed(draft'[i], req)
    BY <2>1
  <2>3. sums' \in [Jobs -> Sums]
    BY <1>1, <1>5 DEF Fail
  <2>4. <<>> \in Seq(Items)
    BY EmptySeq
  <2>5. todo' \in [Jobs -> Seq(Items)]
    BY <1>5, <2>4, TodoTypes DEF Fail
  <2>6. pc' \in [Jobs -> Points] /\ ack' \in [Jobs -> Replies]
    BY <1>5, Moves DEF Fail, Points, Replies
  <2>7. UNCHANGED <<store, asks, closed, already, basis>>
    BY <1>5 DEF Fail
  <2> QED
    BY <2>2, <2>3, <2>5, <2>6, <2>7 DEF store, asks
<1> QED
  BY <1>2, <1>3, <1>4, <1>5

Do(j) ==
    \/ ReadSkill(j) \/ ReadForBump(j) \/ ReplaceSkill(j) \/ AppendSkill(j)
    \/ Scan(j) \/ NoteEvent(j) \/ Register(j)
    \/ Link(j) \/ Linked(j)
    \/ Close(j) \/ CloseOne(j) \/ CountOutcome(j)
    \/ StartLedger(j) \/ ReadRollup(j) \/ WriteRollup(j)
    \/ Fail(j)

LEMMA TypesStep ==
    ASSUME IInv, [Next]_vars
    PROVE  Types'
<1>1. ASSUME NEW j \in Jobs, Do(j) PROVE Types'
  BY <1>1, SkillTypes, NoteTypes, CloseTypes, RollupTypes DEF Do, IInv
<1>2. CASE TimePasses
  <2>1. now' \in 0..MaxNow
    BY <1>2, WorkloadsAssumption DEF TimePasses, IInv, Types
  <2>2. UNCHANGED <<store, req, pc, notes, ack>>
    BY <1>2 DEF TimePasses
  <2> QED
    BY <2>1, <2>2 DEF IInv, Types, store, notes
<1>3. CASE UNCHANGED vars
  BY <1>3 DEF vars, IInv, Types
<1> QED
  BY <1>1, <1>2, <1>3 DEF Next, Do

-----------------------------------------------------------------------------
(* Control.                                                                 *)

\* A step of a job leaves the other jobs alone.
Alone(j) ==
    /\ req' = req
    /\ \A i \in Jobs : i # j =>
         /\ pc'[i] = pc[i] /\ draft'[i] = draft[i] /\ sums'[i] = sums[i]
         /\ todo'[i] = todo[i] /\ closed'[i] = closed[i] /\ already'[i] = already[i]

LEMMA StepsAlone ==
    ASSUME Types, NEW j \in Jobs, Do(j)
    PROVE  Alone(j)
<1> USE DEF Types, Alone, Goto, Finish, store, asks, notes
<1>1. CASE ReadSkill(j)
  BY <1>1 DEF ReadSkill
<1>2. CASE ReadForBump(j)
  BY <1>2 DEF ReadForBump
<1>3. CASE ReplaceSkill(j)
  BY <1>3 DEF ReplaceSkill
<1>4. CASE AppendSkill(j)
  BY <1>4 DEF AppendSkill
<1>5. CASE Scan(j)
  BY <1>5 DEF Scan
<1>6. CASE NoteEvent(j)
  BY <1>6 DEF NoteEvent
<1>7. CASE Register(j)
  BY <1>7 DEF Register
<1>8. CASE Link(j)
  BY <1>8 DEF Link
<1>9. CASE Linked(j)
  BY <1>9 DEF Linked
<1>10. CASE Close(j)
  BY <1>10 DEF Close
<1>11. CASE CloseOne(j)
  BY <1>11 DEF CloseOne
<1>12. CASE CountOutcome(j)
  BY <1>12 DEF CountOutcome
<1>13. CASE StartLedger(j)
  BY <1>13 DEF StartLedger
<1>14. CASE ReadRollup(j)
  BY <1>14 DEF ReadRollup
<1>15. CASE WriteRollup(j)
  BY <1>15 DEF WriteRollup
<1>16. CASE Fail(j)
  BY <1>16 DEF Fail
<1> QED
  BY <1>1, <1>2, <1>3, <1>4, <1>5, <1>6, <1>7, <1>8, <1>9, <1>10, <1>11, <1>12, <1>13, <1>14, <1>15, <1>16 DEF Do

LEMMA PointsStep ==
    ASSUME IInv, [Next]_vars
    PROVE  PointsOK'
<1>1. ASSUME NEW j \in Jobs, Do(j) PROVE PointsOK'
  <2>1. Alone(j) /\ Types /\ PointsOK /\ req[j].op \in Ops
    BY <1>1, StepsAlone, Asked DEF IInv, WellFormed
  <2>2. /\ pc'[j] = "append" => req[j].op \in {"define", "save", "delete", "bump"}
        /\ pc'[j] = "events" => req[j].op \in {"intent", "write"}
        /\ pc'[j] = "close" => req[j].op = "close"
        /\ pc'[j] \in {"rollread", "rollwrite"} => req[j].op \in {"intent", "ledger", "close"}
    <3> USE <2>1 DEF Types, PointsOK, Goto, Finish
    <3>1. CASE ReadSkill(j)
      BY <3>1 DEF ReadSkill
    <3>2. CASE ReadForBump(j)
      BY <3>2 DEF ReadForBump
    <3>3. CASE ReplaceSkill(j)
      BY <3>3 DEF ReplaceSkill
    <3>4. CASE AppendSkill(j)
      BY <3>4 DEF AppendSkill
    <3>5. CASE Scan(j)
      BY <3>5 DEF Scan
    <3>6. CASE NoteEvent(j)
      BY <3>6 DEF NoteEvent
    <3>7. CASE Register(j)
      BY <3>7 DEF Register
    <3>8. CASE Link(j)
      BY <3>8 DEF Link
    <3>9. CASE Linked(j)
      BY <3>9 DEF Linked
    <3>10. CASE Close(j)
      BY <3>10 DEF Close
    <3>11. CASE CloseOne(j)
      BY <3>11 DEF CloseOne
    <3>12. CASE CountOutcome(j)
      BY <3>12 DEF CountOutcome
    <3>13. CASE StartLedger(j)
      BY <3>13 DEF StartLedger
    <3>14. CASE ReadRollup(j)
      BY <3>14 DEF ReadRollup
    <3>15. CASE WriteRollup(j)
      BY <3>15 DEF WriteRollup
    <3>16. CASE Fail(j)
      BY <3>16 DEF Fail
    <3> QED
      BY <1>1, <3>1, <3>2, <3>3, <3>4, <3>5, <3>6, <3>7, <3>8, <3>9, <3>10, <3>11, <3>12, <3>13, <3>14, <3>15, <3>16 DEF Do
  <2> QED
    BY <2>1, <2>2 DEF Alone, PointsOK
<1>2. CASE TimePasses
  BY <1>2 DEF TimePasses, IInv, PointsOK
<1>3. CASE UNCHANGED vars
  BY <1>3 DEF vars, IInv, PointsOK
<1> QED
  BY <1>1, <1>2, <1>3 DEF Next, Do

-----------------------------------------------------------------------------
(* Skills stay as authored.                                                 *)

AsAuthored(s, a) ==
    /\ s.text # 0 => OfRequest(s, req[s.text])
    /\ ~s.raced => Contents(s) = Contents(a)

LEMMA SkillsKept ==
    ASSUME SkillsOK, UNCHANGED <<skill, authored, req>>,
           \A j \in Jobs : pc'[j] = "append" => pc[j] = "append" /\ draft'[j] = draft[j]
    PROVE  SkillsOK'
<1>1. SkillIsAsAuthored'
  BY DEF SkillsOK, SkillIsAsAuthored
<1>2. \A j \in Jobs : pc'[j] = "append" => DraftOK(j)'
  BY DEF SkillsOK, DraftOK
<1> QED
  BY <1>1, <1>2 DEF SkillsOK

\* A job has read what it will append.
LEMMA DraftStep ==
    ASSUME SkillsOK, NEW j \in Jobs, Alone(j), UNCHANGED <<skill, authored, req>>,
           pc'[j] = "append" => DraftOK(j)'
    PROVE  SkillsOK'
<1>1. SkillIsAsAuthored'
  BY DEF SkillsOK, SkillIsAsAuthored
<1>2. \A i \in Jobs : i # j => (pc'[i] = "append" => DraftOK(i)')
  BY DEF SkillsOK, DraftOK, Alone
<1> QED
  BY <1>1, <1>2 DEF SkillsOK

LEMMA ReadStep ==
    ASSUME Types, PointsOK, SkillsOK, NEW j \in Jobs,
           ReadSkill(j) \/ ReadForBump(j) \/ ReplaceSkill(j)
    PROVE  SkillsOK'
<1> DEFINE s == skill[req[j].skill]
<1>1. Alone(j) /\ UNCHANGED <<skill, authored, req>>
  BY StepsAlone DEF Do, ReadSkill, ReadForBump, ReplaceSkill, store, asks
<1>2. CASE ReadSkill(j)
  <2>1. req[j].op = "define" /\ s \in Revision
    BY <1>2, Asked DEF ReadSkill, WellFormed, Types
  <2>2. draft'[j] = Defined(j, s)
    BY <1>2 DEF ReadSkill, Types
  <2>3. Defined(j, s).text = j /\ OfRequest(Defined(j, s), req[j])
    BY <2>1 DEF Defined, Revision, OfRequest
  <2>4. DraftOK(j)'
    BY <1>1, <2>1, <2>2, <2>3 DEF DraftOK
  <2> QED
    BY <1>1, <2>4, DraftStep
<1>3. CASE ReplaceSkill(j)
  <2>1. req[j].op \in {"save", "delete"} /\ draft'[j] = Written(j, s)
    BY <1>3 DEF ReplaceSkill, Types
  <2>2. Written(j, s).text = j /\ OfRequest(Written(j, s), req[j])
    BY <2>1 DEF Written, Blank, OfRequest
  <2>3. DraftOK(j)'
    BY <1>1, <2>1, <2>2 DEF DraftOK
  <2> QED
    BY <1>1, <2>3, DraftStep
<1>4. CASE ReadForBump(j)
  <2>1. req[j].op = "bump" /\ s \in Revision
    BY <1>4, Asked DEF ReadForBump, WellFormed, Types
  <2>2. CASE Bumpable(s)
    <3>1. draft'[j] = Bumped(s) /\ s.live
      BY <1>4, <2>2 DEF ReadForBump, Types, Bumpable
    <3>2. s.rev \in Nat
      BY <2>1 DEF Revision
    <3>3. Bumped(s).rev = s.rev
      BY <2>1 DEF Bumped, Revision
    <3> HIDE DEF s
    <3>4. /\ draft'[j].rev <= s.rev
          /\ draft'[j].rev = s.rev => s.live /\ draft'[j] = Bumped(s)
      BY <3>1, <3>2, <3>3
    <3>5. draft'[j].text # 0 => OfRequest(draft'[j], req[draft'[j].text])
      <4>1. s.text # 0 => OfRequest(s, req[s.text])
        BY <1>4, Asked DEF ReadForBump, WellFormed, SkillsOK, SkillIsAsAuthored, s
      <4> QED
        BY <2>1, <3>1, <4>1 DEF Bumped, Revision, OfRequest
    <3>6. DraftOK(j)'
      BY <1>1, <2>1, <3>4, <3>5 DEF DraftOK, s
    <3> QED
      BY <1>1, <3>6, DraftStep
  <2>3. CASE ~Bumpable(s)
    <3>1. pc'[j] = "done"
      BY <1>4, <2>3 DEF ReadForBump, Finish, Goto, Types
    <3> QED
      BY <1>1, <3>1, DraftStep
  <2> QED
    BY <2>2, <2>3
<1> QED
  BY <1>2, <1>3, <1>4

\* An append: a bump that was not overtaken copies the skill, anything else
\* writes what its job asked for.
LEMMA AppendStep ==
    ASSUME Types, PointsOK, SkillsOK, NEW j \in Jobs, AppendSkill(j)
    PROVE  SkillsOK'
<1> DEFINE k == req[j].skill
           s == skill[k]
           d == draft[j]
           bump == req[j].op = "bump"
           raced == bump /\ (d.raced \/ Overtaken(j))
           n == s.rev + 1
           row == [d EXCEPT !.rev = n, !.raced = raced]
<1>1. /\ pc[j] = "append" /\ pc'[j] = "done"
      /\ skill' = [skill EXCEPT ![k] = row]
      /\ authored' = IF bump THEN authored ELSE [authored EXCEPT ![k] = row]
      /\ req' = req
  BY DEF AppendSkill, Finish, Goto, Types, asks
<1>2. Alone(j)
  BY StepsAlone DEF Do
<1>3. k \in Skills /\ d \in Revision /\ s \in Revision
  BY <1>1, Asked DEF PointsOK, WellFormed, Types
<1>4. s.rev \in Nat /\ d.rev \in Nat
  BY <1>3 DEF Revision
<1>5. DraftOK(j)
  BY <1>1 DEF SkillsOK
<1>6. /\ row.rev = n /\ row.raced = raced
      /\ Contents(row) = Contents(d)
      /\ \A q : OfRequest(row, q) <=> OfRequest(d, q)
  BY <1>3 DEF Revision, Contents, OfRequest
<1>7. AsAuthored(row, authored'[k])
  <2>1. row.text # 0 => OfRequest(row, req[row.text])
    <3>1. row.text = d.text
      BY <1>3 DEF Revision
    <3> QED
      BY <1>5, <1>6, <3>1 DEF DraftOK
  <2>2. ~row.raced => Contents(row) = Contents(authored'[k])
    <3>1. CASE ~bump
      BY <1>1, <1>3, <3>1 DEF Types
    <3>2. CASE bump /\ ~raced
      <4>1. d.rev = s.rev
        BY <3>2 DEF Overtaken
      <4>2. s.live /\ d = Bumped(s)
        BY <1>5, <3>2, <4>1 DEF DraftOK
      <4>3. d.raced = s.raced
        BY <1>3, <4>2 DEF Bumped, Revision
      <4>4. ~s.raced
        BY <3>2, <4>3, <1>3 DEF Revision
      <4>5. s.live = TRUE
        BY <1>3, <4>2 DEF Revision
      <4>6. Contents(d) = Contents(s)
        BY <1>3, <4>2, <4>5 DEF Bumped, Contents, Revision
      <4>7. Contents(s) = Contents(authored[k])
        BY <1>3, <4>4 DEF SkillsOK, SkillIsAsAuthored
      <4>8. authored'[k] = authored[k]
        BY <1>1, <3>2
      <4> QED
        BY <1>6, <4>6, <4>7, <4>8
    <3>3. CASE raced
      BY <1>6, <3>3
    <3> QED
      BY <3>1, <3>2, <3>3
  <2> QED
    BY <2>1, <2>2 DEF AsAuthored
<1> HIDE DEF row, raced, s, d, bump
<1>8. \A i \in Skills : AsAuthored(skill'[i], authored'[i])
  <2> TAKE i \in Skills
  <2>1. CASE i = k
    BY <1>1, <1>3, <1>7, <2>1 DEF Types
  <2>2. CASE i # k
    <3>1. skill'[i] = skill[i] /\ authored'[i] = authored[i]
      BY <1>1, <1>3, <2>2 DEF Types
    <3> QED
      BY <3>1 DEF SkillsOK, SkillIsAsAuthored, AsAuthored
  <2> QED
    BY <2>1, <2>2
<1>9. SkillIsAsAuthored'
  BY <1>1, <1>8 DEF SkillIsAsAuthored, AsAuthored
<1>10. ASSUME NEW i \in Jobs, pc'[i] = "append" PROVE DraftOK(i)'
  <2>1. i # j /\ pc[i] = "append" /\ draft'[i] = draft[i] /\ DraftOK(i)
    BY <1>1, <1>2, <1>10 DEF Alone, SkillsOK
  <2>2. req[i].skill # k => skill'[req[i].skill] = skill[req[i].skill]
    BY <1>1, <1>3 DEF Types
  <2>3. CASE req[i].skill # k
    BY <1>1, <2>1, <2>2, <2>3 DEF DraftOK
  <2>4. CASE req[i].skill = k
    <3>1. skill'[k].rev = s.rev + 1
      BY <1>1, <1>3, <1>6 DEF Types
    <3>2. draft[i].rev \in Nat
      BY DEF Types, Revision
    <3>3. req[i].op = "bump" => draft[i].rev <= s.rev
      BY <2>1, <2>4 DEF DraftOK, s
    <3>4. req[i].op = "bump" => draft[i].rev < skill'[k].rev
      BY <1>4, <3>1, <3>2, <3>3
    <3>5. skill'[k].rev \in Nat
      BY <1>4, <3>1
    <3>6. req[i].op = "bump" => draft[i].rev <= skill'[k].rev /\ draft[i].rev # skill'[k].rev
      BY <3>2, <3>4, <3>5
    <3> QED
      BY <1>1, <2>1, <2>4, <3>6 DEF DraftOK
  <2> QED
    BY <2>3, <2>4
<1> QED
  BY <1>9, <1>10 DEF SkillsOK

LEMMA SkillsStep ==
    ASSUME IInv, [Next]_vars
    PROVE  SkillsOK'
<1>1. ASSUME NEW j \in Jobs, Do(j) PROVE SkillsOK'
  <2>1. Alone(j) /\ Types /\ PointsOK /\ SkillsOK
    BY <1>1, StepsAlone DEF IInv
  <2>2. CASE ReadSkill(j) \/ ReadForBump(j) \/ ReplaceSkill(j) \/ AppendSkill(j)
    BY <2>1, <2>2, ReadStep, AppendStep
  <2>3. CASE ~(ReadSkill(j) \/ ReadForBump(j) \/ ReplaceSkill(j) \/ AppendSkill(j))
    <3>1. UNCHANGED <<skill, authored>> /\ (pc'[j] # "append")
      <4> USE <2>1 DEF Types, Goto, Finish, store
      <4>1. CASE Scan(j)
        BY <4>1 DEF Scan
      <4>2. CASE NoteEvent(j)
        BY <4>2 DEF NoteEvent
      <4>3. CASE Register(j) \/ Link(j) \/ Linked(j)
        BY <4>3 DEF Register, Link, Linked
      <4>4. CASE Close(j) \/ CloseOne(j) \/ CountOutcome(j)
        BY <4>4 DEF Close, CloseOne, CountOutcome
      <4>5. CASE StartLedger(j) \/ ReadRollup(j) \/ WriteRollup(j) \/ Fail(j)
        BY <4>5 DEF StartLedger, ReadRollup, WriteRollup, Fail
      <4> QED
        BY <1>1, <2>3, <4>1, <4>2, <4>3, <4>4, <4>5 DEF Do
    <3> QED
      BY <2>1, <3>1, SkillsKept DEF Alone
  <2> QED
    BY <2>2, <2>3
<1>2. CASE TimePasses
  BY <1>2, SkillsKept DEF TimePasses, IInv, store, notes
<1>3. CASE UNCHANGED vars
  BY <1>3, SkillsKept DEF vars, IInv
<1> QED
  BY <1>1, <1>2, <1>3 DEF Next, Do

-----------------------------------------------------------------------------
(* The events are in order.                                                 *)

JobEventsOK(j) ==
    /\ closed[j] \cap already[j] = {}
    /\ pc[j] = "idle" => closed[j] = {} /\ already[j] = {}
    /\ pc[j] = "events" => NotesOK(j)
    /\ pc[j] = "close" => ClosingsOK(j)

\* While the events stand, only what a job plans to record can go wrong.
LEMMA EventsStand ==
    ASSUME EventsOK, UNCHANGED <<events, closed, already, req>>,
           \A i \in Jobs : (pc'[i] = pc[i] /\ todo'[i] = todo[i]) \/ JobEventsOK(i)'
    PROVE  EventsOK'
<1>1. StagesInOrder' /\ CloseAnswersTrue'
  BY DEF EventsOK, StagesInOrder, CloseAnswersTrue, Closing, Recorded, Event
<1>2. \A i \in Jobs : pc'[i] = pc[i] /\ todo'[i] = todo[i] => JobEventsOK(i)'
  BY DEF EventsOK, JobEventsOK, NotesOK, ClosingsOK, Recorded, Retrieved
<1>3. \A i \in Jobs : JobEventsOK(i)'
  BY <1>2
<1> QED
  BY <1>1, <1>3 DEF EventsOK, JobEventsOK

\* A job that stops recording plans nothing.
LEMMA EventsKept ==
    ASSUME EventsOK, NEW j \in Jobs, Alone(j), UNCHANGED <<events, closed, already>>,
           pc'[j] \notin {"idle", "events", "close"}
    PROVE  EventsOK'
<1>1. JobEventsOK(j)'
  BY DEF EventsOK, JobEventsOK
<1> QED
  BY <1>1, EventsStand DEF Alone

LEMMA ScanEvents ==
    ASSUME Types, EventsOK, NEW j \in Jobs, Scan(j)
    PROVE  EventsOK'
<1>1. Alone(j) /\ UNCHANGED <<events, closed, already>> /\ pc'[j] = "events"
  BY StepsAlone DEF Do, Scan, Goto, Types
<1>2. PICK order : todo' = [todo EXCEPT ![j] = StagesOf(order, req[j].goal)]
  BY DEF Scan
<1>3. todo'[j] = StagesOf(order, req[j].goal)
  BY <1>2 DEF Types
<1>4. \A i \in DOMAIN todo'[j] : todo'[j][i][3] \in {"matched", "surfaced"}
  BY <1>3 DEF StagesOf
<1>5. NotesOK(j)'
  BY <1>4 DEF NotesOK
<1>6. JobEventsOK(j)'
  BY <1>1, <1>5 DEF EventsOK, JobEventsOK
<1> QED
  BY <1>1, <1>6, EventsStand DEF Alone

LEMMA LinkEvents ==
    ASSUME Types, EventsOK, NEW j \in Jobs, Link(j)
    PROVE  EventsOK'
<1>1. /\ Alone(j) /\ UNCHANGED <<events, closed, already, newest>>
      /\ pc'[j] = "events"
  BY StepsAlone DEF Do, Link, Goto, Types, store
<1>2. PICK order \in SetToSeqs(Linkable(newest)) :
        todo' = [todo EXCEPT ![j] = [i \in DOMAIN order |-> <<order[i], newest, "acted_upon">>]]
  BY DEF Link
<1>3. IsFiniteSet(Linkable(newest))
  BY FiniteSkills DEF Linkable
<1>4. \A i \in DOMAIN order : order[i] \in Linkable(newest)
  BY <1>3, OrderOf
<1>5. todo'[j] = [i \in DOMAIN order |-> <<order[i], newest, "acted_upon">>]
  BY <1>2 DEF Types
<1>6. \A i \in DOMAIN todo'[j] :
        /\ todo'[j][i][3] = "acted_upon"
        /\ Recorded(todo'[j][i][1], todo'[j][i][2], "surfaced") # {}
  BY <1>4, <1>5 DEF Linkable
<1>7. NotesOK(j)'
  BY <1>1, <1>6 DEF NotesOK, Recorded
<1>8. JobEventsOK(j)'
  BY <1>1, <1>7 DEF EventsOK, JobEventsOK
<1> QED
  BY <1>1, <1>8, EventsStand DEF Alone

LEMMA CloseEvents ==
    ASSUME Types, EventsOK, NEW j \in Jobs, Close(j)
    PROVE  EventsOK'
<1> DEFINE g == req[j].goal
<1>1. /\ Alone(j) /\ UNCHANGED <<events, closed, already>>
      /\ pc[j] = "idle" /\ pc'[j] = "close"
  BY StepsAlone DEF Do, Close, Goto, Types, store
<1>2. PICK order \in SetToSeqs(Closable(j)) :
        todo' = [todo EXCEPT ![j] = [i \in DOMAIN order |-> <<order[i], g, "outcome_closed">>]]
  BY DEF Close
<1>3. IsFiniteSet(Closable(j))
  BY FiniteSkills DEF Closable
<1>4. /\ \A i \in DOMAIN order : order[i] \in Closable(j)
      /\ \A h, i \in DOMAIN order : h # i => order[h] # order[i]
  BY <1>3, OrderOf
<1>5. todo'[j] = [i \in DOMAIN order |-> <<order[i], g, "outcome_closed">>]
  BY <1>2 DEF Types
<1>6. closed'[j] = {} /\ already'[j] = {}
  BY <1>1 DEF EventsOK
<1>7. \A k \in Closable(j) : Retrieved(k, g)
  <2> SUFFICES ASSUME NEW k \in Closable(j) PROVE Retrieved(k, g)
    OBVIOUS
  <2>1. PICK e \in events : e.skill = k /\ e.goal = g
    BY DEF Closable
  <2>2. e.stage \in Stages
    BY DEF Types, EventSet
  <2>3. CASE e.stage \in {"matched", "surfaced"}
    BY <2>1, <2>3 DEF Retrieved
  <2>4. CASE e.stage = "acted_upon"
    BY <2>1, <2>4 DEF EventsOK, StagesInOrder, Recorded, Retrieved
  <2>5. CASE e.stage = "outcome_closed"
    BY <2>1, <2>5 DEF EventsOK, StagesInOrder, Retrieved
  <2> QED
    BY <2>2, <2>3, <2>4, <2>5 DEF Stages
<1>8. \A i \in DOMAIN todo'[j] :
        todo'[j][i][2] = g /\ todo'[j][i][1] = order[i] /\ i \in DOMAIN order
  BY <1>5
<1>9. ClosingsOK(j)'
  BY <1>1, <1>4, <1>6, <1>7, <1>8 DEF ClosingsOK, Retrieved, Alone
<1>10. JobEventsOK(j)'
  BY <1>1, <1>6, <1>9 DEF JobEventsOK
<1> QED
  BY <1>1, <1>10, EventsStand DEF Alone

\* One event more.
LEMMA Recording ==
    ASSUME Types, EventsOK, NEW j \in Jobs, NEW k, NEW g, NEW stage,
           Record(j, k, g, stage)
    PROVE  /\ events \subseteq events'
           /\ IsFiniteSet(events')
           /\ \A e \in events' : \/ e \in events
                                \/ (e = Event(j, k, g, stage) /\ Recorded(k, g, stage) = {})
           /\ \A d, e \in events' :
                d.skill = e.skill /\ d.goal = e.goal /\ d.stage = e.stage => d = e
<1> DEFINE new == Event(j, k, g, stage)
<1>1. new.skill = k /\ new.goal = g /\ new.stage = stage
  BY DEF Event
<1>2. \/ events' = events
      \/ events' = events \cup {new} /\ Recorded(k, g, stage) = {}
  BY DEF Record
<1> HIDE DEF new
<1>3. IsFiniteSet(events')
  BY <1>2, FS_AddElement DEF EventsOK
<1>4. \A d, e \in events' :
        d.skill = e.skill /\ d.goal = e.goal /\ d.stage = e.stage => d = e
  BY <1>1, <1>2 DEF EventsOK, Recorded
<1>5. \A e \in events' : e \in events \/ (e = new /\ Recorded(k, g, stage) = {})
  BY <1>2
<1> QED
  BY <1>2, <1>3, <1>4, <1>5 DEF new

\* CloseAnswersTrue, of any events.
ClosingIn(E, k, g) == {e \in E : e.skill = k /\ e.goal = g /\ e.stage = "outcome_closed"}
Answered(E, C, A, j) ==
    req[j].op = "close" =>
      /\ \A k \in C[j] : ClosingIn(E, k, req[j].goal) = {Event(j, k, req[j].goal, "outcome_closed")}
      /\ \A k \in A[j] : \E e \in ClosingIn(E, k, req[j].goal) : e.by # j

LEMMA AnswersAre == CloseAnswersTrue <=> \A j \in Jobs : Answered(events, closed, already, j)
BY DEF CloseAnswersTrue, Answered, ClosingIn, Closing, Recorded

LEMMA AnswersAreNext ==
    ASSUME req' = req, \A j \in Jobs : Answered(events', closed', already', j)
    PROVE  CloseAnswersTrue'
BY DEF CloseAnswersTrue, Answered, ClosingIn, Closing, Recorded, Event

\* What was recorded stays.
LEMMA Stays ==
    ASSUME events \subseteq events'
    PROVE  \A k, g : /\ Retrieved(k, g) => Retrieved(k, g)'
                    /\ \A stage : Recorded(k, g, stage) # {} => Recorded(k, g, stage)' # {}
<1> TAKE k, g
<1>1. Retrieved(k, g) => Retrieved(k, g)'
  BY DEF Retrieved
<1>2. \A stage : Recorded(k, g, stage) # {} => Recorded(k, g, stage)' # {}
  BY DEF Recorded
<1> QED
  BY <1>1, <1>2

\* What the other jobs plan stays in order.
LEMMA OthersStay ==
    ASSUME EventsOK, NEW j \in Jobs, Alone(j), events \subseteq events'
    PROVE  \A i \in Jobs : i # j => JobEventsOK(i)'
<1> SUFFICES ASSUME NEW i \in Jobs, i # j PROVE JobEventsOK(i)'
  OBVIOUS
<1>1. /\ req' = req /\ pc'[i] = pc[i] /\ todo'[i] = todo[i]
      /\ closed'[i] = closed[i] /\ already'[i] = already[i]
  BY DEF Alone
<1>2. JobEventsOK(i)
  BY DEF EventsOK, JobEventsOK
<1>3. NotesOK(i) => NotesOK(i)'
  BY <1>1, Stays DEF NotesOK
<1>4. ClosingsOK(i) => ClosingsOK(i)'
  BY <1>1, Stays DEF ClosingsOK
<1> QED
  BY <1>1, <1>2, <1>3, <1>4 DEF JobEventsOK

LEMMA NoteEvents ==
    ASSUME Types, EventsOK, NEW j \in Jobs, NoteEvent(j)
    PROVE  EventsOK'
<1> DEFINE k == todo[j][1][1]
           g == todo[j][1][2]
           stage == todo[j][1][3]
           new == Event(j, k, g, stage)
<1>1. /\ Alone(j) /\ UNCHANGED <<closed, already, pc, req>>
      /\ pc[j] = "events" /\ todo[j] # <<>> /\ todo'[j] = Tail(todo[j])
  BY StepsAlone DEF Do, NoteEvent, Types, asks
<1>2. NotesOK(j)
  BY <1>1 DEF EventsOK
<1>3. /\ stage \in {"matched", "surfaced", "acted_upon"}
      /\ stage = "acted_upon" => Recorded(k, g, "surfaced") # {}
  BY <1>1, <1>2, FirstOf DEF NotesOK
<1>4. events \subseteq events'
  BY Recording DEF NoteEvent
<1>5. NotesOK(j)'
  <2>1. \A i \in DOMAIN todo'[j] :
          i + 1 \in DOMAIN todo[j] /\ todo'[j][i] = todo[j][i + 1]
    BY <1>1, FirstOf
  <2> QED
    BY <1>2, <1>4, <2>1, Stays DEF NotesOK
<1>6. \A i \in Jobs : JobEventsOK(i)'
  BY <1>1, <1>4, <1>5, OthersStay DEF EventsOK, JobEventsOK
<1>7. CASE UNCHANGED events
  BY <1>1, <1>6, <1>7, EventsStand
<1>8. CASE Record(j, k, g, stage)
  <2>1. new.skill = k /\ new.goal = g /\ new.stage = stage
    BY DEF Event
  <2>2. \A e \in events' : e \in events \/ e = new
    BY <1>8, Recording
  <2> HIDE DEF k, g, stage, new
  <2>3. \A l, a : ClosingIn(events', l, a) = ClosingIn(events, l, a)
    BY <1>3, <1>4, <2>1, <2>2 DEF ClosingIn
  <2>4. \A i \in Jobs : Answered(events', closed', already', i)
    BY <1>1, <2>3, AnswersAre DEF EventsOK, Answered
  <2>5. CloseAnswersTrue'
    BY <1>1, <2>4, AnswersAreNext
  <2>6. StagesInOrder'
    <3> SUFFICES ASSUME NEW e \in events'
                 PROVE  /\ e.stage = "acted_upon" => Recorded(e.skill, e.goal, "surfaced")' # {}
                        /\ e.stage = "outcome_closed" => Retrieved(e.skill, e.goal)'
      BY DEF StagesInOrder, Retrieved
    <3>1. CASE e \in events
      <4>1. /\ e.stage = "acted_upon" => Recorded(e.skill, e.goal, "surfaced") # {}
            /\ e.stage = "outcome_closed" => Retrieved(e.skill, e.goal)
        BY <3>1 DEF EventsOK, StagesInOrder, Retrieved
      <4> QED
        BY <1>4, <4>1, Stays
    <3>2. CASE e = new
      BY <1>3, <1>4, <2>1, <3>2, Stays
    <3> QED
      BY <2>2, <3>1, <3>2
  <2>7. \A e \in events' : e.stage = "outcome_closed" =>
          req'[e.by].op = "close" /\ req'[e.by].goal = e.goal /\ e.skill \in closed'[e.by]
    BY <1>1, <1>3, <2>1, <2>2 DEF EventsOK
  <2>8. /\ IsFiniteSet(events')
        /\ \A d, e \in events' :
             d.skill = e.skill /\ d.goal = e.goal /\ d.stage = e.stage => d = e
    BY <1>8, Recording DEF k, g, stage
  <2> QED
    BY <1>6, <2>5, <2>6, <2>7, <2>8 DEF EventsOK, JobEventsOK
<1> QED
  BY <1>7, <1>8 DEF NoteEvent

LEMMA CloseOneEvents ==
    ASSUME Types, PointsOK, EventsOK, NEW j \in Jobs, CloseOne(j)
    PROVE  EventsOK'
<1> DEFINE k == todo[j][1][1]
           g == req[j].goal
           new == Event(j, k, g, "outcome_closed")
<1>1. /\ Alone(j) /\ UNCHANGED <<pc, req>>
      /\ pc[j] = "close" /\ todo[j] # <<>> /\ todo'[j] = Tail(todo[j])
      /\ Record(j, k, g, "outcome_closed")
      /\ req[j].op = "close"
  BY StepsAlone DEF Do, CloseOne, Types, asks, PointsOK
<1>2. ClosingsOK(j) /\ closed[j] \cap already[j] = {}
  BY <1>1 DEF EventsOK
<1>3. k \notin closed[j] \cup already[j] /\ Retrieved(k, g)
  BY <1>1, <1>2, FirstOf DEF ClosingsOK
<1>4. \A i \in DOMAIN todo'[j] : /\ i + 1 \in DOMAIN todo[j]
                                /\ todo'[j][i] = todo[j][i + 1]
                                /\ todo'[j][i][1] # k
  <2>1. \A i \in DOMAIN todo'[j] : /\ i + 1 \in DOMAIN todo[j] /\ i + 1 # 1
                                  /\ todo'[j][i] = todo[j][i + 1]
    BY <1>1, FirstOf
  <2>2. 1 \in DOMAIN todo[j]
    BY <1>1, FirstOf
  <2> QED
    BY <1>2, <2>1, <2>2 DEF ClosingsOK
<1>5. \A h, i \in DOMAIN todo'[j] : h # i => h + 1 # i + 1
  BY <1>1, FirstOf
<1>6. new.skill = k /\ new.goal = g /\ new.stage = "outcome_closed" /\ new.by = j
  BY DEF Event
<1>7. /\ events \subseteq events' /\ IsFiniteSet(events')
      /\ \A e \in events' : e \in events \/ e = new
      /\ \A d, e \in events' :
           d.skill = e.skill /\ d.goal = e.goal /\ d.stage = e.stage => d = e
  BY <1>1, Recording
<1>8. \/ /\ ClosingIn(events, k, g) = {} /\ events' = events \cup {new}
         /\ closed'[j] = closed[j] \cup {k} /\ already'[j] = already[j]
      \/ /\ ClosingIn(events, k, g) # {} /\ events' = events
         /\ already'[j] = already[j] \cup {k} /\ closed'[j] = closed[j]
  BY DEF CloseOne, Record, Recorded, ClosingIn, Types
<1> HIDE DEF k, g, new
<1>9. /\ closed'[j] \cap already'[j] = {}
      /\ closed'[j] \cup already'[j] = closed[j] \cup already[j] \cup {k}
      /\ closed[j] \subseteq closed'[j]
  BY <1>2, <1>3, <1>8
<1>10. ClosingsOK(j)'
  <2>1. \A i \in DOMAIN todo'[j] :
          /\ todo'[j][i][2] = req'[j].goal
          /\ todo'[j][i][1] \notin closed'[j] \cup already'[j]
          /\ Retrieved(todo[j][i + 1][1], req[j].goal)
    BY <1>1, <1>2, <1>4, <1>9 DEF ClosingsOK
  <2>2. \A h, i \in DOMAIN todo'[j] : h # i => todo'[j][h][1] # todo'[j][i][1]
    BY <1>2, <1>4, <1>5 DEF ClosingsOK
  <2>3. \A i \in DOMAIN todo'[j] : \E d \in events' :
          /\ d.skill = todo'[j][i][1] /\ d.goal = req'[j].goal
          /\ d.stage \in {"matched", "surfaced"}
    BY <1>1, <1>4, <1>7, <2>1 DEF Retrieved
  <2> QED
    BY <2>1, <2>2, <2>3 DEF ClosingsOK, Retrieved
<1>11. \A i \in Jobs : JobEventsOK(i)'
  <2>1. JobEventsOK(j)'
    BY <1>1, <1>9, <1>10 DEF JobEventsOK
  <2> QED
    BY <1>1, <1>7, <2>1, OthersStay
<1>12. \A e \in events' : e.stage = "outcome_closed" =>
          req'[e.by].op = "close" /\ req'[e.by].goal = e.goal /\ e.skill \in closed'[e.by]
  <2> SUFFICES ASSUME NEW e \in events', e.stage = "outcome_closed"
               PROVE  req[e.by].op = "close" /\ req[e.by].goal = e.goal /\ e.skill \in closed'[e.by]
    BY <1>1
  <2>1. CASE e \in events
    <3>1. /\ req[e.by].op = "close" /\ req[e.by].goal = e.goal
          /\ e.skill \in closed[e.by] /\ e.by \in Jobs
      BY <2>1 DEF EventsOK, Types, EventSet
    <3>2. closed[e.by] \subseteq closed'[e.by]
      BY <1>1, <1>9, <3>1 DEF Alone
    <3> QED
      BY <3>1, <3>2
  <2>2. CASE e \notin events
    BY <1>1, <1>6, <1>7, <1>8, <2>2 DEF g
  <2> QED
    BY <2>1, <2>2
<1>13. StagesInOrder'
  <2> SUFFICES ASSUME NEW e \in events'
               PROVE  /\ e.stage = "acted_upon" => Recorded(e.skill, e.goal, "surfaced")' # {}
                      /\ e.stage = "outcome_closed" => Retrieved(e.skill, e.goal)'
    BY DEF StagesInOrder, Retrieved
  <2>1. CASE e \in events
    <3>1. /\ e.stage = "acted_upon" => Recorded(e.skill, e.goal, "surfaced") # {}
          /\ e.stage = "outcome_closed" => Retrieved(e.skill, e.goal)
      BY <2>1 DEF EventsOK, StagesInOrder, Retrieved
    <3> QED
      BY <1>7, <3>1, Stays
  <2>2. CASE e = new
    BY <1>3, <1>6, <1>7, <2>2, Stays
  <2> QED
    BY <1>7, <2>1, <2>2
<1>14. \A i \in Jobs : Answered(events', closed', already', i)
  <2> SUFFICES ASSUME NEW i \in Jobs, req[i].op = "close"
               PROVE  /\ \A l \in closed'[i] : ClosingIn(events', l, req[i].goal) =
                                            {Event(i, l, req[i].goal, "outcome_closed")}
                      /\ \A l \in already'[i] :
                           \E e \in ClosingIn(events', l, req[i].goal) : e.by # i
    BY DEF Answered
  <2>1. /\ \A l \in closed[i] : ClosingIn(events, l, req[i].goal) =
                               {Event(i, l, req[i].goal, "outcome_closed")}
        /\ \A l \in already[i] : \E e \in ClosingIn(events, l, req[i].goal) : e.by # i
    BY AnswersAre DEF EventsOK, Answered
  <2>2. \A l, a : ClosingIn(events, l, a) # {} => ClosingIn(events', l, a) = ClosingIn(events, l, a)
    BY <1>6, <1>8 DEF ClosingIn
  <2>3. \A l \in closed[i] : ClosingIn(events', l, req[i].goal) =
                               {Event(i, l, req[i].goal, "outcome_closed")}
    BY <2>1, <2>2
  <2>4. \A l \in already[i] : \E e \in ClosingIn(events', l, req[i].goal) : e.by # i
    BY <2>1, <2>2
  <2>5. CASE i # j
    BY <1>1, <2>3, <2>4, <2>5 DEF Alone
  <2>6. CASE i = j /\ ClosingIn(events, k, g) = {}
    <3>1. ClosingIn(events', k, g) = {new}
      BY <1>6, <1>8, <2>6 DEF ClosingIn
    <3> QED
      BY <1>8, <2>3, <2>4, <2>6, <3>1 DEF g, new
  <2>7. CASE i = j /\ ClosingIn(events, k, g) # {}
    <3>1. PICK e \in ClosingIn(events, k, g) : TRUE
      BY <2>7
    <3>2. e.by # j
      BY <1>3, <3>1 DEF EventsOK, ClosingIn
    <3>3. \E d \in ClosingIn(events', k, g) : d.by # j
      BY <2>2, <2>7, <3>1, <3>2
    <3> QED
      BY <1>8, <2>3, <2>4, <2>7, <3>3 DEF g
  <2> QED
    BY <2>5, <2>6, <2>7
<1>15. CloseAnswersTrue'
  BY <1>1, <1>14, AnswersAreNext
<1> QED
  BY <1>7, <1>11, <1>12, <1>13, <1>15 DEF EventsOK, JobEventsOK

LEMMA EventsStep ==
    ASSUME IInv, [Next]_vars
    PROVE  EventsOK'
<1>1. ASSUME NEW j \in Jobs, Do(j) PROVE EventsOK'
  <2>1. Alone(j) /\ Types /\ PointsOK /\ EventsOK
    BY <1>1, StepsAlone DEF IInv
  <2>2. CASE Scan(j) \/ NoteEvent(j) \/ Link(j) \/ Close(j) \/ CloseOne(j)
    BY <2>1, <2>2, ScanEvents, NoteEvents, LinkEvents, CloseEvents, CloseOneEvents
  <2>3. CASE ~(Scan(j) \/ NoteEvent(j) \/ Link(j) \/ Close(j) \/ CloseOne(j))
    <3>1. /\ UNCHANGED <<events, closed, already>>
          /\ pc'[j] \notin {"idle", "events", "close"}
      <4> USE <2>1 DEF Types, Goto, Finish, store, notes
      <4>1. CASE ReadSkill(j) \/ ReadForBump(j)
        BY <4>1 DEF ReadSkill, ReadForBump
      <4>2. CASE ReplaceSkill(j) \/ AppendSkill(j)
        BY <4>2 DEF ReplaceSkill, AppendSkill
      <4>3. CASE Register(j) \/ Linked(j) \/ CountOutcome(j)
        BY <4>3 DEF Register, Linked, CountOutcome
      <4>4. CASE StartLedger(j) \/ ReadRollup(j) \/ WriteRollup(j) \/ Fail(j)
        BY <4>4 DEF StartLedger, ReadRollup, WriteRollup, Fail
      <4> QED
        BY <1>1, <2>3, <4>1, <4>2, <4>3, <4>4 DEF Do
    <3> QED
      BY <2>1, <3>1, EventsKept
  <2> QED
    BY <2>2, <2>3
<1>2. CASE TimePasses
  BY <1>2, EventsStand DEF TimePasses, IInv, store, notes
<1>3. CASE UNCHANGED vars
  BY <1>3, EventsStand DEF vars, IInv
<1> QED
  BY <1>1, <1>2, <1>3 DEF Next, Do

-----------------------------------------------------------------------------
(* The rollup counts no more than was closed.                               *)

LEMMA WroteIs ==
    ASSUME NEW o
    PROVE  /\ IsFiniteSet(Wrote(o)) /\ Cardinality(Wrote(o)) \in Nat
           /\ IsFiniteSet(Wrote(o)') /\ Cardinality(Wrote(o)') \in Nat
<1>1. Wrote(o) \subseteq Jobs /\ Wrote(o)' \subseteq Jobs
  BY DEF Wrote
<1>2. IsFiniteSet(Jobs)
  BY WorkloadsAssumption
<1>3. IsFiniteSet(Wrote(o)) /\ IsFiniteSet(Wrote(o)')
  BY <1>1, <1>2, FS_Subset
<1> QED
  BY <1>3, FS_CardinalityType

\* A job that is done stays done.
LEMMA WroteGrows ==
    ASSUME Types, NEW j \in Jobs, Do(j), NEW o
    PROVE  /\ Wrote(o) \subseteq Wrote(o)'
           /\ Cardinality(Wrote(o)) <= Cardinality(Wrote(o)')
<1>1. Alone(j)
  BY StepsAlone
<1>2. pc[j] # "done"
  <2>1. ~(ReadSkill(j) \/ ReadForBump(j) \/ ReplaceSkill(j) \/ AppendSkill(j)) \/ pc[j] # "done"
    BY DEF ReadSkill, ReadForBump, ReplaceSkill, AppendSkill
  <2>2. ~(Scan(j) \/ NoteEvent(j) \/ Register(j) \/ Link(j) \/ Linked(j)) \/ pc[j] # "done"
    BY DEF Scan, NoteEvent, Register, Link, Linked
  <2>3. ~(Close(j) \/ CloseOne(j) \/ CountOutcome(j) \/ Fail(j)) \/ pc[j] # "done"
    BY DEF Close, CloseOne, CountOutcome, Fail
  <2>4. ~(StartLedger(j) \/ ReadRollup(j) \/ WriteRollup(j)) \/ pc[j] # "done"
    BY DEF StartLedger, ReadRollup, WriteRollup
  <2> QED
    BY <2>1, <2>2, <2>3, <2>4 DEF Do
<1>3. Wrote(o) \subseteq Wrote(o)'
  BY <1>1, <1>2 DEF Wrote, Alone
<1> QED
  BY <1>3, WroteIs, FS_Subset

JobRollupOK(j) ==
    /\ pc[j] \in {"rollread", "rollwrite"} /\ req[j].op = "close" => closed[j] # {}
    /\ pc[j] = "rollwrite" =>
         \A o \in Outcomes :
           sums[j][o] <= Cardinality(Wrote(o)) + (IF Counter(j) = o THEN 1 ELSE 0)

\* The others' drafts of the rollup stay as modest.
LEMMA DraftsKept ==
    ASSUME Types, RollupOK, NEW j \in Jobs, Do(j)
    PROVE  \A i \in Jobs : i # j => JobRollupOK(i)'
<1> SUFFICES ASSUME NEW i \in Jobs, i # j PROVE JobRollupOK(i)'
  OBVIOUS
<1>1. /\ req' = req /\ pc'[i] = pc[i] /\ sums'[i] = sums[i] /\ closed'[i] = closed[i]
  BY StepsAlone DEF Alone
<1>2. pc[i] = "rollwrite" => \A o \in Outcomes :
        sums[i][o] <= Cardinality(Wrote(o)') + (IF Counter(i) = o THEN 1 ELSE 0)
  <2> SUFFICES ASSUME pc[i] = "rollwrite", NEW o \in Outcomes
               PROVE  sums[i][o] <= Cardinality(Wrote(o)') + (IF Counter(i) = o THEN 1 ELSE 0)
    OBVIOUS
  <2>1. sums[i][o] <= Cardinality(Wrote(o)) + (IF Counter(i) = o THEN 1 ELSE 0)
    BY DEF RollupOK
  <2>2. Cardinality(Wrote(o)) <= Cardinality(Wrote(o)')
    BY WroteGrows
  <2>3. sums[i][o] \in Nat
    BY DEF Types, Sums
  <2>4. Cardinality(Wrote(o)) \in Nat /\ Cardinality(Wrote(o)') \in Nat
    BY WroteIs
  <2> QED
    BY <2>1, <2>2, <2>3, <2>4
<1>3. Counter(i)' = Counter(i)
  BY <1>1 DEF Counter
<1>4. pc[i] \in {"rollread", "rollwrite"} /\ req[i].op = "close" => closed[i] # {}
  BY DEF RollupOK
<1> QED
  BY <1>1, <1>2, <1>3, <1>4 DEF JobRollupOK

\* While the rollup stands, it counts no more than before.
LEMMA RollupStands ==
    ASSUME Types, RollupOK, NEW j \in Jobs, Do(j), UNCHANGED rollup, JobRollupOK(j)'
    PROVE  RollupOK'
<1>1. \A o \in Outcomes : rollup[o] <= Cardinality(Wrote(o)')
  <2> TAKE o \in Outcomes
  <2>1. rollup[o] <= Cardinality(Wrote(o)) /\ rollup[o] \in Nat
    BY DEF RollupOK, Types, Sums
  <2> QED
    BY <2>1, WroteGrows, WroteIs
<1>2. \A i \in Jobs : JobRollupOK(i)'
  BY DraftsKept
<1> QED
  BY <1>1, <1>2 DEF RollupOK, JobRollupOK

LEMMA RollupStep ==
    ASSUME IInv, [Next]_vars
    PROVE  RollupOK'
<1>1. ASSUME NEW j \in Jobs, Do(j) PROVE RollupOK'
  <2>1. Alone(j) /\ Types /\ PointsOK /\ RollupOK
    BY <1>1, StepsAlone DEF IInv
  <2>2. CASE ReadRollup(j)
    <3>1. /\ UNCHANGED <<rollup, closed, req>> /\ pc[j] = "rollread" /\ pc'[j] = "rollwrite"
          /\ sums'[j] = [rollup EXCEPT ![Counter(j)] = @ + 1]
      BY <2>1, <2>2 DEF ReadRollup, Goto, Types, store, asks
    <3>2. \A o \in Outcomes :
            sums'[j][o] <= Cardinality(Wrote(o)') + (IF Counter(j)' = o THEN 1 ELSE 0)
      <4> TAKE o \in Outcomes
      <4>1. rollup[o] <= Cardinality(Wrote(o)) /\ rollup[o] \in Nat
        BY <2>1 DEF RollupOK, Types, Sums
      <4>2. sums'[j][o] = rollup[o] + (IF Counter(j) = o THEN 1 ELSE 0)
        BY <2>1, <3>1, <4>1 DEF Types, Sums
      <4>3. Counter(j)' = Counter(j)
        BY <3>1 DEF Counter
      <4>4. Cardinality(Wrote(o)) <= Cardinality(Wrote(o)')
        BY <1>1, <2>1, WroteGrows
      <4>5. Cardinality(Wrote(o)) \in Nat /\ Cardinality(Wrote(o)') \in Nat
        BY WroteIs
      <4> QED
        BY <4>1, <4>2, <4>3, <4>4, <4>5
    <3>3. JobRollupOK(j)'
      BY <2>1, <3>1, <3>2 DEF RollupOK, JobRollupOK
    <3> QED
      BY <1>1, <2>1, <3>1, <3>3, RollupStands
  <2>3. CASE WriteRollup(j)
    <3>1. /\ UNCHANGED <<closed, req>> /\ pc[j] = "rollwrite" /\ pc'[j] = "done"
          /\ rollup' = sums[j] \/ UNCHANGED rollup
      BY <2>1, <2>3 DEF WriteRollup, Finish, Goto, Types, asks
    <3>2. JobRollupOK(j)'
      BY <3>1 DEF JobRollupOK
    <3>3. CASE UNCHANGED rollup
      BY <1>1, <2>1, <3>2, <3>3, RollupStands
    <3>4. CASE rollup' = sums[j]
      <4>1. ASSUME NEW o \in Outcomes PROVE sums[j][o] <= Cardinality(Wrote(o)')
        <5>1. sums[j][o] <= Cardinality(Wrote(o)) + (IF Counter(j) = o THEN 1 ELSE 0)
          BY <2>1, <3>1 DEF RollupOK
        <5>2. sums[j][o] \in Nat
          BY <2>1 DEF Types, Sums
        <5>3. CASE Counter(j) # o
          BY <1>1, <2>1, <5>1, <5>2, <5>3, WroteGrows, WroteIs
        <5>4. CASE Counter(j) = o
          <6>1. req[j].op = "close" /\ req[j].outcome = o
            BY <2>1, <3>1, <5>4, CounterIs
          <6>2. closed[j] # {}
            BY <2>1, <3>1, <6>1 DEF RollupOK
          <6>3. j \notin Wrote(o) /\ j \in Wrote(o)'
            BY <3>1, <6>1, <6>2 DEF Wrote
          <6>4. Wrote(o) \cup {j} \subseteq Wrote(o)'
            BY <1>1, <2>1, <6>3, WroteGrows
          <6>5. IsFiniteSet(Wrote(o)) /\ IsFiniteSet(Wrote(o)')
            BY WroteIs
          <6>6. Cardinality(Wrote(o) \cup {j}) <= Cardinality(Wrote(o)')
            BY <6>4, <6>5, FS_Subset
          <6>7. Cardinality(Wrote(o) \cup {j}) = Cardinality(Wrote(o)) + 1
            BY <6>3, <6>5, FS_AddElement
          <6> QED
            BY <5>1, <5>2, <5>4, <6>6, <6>7, WroteIs
        <5> QED
          BY <5>3, <5>4
      <4>2. \A i \in Jobs : JobRollupOK(i)'
        BY <1>1, <2>1, <3>2, DraftsKept
      <4> QED
        BY <3>4, <4>1, <4>2 DEF RollupOK, JobRollupOK
    <3> QED
      BY <3>1, <3>3, <3>4
  <2>4. CASE ~(ReadRollup(j) \/ WriteRollup(j))
    <3>1. /\ UNCHANGED rollup /\ pc'[j] # "rollwrite"
          /\ pc'[j] = "rollread" /\ req'[j].op = "close" => closed'[j] # {}
      <4> USE <2>1 DEF Types, Goto, Finish, store, notes
      <4>1. CASE ReadSkill(j) \/ ReadForBump(j)
        BY <4>1 DEF ReadSkill, ReadForBump
      <4>2. CASE ReplaceSkill(j) \/ AppendSkill(j)
        BY <4>2 DEF ReplaceSkill, AppendSkill
      <4>3. CASE Scan(j)
        BY <4>3 DEF Scan
      <4>4. CASE NoteEvent(j)
        BY <4>4 DEF NoteEvent
      <4>5. CASE Register(j) \/ Link(j) \/ Linked(j) \/ StartLedger(j)
        BY <4>5 DEF Register, Link, Linked, StartLedger, Alone
      <4>6. CASE Close(j) \/ CloseOne(j) \/ Fail(j)
        BY <4>6 DEF Close, CloseOne, Fail
      <4>7. CASE CountOutcome(j)
        BY <4>7 DEF CountOutcome, Counts
      <4> QED
        BY <1>1, <2>4, <4>1, <4>2, <4>3, <4>4, <4>5, <4>6, <4>7 DEF Do
    <3>2. JobRollupOK(j)'
      BY <3>1 DEF JobRollupOK
    <3> QED
      BY <1>1, <2>1, <3>1, <3>2, RollupStands
  <2> QED
    BY <2>2, <2>3, <2>4
<1>2. CASE TimePasses
  BY <1>2 DEF TimePasses, IInv, RollupOK, Wrote, Counter, store, notes
<1>3. CASE UNCHANGED vars
  BY <1>3 DEF vars, IInv, RollupOK, Wrote, Counter
<1> QED
  BY <1>1, <1>2, <1>3 DEF Next, Do

-----------------------------------------------------------------------------
(* The match log says what a caller said.                                   *)

\* Whoever closed the skill's outcome said what stands.
LEMMA CloserStands ==
    ASSUME CloseAnswersTrue, NEW j \in Jobs, req[j].op = "close", NEW k \in closed[j]
    PROVE  \A e \in Closing(k, req[j].goal) : e.outcome = req[j].outcome
BY DEF CloseAnswersTrue, Event

LEMMA JudgedIs ==
    ASSUME CloseAnswersTrue,
           JudgedOK
    PROVE  JudgedByACaller
<1> SUFFICES ASSUME NEW m \in matchlog, m.acted # "null"
             PROVE  \E j \in Jobs :
                      /\ req[j].op = "close" /\ req[j].goal = m.goal
                      /\ (req[j].outcome = "followed") = (m.acted = "yes")
                      /\ pc[j] \in {"rollread", "rollwrite", "done"}
                      /\ \A e \in Closing(m.skill, m.goal) :
                           e.outcome # req[j].outcome => m.skill \notin closed[j]
  BY DEF JudgedByACaller
<1>1. PICK j \in Jobs : Sayer(j, m)
  BY DEF JudgedOK
<1>2. \A e \in Closing(m.skill, m.goal) :
        e.outcome # req[j].outcome => m.skill \notin closed[j]
  BY <1>1, CloserStands DEF Sayer
<1> QED
  BY <1>1, <1>2 DEF Sayer

LEMMA JudgedStep ==
    ASSUME IInv, [Next]_vars
    PROVE  JudgedOK'
<1>1. \A m \in matchlog : m.acted # "null" => \E j \in Jobs : Sayer(j, m)
  BY DEF IInv, JudgedOK
<1>2. ASSUME NEW j \in Jobs, Do(j)
      PROVE  \A m \in matchlog' : m.acted # "null" => \E i \in Jobs : Sayer(i, m)'
  <2>1. Alone(j) /\ Types /\ PointsOK
    BY <1>2, StepsAlone DEF IInv
  <2>2. \A i \in Jobs : \A m : Sayer(i, m) => Sayer(i, m)'
    <3>1. pc[j] \in {"rollread", "rollwrite", "done"} => pc'[j] \in {"rollread", "rollwrite", "done"}
      <4> USE <2>1 DEF Types, Goto, Finish
      <4>1. CASE ReadSkill(j) \/ ReadForBump(j) \/ ReplaceSkill(j) \/ AppendSkill(j)
        BY <4>1 DEF ReadSkill, ReadForBump, ReplaceSkill, AppendSkill
      <4>2. CASE Scan(j) \/ NoteEvent(j)
        BY <4>2 DEF Scan, NoteEvent
      <4>3. CASE Register(j) \/ Link(j) \/ Linked(j) \/ StartLedger(j)
        BY <4>3 DEF Register, Link, Linked, StartLedger
      <4>4. CASE Close(j) \/ CloseOne(j) \/ CountOutcome(j)
        BY <4>4 DEF Close, CloseOne, CountOutcome
      <4>5. CASE ReadRollup(j) \/ WriteRollup(j) \/ Fail(j)
        BY <4>5 DEF ReadRollup, WriteRollup, Fail
      <4> QED
        BY <1>2, <4>1, <4>2, <4>3, <4>4, <4>5 DEF Do
    <3> QED
      BY <2>1, <3>1 DEF Sayer, Alone
  <2>3. CASE CountOutcome(j)
    <3>1. /\ matchlog' = Judged(j) \/ UNCHANGED matchlog
          /\ req[j].op = "close" /\ req' = req
          /\ pc'[j] \in {"rollread", "done"}
      BY <2>1, <2>3 DEF CountOutcome, PointsOK, Goto, Finish, Types, asks
    <3>2. CASE UNCHANGED matchlog
      BY <1>1, <2>2, <3>2
    <3>3. CASE matchlog' = Judged(j)
      <4> SUFFICES ASSUME NEW m \in matchlog', m.acted # "null"
                   PROVE  \E i \in Jobs : Sayer(i, m)'
        OBVIOUS
      <4>1. PICK old \in matchlog :
              m = IF old.goal = req[j].goal THEN [old EXCEPT !.acted = Answer(j)] ELSE old
        BY <3>3 DEF Judged
      <4>2. CASE old.goal = req[j].goal
        <5>1. m.goal = req[j].goal /\ m.acted = Answer(j)
          BY <2>1, <4>1, <4>2 DEF Types, Matches
        <5>2. (req[j].outcome = "followed") = (Answer(j) = "yes")
          BY DEF Answer
        <5>3. Sayer(j, m)'
          BY <3>1, <5>1, <5>2 DEF Sayer
        <5> QED
          BY <5>3
      <4>3. CASE old.goal # req[j].goal
        BY <1>1, <2>2, <4>1, <4>3
      <4> QED
        BY <4>2, <4>3
    <3> QED
      BY <3>1, <3>2, <3>3
  <2>4. CASE Scan(j)
    <3>1. \A m \in matchlog' : m \in matchlog \/ m.acted = "null"
      BY <2>4 DEF Scan, Candidates
    <3> QED
      BY <1>1, <2>2, <3>1
  <2>5. CASE ~(CountOutcome(j) \/ Scan(j))
    <3>1. UNCHANGED matchlog
      BY <1>2, <2>5 DEF Do, ReadSkill, ReadForBump, ReplaceSkill, AppendSkill, NoteEvent,
         Register, Link, Linked, Close, CloseOne, StartLedger, ReadRollup, WriteRollup, Fail,
         store
    <3> QED
      BY <1>1, <2>2, <3>1
  <2> QED
    BY <2>3, <2>4, <2>5
<1>3. CASE TimePasses \/ UNCHANGED vars
  <2>1. UNCHANGED <<matchlog, req, pc>>
    BY <1>3 DEF TimePasses, vars, store
  <2> QED
    BY <1>1, <2>1 DEF JudgedOK, Sayer
<1>4. ASSUME NEW j \in Jobs, Do(j) PROVE JudgedOK'
  <2>1. \A m \in matchlog' : m.acted # "null" => \E i \in Jobs : Sayer(i, m)'
    BY <1>2, <1>4
  <2> QED
    BY <2>1 DEF JudgedOK
<1> QED
  BY <1>3, <1>4 DEF Next, Do

-----------------------------------------------------------------------------
LEMMA InitInv ==
    ASSUME Init
    PROVE  IInv
<1> USE DEF Init
<1>1. /\ Blank \in Revision /\ Signed(Blank, req) /\ Published \in Revision /\ Signed(Published, req)
      /\ Blank.text = 0 /\ Published.text = 0
  <2>1. 0 \in -1..MaxNow /\ -1 \in -1..MaxNow
    BY WorkloadsAssumption
  <2>2. Blank \in Revision /\ Signed(Blank, req) /\ Blank.text = 0
    BY <2>1 DEF Blank, Revision, Signed
  <2>3. Published \in Revision
    BY <2>1, <2>2 DEF Published, Revision, Named
  <2>4. Published.trigger = TRUE /\ Published.author = "human" /\ Published.text = 0
    BY <2>2 DEF Published, Revision
  <2> QED
    BY <2>2, <2>3, <2>4 DEF Signed
<1>2. PICK P \in SUBSET Skills : skill = [k \in Skills |-> IF k \in P THEN Published ELSE Blank]
  OBVIOUS
<1>3. \A k \in Skills : skill[k] \in Revision /\ Signed(skill[k], req) /\ skill[k].text = 0
  BY <1>1, <1>2
<1>4. <<>> \in Seq(Items) /\ NoSums \in Sums
  BY EmptySeq DEF NoSums, Sums
<1>5. Types
  BY <1>1, <1>2, <1>3, <1>4, WorkloadsAssumption DEF Types, Points, Sums, Replies
<1>6. PointsOK
  BY DEF PointsOK
<1>7. SkillsOK
  BY <1>3 DEF SkillsOK, SkillIsAsAuthored
<1>8. EventsOK
  BY FS_EmptySet DEF EventsOK, StagesInOrder, CloseAnswersTrue
<1>9. RollupOK
  <2>1. \A o \in Outcomes : rollup[o] = 0
    BY DEF NoSums
  <2> QED
    BY <2>1, WroteIs DEF RollupOK
<1>10. JudgedOK
  BY DEF JudgedOK
<1> QED
  BY <1>5, <1>6, <1>7, <1>8, <1>9, <1>10 DEF IInv

\* Skills, events, rollup and match log agree with the jobs that write them.
THEOREM InvariantHolds == Spec => []IInv
<1>1. IInv /\ [Next]_vars => IInv'
  <2> SUFFICES ASSUME IInv, [Next]_vars PROVE IInv'
    OBVIOUS
  <2> QED
    BY TypesStep, PointsStep, SkillsStep, EventsStep, RollupStep, JudgedStep DEF IInv
<1> QED
  BY <1>1, InitInv, PTL DEF Spec

\* Types; where skill_define wrote a skill, a trigger has an author and an author a
\* trigger; nobody both closed and came late.
THEOREM TypeCorrect == Spec => []TypeOK
<1>1. IInv => TypeOK
  <2> SUFFICES ASSUME IInv PROVE TypeOK
    OBVIOUS
  <2> USE DEF IInv, Types
  <2>1. \A k \in Skills : /\ {skill[k], authored[k]} \subseteq Revision
                         /\ skill[k].text # 0 /\ req[skill[k].text].op = "define" =>
                              (skill[k].trigger <=> skill[k].author # "none")
    BY DEF Signed
  <2>2. \A j \in Jobs : /\ {draft[j], basis[j]} \subseteq Revision
                       /\ closed[j] \cap already[j] = {}
                       /\ ack[j] \in {"none", "ok", "unavailable"}
    BY DEF EventsOK, Replies
  <2> QED
    BY <2>1, <2>2 DEF TypeOK, EventSet, Matches, Sums
<1> QED
  BY <1>1, InvariantHolds, PTL

\* However bump_skill_efficacy's copies race with skill_define, memory_save and
\* memory_delete and with each other, a skill says what one author's request said,
\* as a whole; one that was not overtaken leaves what the last author left.
THEOREM SkillsAreAsAuthored == Spec => []SkillIsAsAuthored
<1>1. IInv => SkillIsAsAuthored
  BY DEF IInv, SkillsOK
<1> QED
  BY <1>1, InvariantHolds, PTL

\* gate_close_outcome tells each caller the truth about who closed.
THEOREM ClosersAreToldTheTruth == Spec => []CloseAnswersTrue
<1>1. IInv => CloseAnswersTrue
  BY DEF IInv, EventsOK
<1> QED
  BY <1>1, InvariantHolds, PTL

\* Nothing is acted upon that was not surfaced, nor closed that was not found.
THEOREM StagesAreInOrder == Spec => []StagesInOrder
<1>1. IInv => StagesInOrder
  BY DEF IInv, EventsOK
<1> QED
  BY <1>1, InvariantHolds, PTL

\* The rollup's read-modify-write may lose an outcome, and never invents one.
THEOREM RollupIsModest == Spec => []OutcomesNotInflated
<1>1. IInv => OutcomesNotInflated
  <2> SUFFICES ASSUME IInv, NEW o \in Outcomes
               PROVE  rollup[o] <= Cardinality({e \in events : e.outcome = o})
    BY DEF OutcomesNotInflated
  <2> DEFINE E == {e \in events : e.outcome = o}
             B == {j \in Jobs : \E e \in E : e.by = j}
             f == [e \in E |-> e.by]
  <2>1. IsFiniteSet(E)
    BY FS_Subset DEF IInv, EventsOK
  <2>2. Wrote(o) \subseteq B
    <3> SUFFICES ASSUME NEW j \in Wrote(o) PROVE \E e \in E : e.by = j
      BY DEF Wrote
    <3>1. req[j].op = "close" /\ req[j].outcome = o /\ j \in Jobs
      BY DEF Wrote
    <3>2. PICK k \in closed[j] : TRUE
      BY DEF Wrote
    <3>3. Event(j, k, req[j].goal, "outcome_closed") \in events
      BY <3>1, <3>2 DEF IInv, EventsOK, CloseAnswersTrue, Closing, Recorded
    <3> QED
      BY <3>1, <3>3 DEF Event
  <2>3. f \in Surjection(E, B)
    <3>1. \A e \in E : e.by \in B
      BY DEF IInv, Types, EventSet
    <3> QED
      BY <3>1 DEF Surjection
  <2>4. IsFiniteSet(B) /\ Cardinality(B) <= Cardinality(E)
    BY <2>1, <2>3, FS_Surjection
  <2>5. Cardinality(Wrote(o)) <= Cardinality(B)
    BY <2>2, <2>4, FS_Subset
  <2>6. /\ Cardinality(Wrote(o)) \in Nat /\ Cardinality(B) \in Nat
        /\ Cardinality(E) \in Nat
    BY <2>1, <2>4, WroteIs, FS_CardinalityType
  <2>7. rollup[o] <= Cardinality(Wrote(o)) /\ rollup[o] \in Nat
    BY DEF IInv, RollupOK, Types, Sums
  <2> HIDE DEF E, B, f
  <2>8. rollup[o] <= Cardinality(E)
    BY <2>4, <2>5, <2>6, <2>7
  <2> QED
    BY <2>8 DEF E
<1> QED
  BY <1>1, InvariantHolds, PTL

\* What the match log says of an intent, a caller of gate_close_outcome said.
THEOREM JudgementsHaveACaller == Spec => []JudgedByACaller
<1>1. IInv => JudgedByACaller
  BY JudgedIs DEF IInv, EventsOK
<1> QED
  BY <1>1, InvariantHolds, PTL
=============================================================================
