-------------------------------- MODULE Skills --------------------------------
(***************************************************************************)
(* The gate's skills and its record of how well they serve: skill_define,    *)
(* the counters the gate bumps on a skill, intent_open's surfacing and        *)
(* escalation, the efficacy events, gate_close_outcome, and the monthly       *)
(* rollup.                                                                  *)
(*                                                                          *)
(* Skills and rollup are memory entries, read in one await and appended in    *)
(* another; an append is one step, as AppendLog shows it to be.  A job is a   *)
(* call, or the gate's bookkeeping for one.                                  *)
(***************************************************************************)
EXTENDS Integers, Sequences, SequencesExt, FiniteSets

CONSTANTS
    Skills,
    Goals,        \* intents, by their hash
    Prohibited,   \* the goals that satisfy a skill's trigger predicate
    Jobs,
    Workloads,    \* which job does what: a set of functions
    AnySkill,     \* gate_close_outcome without a skill_key
    NoGoal,
    MaxNow        \* bound: times a skill's validity window passes

Outcomes == {"followed", "overridden", "abandoned"}   \* CLOSURE_OUTCOMES
Stages == {"matched", "surfaced", "acted_upon", "outcome_closed"}
Named == {"human", "curator"}
Ops == {"define", "save", "delete", "bump", "ledger", "intent", "write", "close"}

\* What a memory_save or memory_delete of a skill's key may say in its meta.  Its
\* trigger is the caller's own word: nothing validates it.  One that the gate
\* could not evaluate counts as none.
Metas == [antipattern : BOOLEAN, trigger : BOOLEAN,
          author : Named \cup {"unvalidated", "none"},
          provenance : BOOLEAN, at : -1..MaxNow, count : Nat]

\* The arguments of a call.
WellFormed(q) ==
    /\ q.op \in Ops
    /\ q.op \in {"define", "save", "delete", "bump"} => q.skill \in Skills
    /\ q.op = "define" => /\ q.trigger \in {"valid", "invalid"}
                          /\ q.author \in Named \cup {"unvalidated"}
                          /\ q.antipattern \in BOOLEAN
    /\ q.op \in {"save", "delete"} => q.meta \in Metas
    /\ q.op \in {"intent", "close"} => q.goal \in Goals
    /\ q.op = "close" => q.outcome \in Outcomes

ASSUME WorkloadsAssumption ==
    /\ Prohibited \subseteq Goals /\ NoGoal \notin Goals /\ AnySkill \notin Skills
    /\ IsFiniteSet(Skills) /\ IsFiniteSet(Jobs)
    /\ MaxNow \in Nat
    /\ 0 \notin Jobs
    /\ \A w \in Workloads : \A j \in Jobs : WellFormed(w[j])

VARIABLES
    skill,     \* key -> its latest revision
    authored,  \* ghost: key -> its latest revision that is no counter bump
    events,    \* skill_efficacy_events
    matchlog,  \* gate_match_log: what intents retrieved, and the backfilled answer
    rollup,    \* gate/efficacy/<yyyymm>: counter -> value
    newest,    \* the session's newest intent
    now,
    req,       \* job -> what it does
    pc,        \* job -> control point
    draft,     \* job -> the skill revision it will append
    sums,      \* job -> the rollup it will append
    todo,      \* job -> the events it has yet to record, in order
    closed,    \* job -> skills whose outcome it closed
    already,   \* job -> skills it found closed
    basis,     \* job -> the skill revision its intent conflicted with
    ack        \* job -> its answer

vars == <<skill, authored, events, matchlog, rollup, newest, now, req, pc,
          draft, sums, todo, closed, already, basis, ack>>
store == <<skill, authored, events, matchlog, rollup, newest>>
asks == <<now, req>>
notes == <<draft, sums, todo, closed, already, basis>>

-----------------------------------------------------------------------------
(* Skills.                                                                  *)

\* A revision of a skill.  `at` is when a named author last validated it, -1
\* for never; `text` (a ghost) the job that wrote its value.  A revision that
\* was overtaken between its read and its append is `raced` (a ghost), and so
\* is a counter bump of one.
Blank == [rev |-> 0, live |-> FALSE, text |-> 0, antipattern |-> FALSE,
          trigger |-> FALSE, author |-> "none", provenance |-> FALSE, at |-> -1,
          count |-> 0, raced |-> FALSE]
Published == [Blank EXCEPT !.rev = 1, !.live = TRUE, !.antipattern = TRUE,
                           !.trigger = TRUE, !.author = "human",
                           !.provenance = TRUE, !.at = 0]

\* _skill_expired.
Expired(s) == s.at < now
Trusted(s) == s.provenance /\ ~Expired(s)
\* Escalation is the predicate's, never the retrieval's.
Escalates(s, g) ==
    s.antipattern /\ Trusted(s) /\ s.trigger /\ g \in Prohibited

\* skill_define folds its fields into the meta it read.  A trigger is stored
\* only if it validates, and one that does not displaces the stored one.
DefinedKeepingAuthor(j, s) ==
    LET q == req[j]
    IN  [s EXCEPT !.live = TRUE, !.text = j, !.antipattern = q.antipattern,
                  !.trigger = q.trigger = "valid",
                  !.author = IF q.trigger = "valid" THEN q.author ELSE @,
                  !.provenance = @ \/ (q.trigger = "valid" /\ q.author \in Named),
                  !.at = IF q.author \in Named THEN now ELSE @]
Defined(j, s) ==
    LET q == req[j]
    IN  [s EXCEPT !.live = TRUE, !.text = j, !.antipattern = q.antipattern,
                  !.trigger = q.trigger = "valid",
                  !.author = IF q.trigger = "valid" THEN q.author ELSE "none",
                  !.provenance = @ \/ (q.trigger = "valid" /\ q.author \in Named),
                  !.at = IF q.author \in Named THEN now ELSE @]

\* bump_skill_efficacy's revision: the one it read, with one counter more.
Bumped(s) == [s EXCEPT !.live = TRUE, !.count = @ + 1]

-----------------------------------------------------------------------------
(* Efficacy events.                                                         *)

Recorded(k, g, stage) ==
    {e \in events : e.skill = k /\ e.goal = g /\ e.stage = stage}

Event(j, k, g, stage) ==
    [skill |-> k, goal |-> g, stage |-> stage, by |-> j,
     outcome |-> IF stage = "outcome_closed" THEN req[j].outcome ELSE "none"]

\* record_efficacy_event: INSERT ... ON CONFLICT DO NOTHING.
RecordLatest(j, k, g, stage) ==
    events' = (events \ Recorded(k, g, stage)) \cup {Event(j, k, g, stage)}
Record(j, k, g, stage) ==
    events' = IF Recorded(k, g, stage) = {}
                THEN events \cup {Event(j, k, g, stage)}
                ELSE events

\* The skills an outcome of the intent can be closed for.
Closable(j) ==
    {k \in Skills : /\ \E e \in events : e.skill = k /\ e.goal = req[j].goal
                    /\ req[j].skill \in {AnySkill, k}}
\* _link_acted_upon asks for the surfaced ones only.
LinkableAll(g) == {k \in Skills : \E e \in events : e.skill = k /\ e.goal = g}
Linkable(g) == {k \in Skills : Recorded(k, g, "surfaced") # {}}

-----------------------------------------------------------------------------
\* _ROLLUP_BASE.
NoSums == [x \in Outcomes \cup {"fired"} |-> 0]

Goto(j, p) == pc' = [pc EXCEPT ![j] = p]
Finish(j) == Goto(j, "done") /\ ack' = [ack EXCEPT ![j] = "ok"]

Init ==
    /\ \E P \in SUBSET Skills :
         skill = [k \in Skills |-> IF k \in P THEN Published ELSE Blank]
    /\ authored = skill
    /\ events = {}
    /\ matchlog = {}
    /\ rollup = NoSums
    /\ newest = NoGoal
    /\ now = 0
    /\ req \in Workloads
    /\ pc = [j \in Jobs |-> "idle"]
    /\ draft = [j \in Jobs |-> Blank]
    /\ sums = [j \in Jobs |-> NoSums]
    /\ todo = [j \in Jobs |-> <<>>]
    /\ closed = [j \in Jobs |-> {}]
    /\ already = [j \in Jobs |-> {}]
    /\ basis = [j \in Jobs |-> Blank]
    /\ ack = [j \in Jobs |-> "none"]

\* The two read-modify-writes of a skill: what they read, folded.
ReadSkill(j) ==
    /\ pc[j] = "idle" /\ req[j].op = "define"
    /\ draft' = [draft EXCEPT ![j] = Defined(j, skill[req[j].skill])]
    /\ Goto(j, "append")
    /\ UNCHANGED <<store, asks, sums, todo, closed, already, basis, ack>>

BumpableAny(s) == s.rev # 0
Bumpable(s) == s.live
ReadForBump(j) ==
    /\ pc[j] = "idle" /\ req[j].op = "bump"
    /\ LET s == skill[req[j].skill]
       IN  IF Bumpable(s)
             THEN /\ draft' = [draft EXCEPT ![j] = Bumped(s)]
                  /\ Goto(j, "append") /\ UNCHANGED ack
             ELSE Finish(j) /\ UNCHANGED draft
    /\ UNCHANGED <<store, asks, sums, todo, closed, already, basis>>

\* memory_save and memory_delete of a skill's key replace its meta by the
\* caller's, unread and unvalidated; a tombstone has it too, for the next
\* skill_define to fold.
Written(j, s) ==
    LET m == req[j].meta
    IN  [Blank EXCEPT !.rev = s.rev, !.live = req[j].op = "save", !.text = j,
                      !.antipattern = m.antipattern, !.trigger = m.trigger,
                      !.author = m.author, !.provenance = m.provenance,
                      !.at = m.at, !.count = m.count]
ReplaceSkill(j) ==
    /\ pc[j] = "idle" /\ req[j].op \in {"save", "delete"}
    /\ draft' = [draft EXCEPT ![j] = Written(j, skill[req[j].skill])]
    /\ Goto(j, "append")
    /\ UNCHANGED <<store, asks, sums, todo, closed, already, basis, ack>>

Overtaken(j) == draft[j].rev # skill[req[j].skill].rev
AppendSkill(j) ==
    /\ pc[j] = "append"
    /\ LET k == req[j].skill
           raced == req[j].op = "bump" /\ (draft[j].raced \/ Overtaken(j))
           row == [draft[j] EXCEPT !.rev = skill[k].rev + 1, !.raced = raced]
       IN  /\ skill' = [skill EXCEPT ![k] = row]
           /\ authored' = IF req[j].op = "bump" THEN authored
                                                ELSE [authored EXCEPT ![k] = row]
    /\ draft' = [draft EXCEPT ![j] = Blank]
    /\ Finish(j)
    /\ UNCHANGED <<events, matchlog, rollup, newest, asks, sums, todo, closed,
                   already, basis>>

-----------------------------------------------------------------------------
(* intent_open.                                                             *)

\* matched and surfaced, skill by skill, for those a reader may rely on.
StagesOf(s, g) ==
    [i \in 1..(2 * Len(s)) |->
       <<s[(i + 1) \div 2], g, IF i % 2 = 1 THEN "matched" ELSE "surfaced">>]

\* _log_gate_matches: every candidate, not yet judged; a failure, which is
\* swallowed, would only lose rows.
Candidates(j, found) == [skill : found, goal : {req[j].goal}, acted : {"null"}]

\* Retrieval finds some live skills, the trusted ones in some order; a
\* structured constraint may contradict the goal before the first that escalates.
Scan(j) ==
    /\ pc[j] = "idle" /\ req[j].op = "intent"
    /\ \E found \in SUBSET {k \in Skills : skill[k].live}, structured \in BOOLEAN :
       \E order \in SetToSeqs({k \in found : Trusted(skill[k])}) :
         LET hits == {i \in DOMAIN order : Escalates(skill[order[i]], req[j].goal)}
         IN  /\ todo' = [todo EXCEPT ![j] = StagesOf(order, req[j].goal)]
             /\ IF structured \/ hits = {}
                  THEN UNCHANGED basis
                  ELSE \E i \in hits : /\ \A h \in hits : i <= h
                                      /\ basis' = [basis EXCEPT ![j] = skill[order[i]]]
             /\ matchlog' = matchlog \cup Candidates(j, found)
    /\ Goto(j, "events")
    /\ UNCHANGED <<skill, authored, events, rollup, newest, asks, draft, sums, closed, already, ack>>

\* One INSERT, or its failure, which is swallowed.
NoteEvent(j) ==
    /\ pc[j] = "events" /\ todo[j] # <<>>
    /\ \/ Record(j, todo[j][1][1], todo[j][1][2], todo[j][1][3])
       \/ UNCHANGED events
    /\ todo' = [todo EXCEPT ![j] = Tail(@)]
    /\ UNCHANGED <<skill, authored, matchlog, rollup, newest, asks, pc, draft,
                   sums, closed, already, basis, ack>>

\* INSERT INTO gate_intent.
Register(j) ==
    /\ pc[j] = "events" /\ todo[j] = <<>> /\ req[j].op = "intent"
    /\ newest' = req[j].goal
    /\ Goto(j, "rollread")
    /\ UNCHANGED <<skill, authored, events, matchlog, rollup, asks, notes, ack>>

-----------------------------------------------------------------------------
(* _link_acted_upon, after a gated write of the session; its two reads, the    *)
(* newest intent and what was surfaced for it, are taken as one.              *)

Link(j) ==
    /\ pc[j] = "idle" /\ req[j].op = "write"
    /\ \E order \in SetToSeqs(Linkable(newest)) :
         todo' = [todo EXCEPT ![j] =
                    [i \in DOMAIN order |-> <<order[i], newest, "acted_upon">>]]
    /\ Goto(j, "events")
    /\ UNCHANGED <<store, asks, draft, sums, closed, already, basis, ack>>

Linked(j) ==
    /\ pc[j] = "events" /\ todo[j] = <<>> /\ req[j].op = "write"
    /\ Finish(j)
    /\ UNCHANGED <<store, asks, notes>>

-----------------------------------------------------------------------------
(* gate_close_outcome.                                                      *)

Close(j) ==
    /\ pc[j] = "idle" /\ req[j].op = "close"
    /\ \E order \in SetToSeqs(Closable(j)) :
         todo' = [todo EXCEPT ![j] =
                    [i \in DOMAIN order |-> <<order[i], req[j].goal, "outcome_closed">>]]
    /\ Goto(j, "close")
    /\ UNCHANGED <<store, asks, draft, sums, closed, already, basis, ack>>

CloseOne(j) ==
    /\ pc[j] = "close" /\ todo[j] # <<>>
    /\ LET k == todo[j][1][1]
       IN  /\ Record(j, k, req[j].goal, "outcome_closed")
           /\ IF Recorded(k, req[j].goal, "outcome_closed") = {}
                THEN /\ closed' = [closed EXCEPT ![j] = @ \cup {k}]
                     /\ UNCHANGED already
                ELSE /\ already' = [already EXCEPT ![j] = @ \cup {k}]
                     /\ UNCHANGED closed
    /\ todo' = [todo EXCEPT ![j] = Tail(@)]
    /\ UNCHANGED <<skill, authored, matchlog, rollup, newest, asks, pc, draft,
                   sums, basis, ack>>

\* Only a call that closed something counts its outcome.
CountsReplays(j) == closed[j] \cup already[j] # {}
Counts(j) == closed[j] # {}

\* The backfill of the match log, whatever was closed and for which skill; it
\* may fail unnoticed.
AnswerUnlessAbandoned(j) == IF req[j].outcome = "abandoned" THEN "no" ELSE "yes"
Answer(j) == IF req[j].outcome = "followed" THEN "yes" ELSE "no"
Judged(j) ==
    {IF m.goal = req[j].goal THEN [m EXCEPT !.acted = Answer(j)] ELSE m : m \in matchlog}

CountOutcome(j) ==
    /\ pc[j] = "close" /\ todo[j] = <<>>
    /\ matchlog' = Judged(j) \/ UNCHANGED matchlog
    /\ IF Counts(j) THEN Goto(j, "rollread") /\ UNCHANGED ack ELSE Finish(j)
    /\ UNCHANGED <<skill, authored, events, rollup, newest, asks, notes>>

-----------------------------------------------------------------------------
(* bump_rollup, of a decision (_ledger) or of an outcome.                    *)

StartLedger(j) ==
    /\ pc[j] = "idle" /\ req[j].op = "ledger"
    /\ Goto(j, "rollread")
    /\ UNCHANGED <<store, asks, notes, ack>>

Counter(j) == IF req[j].op = "close" THEN req[j].outcome ELSE "fired"
ReadRollup(j) ==
    /\ pc[j] = "rollread"
    /\ sums' = [sums EXCEPT ![j] = [rollup EXCEPT ![Counter(j)] = @ + 1]]
    /\ Goto(j, "rollwrite")
    /\ UNCHANGED <<store, asks, draft, todo, closed, already, basis, ack>>

\* The append, or its failure, which is swallowed.
WriteRollup(j) ==
    /\ pc[j] = "rollwrite"
    /\ rollup' = sums[j] \/ UNCHANGED rollup
    /\ sums' = [sums EXCEPT ![j] = NoSums]
    /\ Finish(j)
    /\ UNCHANGED <<skill, authored, events, matchlog, newest, asks, draft, todo,
                   closed, already, basis>>

-----------------------------------------------------------------------------
\* The connection drops, a statement is cancelled or the process dies, at any
\* await: what was written stays.
Fail(j) ==
    /\ pc[j] \notin {"idle", "done"}
    /\ Goto(j, "done")
    /\ ack' = [ack EXCEPT ![j] = "unavailable"]
    /\ draft' = [draft EXCEPT ![j] = Blank]
    /\ sums' = [sums EXCEPT ![j] = NoSums]
    /\ todo' = [todo EXCEPT ![j] = <<>>]
    /\ UNCHANGED <<store, asks, closed, already, basis>>

\* skill_validity_hours go by.
TimePasses ==
    /\ now < MaxNow
    /\ now' = now + 1
    /\ UNCHANGED <<store, req, pc, notes, ack>>

Next ==
    \/ \E j \in Jobs :
         \/ ReadSkill(j) \/ ReadForBump(j) \/ ReplaceSkill(j) \/ AppendSkill(j)
         \/ Scan(j) \/ NoteEvent(j) \/ Register(j)
         \/ Link(j) \/ Linked(j)
         \/ Close(j) \/ CloseOne(j) \/ CountOutcome(j)
         \/ StartLedger(j) \/ ReadRollup(j) \/ WriteRollup(j)
         \/ Fail(j)
    \/ TimePasses

Spec == Init /\ [][Next]_vars

-----------------------------------------------------------------------------
(* Properties.                                                              *)

Revision == [rev : Nat, live : BOOLEAN, text : Jobs \cup {0}, antipattern : BOOLEAN,
             trigger : BOOLEAN, author : Named \cup {"unvalidated", "none"},
             provenance : BOOLEAN, at : -1..MaxNow, count : Nat, raced : BOOLEAN]

\* Types; where skill_define wrote a skill, a trigger has an author and an
\* author a trigger, through the counter bumps since.
TypeOK ==
    /\ \A k \in Skills : /\ {skill[k], authored[k]} \subseteq Revision
                         /\ skill[k].text # 0 /\ req[skill[k].text].op = "define" =>
                              (skill[k].trigger <=> skill[k].author # "none")
    /\ events \subseteq [skill : Skills, goal : Goals, stage : Stages, by : Jobs,
                         outcome : Outcomes \cup {"none"}]
    /\ matchlog \subseteq [skill : Skills, goal : Goals, acted : {"null", "yes", "no"}]
    /\ rollup \in [Outcomes \cup {"fired"} -> Nat]
    /\ newest \in Goals \cup {NoGoal}
    /\ \A j \in Jobs : /\ {draft[j], basis[j]} \subseteq Revision
                       /\ closed[j] \cap already[j] = {}
                       /\ ack[j] \in {"none", "ok", "unavailable"}

\* A revision says what the request that wrote its value said: all of it where
\* memory_save or memory_delete did, a trigger included that nothing validated;
\* the polarity, the trigger if it validated and its author where skill_define
\* did, which leaves a provenance and a stamp it finds.
OfRequest(s, q) ==
    /\ s.live <=> q.op # "delete"
    /\ q.op = "define" => /\ s.antipattern = q.antipattern
                          /\ s.trigger <=> q.trigger = "valid"
                          /\ s.trigger => s.author = q.author
    /\ q.op \in {"save", "delete"} =>
         /\ s.antipattern = q.meta.antipattern
         /\ s.trigger = q.meta.trigger
         /\ s.author = q.meta.author
         /\ s.provenance = q.meta.provenance
         /\ s.at = q.meta.at

\* All of a revision but its number and its counter.
Contents(s) ==
    <<s.live, s.text, s.antipattern, s.trigger, s.author, s.provenance, s.at>>

\* However counter bumps, skill_defines, saves and deletes of a skill race, it
\* says what one author said and never a mixture of two, and it is what its last
\* author left, tombstones included; but for a bump that was overtaken and the
\* bumps of it, which put one earlier author's skill back as a whole.
SkillIsAsAuthored ==
    \A k \in Skills :
      /\ skill[k].text # 0 => OfRequest(skill[k], req[skill[k].text])
      /\ ~skill[k].raced => Contents(skill[k]) = Contents(authored[k])

\* However its callers race and replay, an outcome is closed once: every call
\* told that it closed one is the one whose outcome stands, and every call told
\* that it came late was preceded by another.
Closing(k, g) == Recorded(k, g, "outcome_closed")
CloseAnswersTrue ==
    \A j \in Jobs : req[j].op = "close" =>
      /\ \A k \in closed[j] :
           Closing(k, req[j].goal) = {Event(j, k, req[j].goal, "outcome_closed")}
      /\ \A k \in already[j] : \E e \in Closing(k, req[j].goal) : e.by # j

\* The rollup never reports an outcome more often than it was closed, whatever
\* replays and lost increments do to it.
OutcomesNotInflated ==
    \A o \in Outcomes :
      rollup[o] <= Cardinality({e \in events : e.outcome = o})

\* A skill counts as acted upon only for an intent that surfaced it, and an
\* outcome is closed only against a skill that had been retrieved for it.
StagesInOrder ==
    \A e \in events :
      /\ e.stage = "acted_upon" => Recorded(e.skill, e.goal, "surfaced") # {}
      /\ e.stage = "outcome_closed" =>
           \E d \in events : /\ d.skill = e.skill /\ d.goal = e.goal
                             /\ d.stage \in {"matched", "surfaced"}

\* What the match log says of an intent, a caller said when closing it, after it
\* recorded what it could close.  Where an outcome that was closed says
\* otherwise, that caller did not close it: it came for another skill, or came
\* second (gate_close_outcome's backfill, which replays and closings of one
\* skill overwrite for all skills of the intent).
JudgedByACaller ==
    \A m \in matchlog : m.acted # "null" =>
        \E j \in Jobs :
            /\ req[j].op = "close" /\ req[j].goal = m.goal
            /\ (req[j].outcome = "followed") = (m.acted = "yes")
            /\ pc[j] \in {"rollread", "rollwrite", "done"}
            /\ \A e \in Closing(m.skill, m.goal) :
                 e.outcome # req[j].outcome => m.skill \notin closed[j]

\* What skill_define's comment says of an author who is not named: the trigger
\* may be defined but never escalates.
UnvalidatedNeverEscalates == \A j \in Jobs : basis[j].author # "unvalidated"
=============================================================================
