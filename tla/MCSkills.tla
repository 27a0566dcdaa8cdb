------------------------------- MODULE MCSkills -------------------------------
(* Skills on three jobs: authors against counter bumps, intents against        *)
(* writes and closings, closings against each other.                         *)
EXTENDS Skills

CONSTANTS k1, k2, g1, g2

Define(k, trigger, author, anti) ==
    [op |-> "define", skill |-> k, trigger |-> trigger, author |-> author,
     antipattern |-> anti]
Bump(k) == [op |-> "bump", skill |-> k]
Raw(op, k, meta) == [op |-> op, skill |-> k, meta |-> meta]
\* Nothing; and what a hand-written skill says of itself.
Bare == [antipattern |-> FALSE, trigger |-> FALSE, author |-> "none",
         provenance |-> FALSE, at |-> -1, count |-> 0]
Vouched == [antipattern |-> TRUE, trigger |-> TRUE, author |-> "curator",
            provenance |-> TRUE, at |-> 0, count |-> 0]
Intent(g) == [op |-> "intent", goal |-> g]
CloseAs(g, k, o) == [op |-> "close", goal |-> g, skill |-> k, outcome |-> o]

MCJobs == 1..3
MCWorkloads ==
    {<<Define(k1, "valid", "human", TRUE), Define(k1, "invalid", "curator", TRUE),
       Bump(k1)>>,
     <<Define(k1, "valid", "unvalidated", TRUE), Intent(g1), Raw("save", k1, Bare)>>,
     <<Raw("save", k1, Vouched), Intent(g1), Bump(k1)>>,
     <<Raw("delete", k1, Vouched), Define(k1, "invalid", "human", FALSE), Bump(k1)>>,
     <<Raw("delete", k1, Bare), Bump(k1), Bump(k1)>>,
     <<Intent(g1), CloseAs(g1, AnySkill, "followed"), CloseAs(g1, k1, "overridden")>>,
     <<Intent(g1), CloseAs(g1, AnySkill, "followed"), CloseAs(g1, AnySkill, "followed")>>,
     <<Intent(g1), [op |-> "write"], CloseAs(g1, k2, "abandoned")>>,
     <<Intent(g1), Intent(g2), [op |-> "write"]>>,
     <<Intent(g2), [op |-> "ledger"], [op |-> "ledger"]>>}
=============================================================================
