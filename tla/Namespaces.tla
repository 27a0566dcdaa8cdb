------------------------------ MODULE Namespaces ------------------------------
(***************************************************************************)
(* namespace_init: a check whether the namespace exists, then a profile, a   *)
(* first entry and a registry record, each a statement of its own, while     *)
(* others write, edit the profile, or initialise the same namespace.         *)
(***************************************************************************)
EXTENDS Entries

CONSTANTS
    ProjectMeta   \* the key project/meta

\* Of the fields of a profile, the one that is read back and another one.
ASSUME NamespacesAssumption ==
    /\ ProjectMeta \in Plain
    /\ "knowledge" \in Kinds
    /\ \A w \in Workloads : \A j \in Jobs :
         /\ w.task[j].op = "init" => w.task[j].val \in Values
         /\ w.task[j].op \in {"init", "edit"} => DOMAIN w.task[j].doc \subseteq {"gate", "floor"}

VARIABLES
    profile,    \* variant_profiles: the fields that are set, with their values
    registry,   \* namespace_registry: by whom, and with which profile
    found,      \* job -> what its existence check has found
    began,      \* job -> ghost: when it began, and whether it was registered then
    inits       \* job -> what it was answered

namespaceVars == <<profile, registry, found, began, inits>>

Unregistered == [by |-> 0, profile |-> <<>>]
NotBegun == [at |-> 0, registered |-> FALSE]

NamespacesInit ==
    /\ profile = <<>>
    /\ registry = Unregistered
    /\ found = [j \in Jobs |-> FALSE]
    /\ began = [j \in Jobs |-> NotBegun]
    /\ inits = [j \in Jobs |-> "none"]

-----------------------------------------------------------------------------
(* The statements.                                                          *)

\* variant_profiles.profile || EXCLUDED.profile
Merged(old, new) ==
    [f \in DOMAIN old \cup DOMAIN new |-> IF f \in DOMAIN new THEN new[f] ELSE old[f]]

\* What memory_list answers with limit 1: is there a live entry at all?
HasEntries(n) ==
    \E k \in Keys \ {MetaKey} :
        LET i == LatestAt(k, n) IN i # 0 /\ IsLive(log[i]) /\ ~log[i].quarantined

CheckRegistry(j) ==
    /\ task[j].op = "init"
    /\ pc[j] = "idle"
    /\ found' = [found EXCEPT ![j] = registry # Unregistered]
    /\ began' = [began EXCEPT ![j] = [at |-> Len(log), registered |-> registry # Unregistered]]
    /\ Goto(j, "existing")
    /\ UNCHANGED <<log, now, task, head, profile, registry, inits>>

\* Either answer means hands off.
ExistsByEntries(j) == HasEntries(Len(log))
Exists(j) == found[j] \/ HasEntries(Len(log))

CheckEntries(j) ==
    /\ pc[j] = "existing"
    /\ IF Exists(j)
         THEN Goto(j, "done") /\ inits' = [inits EXCEPT ![j] = "existing"]
         ELSE Goto(j, "profile") /\ UNCHANGED inits
    /\ UNCHANGED <<log, now, task, head, profile, registry, found, began>>

\* The document states the gate in every case.
WriteProfile(j) ==
    /\ pc[j] = "profile"
    /\ profile' = Merged(profile, task[j].doc)
    /\ Goto(j, IF task[j].seed THEN "seed" ELSE "register")
    /\ UNCHANGED <<log, now, task, head, registry, found, began, inits>>

\* Armed, or so in a copy that a cache may still hold.
Armed ==
    \E j \in Jobs :
        /\ task[j].op \in {"init", "edit"} /\ pc[j] # "idle"
        /\ "gate" \in DOMAIN task[j].doc /\ task[j].doc.gate = "on"

\* memory_save of project/meta; an armed gate may only preview it, which is not
\* looked at, or block it, which ends the call.
SeedProject(j) ==
    /\ pc[j] = "seed"
    /\ \/ /\ AppendRow(j, [Blank EXCEPT !.key = ProjectMeta, !.kind = "knowledge",
                                        !.val = task[j].val])
          /\ Goto(j, "register")
          /\ UNCHANGED inits
       \/ Armed /\ Goto(j, "register") /\ UNCHANGED <<log, inits>>
       \/ /\ Armed
          /\ Goto(j, "done")
          /\ inits' = [inits EXCEPT ![j] = "failed"]
          /\ UNCHANGED log
    /\ UNCHANGED <<now, task, head, profile, registry, found, began>>

\* ON CONFLICT DO NOTHING: the first record stays.
Register(j) ==
    /\ pc[j] = "register"
    /\ registry' = IF registry = Unregistered THEN [by |-> j, profile |-> task[j].doc]
                   ELSE registry
    /\ Goto(j, "readback")
    /\ UNCHANGED <<log, now, task, head, profile, found, began, inits>>

\* A cached copy may hide what others have written since.
ReadBack(j) ==
    /\ pc[j] = "readback"
    /\ \E how \in {"created"} \cup (IF profile.gate # task[j].doc.gate THEN {"failed"} ELSE {}) :
         inits' = [inits EXCEPT ![j] = how]
    /\ Goto(j, "done")
    /\ UNCHANGED <<log, now, task, head, profile, registry, found, began>>

\* The process dies, or a statement fails, between two steps.
BreakInit(j) ==
    /\ task[j].op = "init"
    /\ Running(j)
    /\ inits' = [inits EXCEPT ![j] = "failed"]
    /\ Goto(j, "done")
    /\ UNCHANGED <<log, now, task, head, profile, registry, found, began>>

\* write_variant_profile by anyone else.
EditProfile(j) ==
    /\ task[j].op = "edit"
    /\ pc[j] = "idle"
    /\ profile' = Merged(profile, task[j].doc)
    /\ Goto(j, "done")
    /\ UNCHANGED <<log, now, task, head, registry, found, began, inits>>

NamespacesStep(j) ==
    \/ CheckRegistry(j) \/ CheckEntries(j) \/ WriteProfile(j) \/ SeedProject(j)
    \/ Register(j) \/ ReadBack(j) \/ BreakInit(j) \/ EditProfile(j)

-----------------------------------------------------------------------------
NamespacesTypeOK ==
    /\ DOMAIN profile \subseteq {"gate", "floor"}
    /\ registry.by \in Jobs \cup {0}
    /\ inits \in [Jobs -> {"none", "existing", "created", "failed"}]

\* An init leaves alone what it finds: it gets as far as writing only if the
\* namespace was not registered when it began and has had a moment without live
\* entries since.  Of two that both say they created it each began before the
\* other's record; the record names one whose document, unless somebody else
\* has written the profile, is in force (namespace_init: "re-running never
\* rewrites a live profile").
InitLeavesPolicyAlone ==
    LET Inits == {j \in Jobs : task[j].op = "init"}
        wrote(j) == pc[j] \in {"seed", "register", "readback"} \/ inits[j] = "created"
    IN /\ \A j \in Inits : wrote(j) =>
            /\ ~began[j].registered
            /\ \E n \in began[j].at..Len(log) : ~HasEntries(n)
       /\ \A j, j2 \in Inits : inits[j] = "created" /\ inits[j2] = "created" =>
            ~began[j].registered /\ ~began[j2].registered
       /\ \A j \in Inits : registry.by = j =>
            \/ \A f \in DOMAIN task[j].doc : profile[f] = task[j].doc[f]
            \/ \E j2 \in Jobs \ {j} :
                 \/ task[j2].op = "edit"
                 \/ task[j2].op = "init" /\ pc[j2] # "idle" /\ ~began[j2].registered
=============================================================================
