--------------------------------- MODULE Store ---------------------------------
(***************************************************************************)
(* The calls of one namespace at once: savers and deleters, walks and        *)
(* searches, curation passes, reconciling passes, bootstraps, events of       *)
(* sessions, namespace_init, and, beside the namespace, bearer tokens and     *)
(* artifacts.                                                                *)
(***************************************************************************)
EXTENDS Knowledge, Sessions, Namespaces, Tokens, Artifacts

knowledgeVars == <<readVars, curateVars, claimVars>>
serviceVars == <<sessionVars, namespaceVars, tokenVars, artifactVars>>
vars == <<entryVars, knowledgeVars, serviceVars>>

Init ==
    /\ EntriesInit
    /\ ReadingInit /\ CurationInit /\ ClaimsInit
    /\ SessionsInit /\ NamespacesInit /\ TokensInit /\ ArtifactsInit

Writing(j) == Save(j) \/ Delete(j) \/ ObservationLog(j)

KnowledgeStep(j) ==
    \/ Writing(j) /\ UNCHANGED knowledgeVars
    \/ ReadingStep(j) /\ UNCHANGED <<curateVars, claimVars>>
    \/ CurationStep(j) /\ UNCHANGED <<readVars, claimVars>>
    \/ ClaimsStep(j) /\ UNCHANGED <<readVars, curateVars>>

ServiceStep(j) ==
    \/ SessionsStep(j) /\ UNCHANGED <<namespaceVars, tokenVars, artifactVars>>
    \/ NamespacesStep(j) /\ UNCHANGED <<sessionVars, tokenVars, artifactVars>>
    \/ TokensStep(j) /\ UNCHANGED <<sessionVars, namespaceVars, artifactVars>>
    \/ ArtifactsStep(j) /\ UNCHANGED <<sessionVars, namespaceVars, tokenVars>>

Next ==
    \/ \E j \in Jobs : KnowledgeStep(j) /\ UNCHANGED serviceVars
    \/ \E j \in Jobs : ServiceStep(j) /\ UNCHANGED knowledgeVars
    \/ (Tick \/ Push) /\ UNCHANGED <<knowledgeVars, serviceVars>>

Spec == Init /\ [][Next]_vars

-----------------------------------------------------------------------------
Points == {"idle", "page", "hyde", "keyword", "gates", "compare", "bound", "close",
           "write", "attest", "subject", "verdict", "batons", "session",
           "retry", "guard", "insert", "existing", "profile", "seed", "register",
           "readback", "fetched", "update", "replace", "verify", "inline", "window",
           "done"}
Outcomes == {"noop", "invalid", "phi_dropped", "family_conflict",
             "idempotency_conflict", "applied"}

\* Types of the composed state.
TypeOK ==
    /\ \A i \in DOMAIN log : RowOK(log[i])
    /\ now \in 0..MaxNow
    /\ head \in DOMAIN Upstream
    /\ \E w \in Workloads : task = w.task /\ IsPrefix(w.seed, log)
    /\ pc \in [Jobs -> Points]
    /\ \A j \in Jobs :
         /\ \A p \in DOMAIN walk[j] : ToSet(walk[j][p].shown) \subseteq DOMAIN log
         /\ \A n \in DOMAIN legs[j] : ToSet(legs[j][n].rows) \subseteq DOMAIN log
         /\ ToSet(todo[j]) \subseteq Plain
         /\ held[j].row \in 0..Len(log)
         /\ ToSet(told[j]) \subseteq Outcomes
         /\ out[j] \in {"none", "ok", "failed", "disabled"}
         /\ batch[j] \subseteq DOMAIN log
         /\ verdict[j] \in States \cup {"none"}
    /\ SessionsTypeOK /\ NamespacesTypeOK /\ TokensTypeOK /\ ArtifactsTypeOK
=============================================================================
