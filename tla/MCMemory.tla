------------------------------ MODULE MCMemory ------------------------------
(***************************************************************************)
(* Instances for TLC of what reads, writes and reports on the memory.  These *)
(* components share no state but the memory server, which each of them      *)
(* models as far as it sees it, so a behaviour is one of one component:      *)
(* `part` says which, for good.                                             *)
(***************************************************************************)
EXTENDS Recall, IngestCodebase, RecallAdmission, Viscosity, Compaction, MemoryReports

VARIABLE part

\* A fact of this repository, one of the same with less in common, one of the kits
\* and one of an excluded namespace that also sounds like noise.
MCFact(i, ns, cos, score, noisy, common) ==
    [id |-> i, ns |-> ns, cos |-> cos, score |-> score, proven |-> TRUE,
     noisy |-> noisy, common |-> common]
MCFacts ==
    {MCFact(1, "hashed", 70, 40, FALSE, TRUE), MCFact(2, "legacy", 60, 30, FALSE, TRUE),
     MCFact(3, "codex", 62, 30, FALSE, FALSE), MCFact(4, "twitter", 0, 65, TRUE, TRUE)}

\* Two components, one of which depends on the other and on one that is not there.
MCManifests ==
    <<[name |-> "app", deps |-> {"lib", "zlib"}], [name |-> "lib", deps |-> {}]>>
\* A component that was renewed reads like any other, and all overviews read alike.
MCNear(f, g) == IF f.key = Repo THEN g.key = Repo
                ELSE g.key /= Repo /\ f.text = <<"new">>

MCVars == <<part, recallVars, ingesterVars, admissionVars, viscosityVars, compactionVars,
            reportVars>>

MCInit ==
    /\ part \in {"recall", "ingester", "admission", "viscosity", "compaction", "reports"}
    /\ RecallInit /\ IngestCodebaseInit /\ AdmissionInit /\ ViscosityInit /\ CompactionInit
    /\ ReportsInit
    \* One initial state is enough for what stands still.
    /\ part = "reports" \/ facts = {}

MCNext ==
    /\ UNCHANGED part
    /\ IF part = "recall" THEN RecallNext ELSE UNCHANGED recallVars
    /\ IF part = "ingester" THEN IngestCodebaseNext ELSE UNCHANGED ingesterVars
    /\ IF part = "admission" THEN AdmissionNext ELSE UNCHANGED admissionVars
    /\ IF part = "viscosity" THEN ViscosityNext ELSE UNCHANGED viscosityVars
    /\ IF part = "compaction" THEN CompactionNext ELSE UNCHANGED compactionVars
    /\ IF part = "reports" THEN ReportsNext ELSE UNCHANGED reportVars

\* Fairness is that of the components' own specifications.
MCSpec ==
    /\ MCInit /\ [][MCNext]_MCVars
    /\ WF_recallVars(HookStep) /\ WF_ingesterVars(IngesterStep)

-----------------------------------------------------------------------------
\* Every component's variables keep their types.
MCTypeOK ==
    /\ RecallTypeOK /\ IngestCodebaseTypeOK /\ AdmissionTypeOK /\ ViscosityTypeOK
    /\ CompactionTypeOK /\ ReportsTypeOK

\* Every recall hook and every ingest ends, whatever the server does to it.
EveryRunEnds == HooksEnd /\ IngestsEnd
=============================================================================
