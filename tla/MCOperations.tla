---------------------------- MODULE MCOperations ----------------------------
(***************************************************************************)
(* Instances for TLC of the tools that check, authorise, install, watch and   *)
(* measure.  They share no state with each other, so a behaviour is one of    *)
(* one component: `part` says which, for good.                               *)
(***************************************************************************)
EXTENDS PatchGate, McpStdio, Leases, Installation, HealthChecks, ModelGrading,
        MemoryBench, RivalWorkers, ResumableBench, Scoring

\* Counting positions, as TextAt and DocIds do, takes what SelectSeq would.
ASSUME WithoutSelects ==
    \A n \in 0..4 : \A text \in [1..n -> {Managed, Obsolete, "x"}] :
        Without(text, Managed) = SelectSeq(text, LAMBDA t : t /= Managed)

ASSUME DocIdsSelects ==
    \A n \in 0..4 : \A found \in [1..n -> {"d1", "d2", Unmarked}] :
        DocIds(found) = SelectSeq(found, LAMBDA d : d # Unmarked)

VARIABLE part

\* The check of a patch succeeds when the two files agree.
MCWorks(tree) == tree["a"] = tree["b"]

\* 1 over log2(rank + 1), in hundredths.
MCWeights == <<100, 63, 50>>

\* One competitor at a time.
MCInterpreters == {{"mem0"}, {"letta"}, {"langmem"}, {"graphiti_zep"}}

MCVars ==
    <<part, patchVars, mcpVars, leaseVars, installVars, healthVars,
      gradingVars, benchVars, rivalVars, resumeVars, scored>>

MCInit ==
    /\ part \in {"patch", "mcp", "leases", "install", "health",
                 "grading", "bench", "rivals", "resume", "scores"}
    /\ PatchInit /\ McpInit /\ LeasesInit /\ InstallInit /\ HealthInit
    /\ GradingInit /\ BenchInit /\ RivalInit /\ ResumeInit /\ ScoringInit
    \* One initial state is enough for what stands still.
    /\ part /= "patch" => repo.tree = [i \in Items |-> 0]
    /\ part /= "mcp" => server.kind = "guard" /\ host.next = 0
    /\ part /= "install" => kind = "rulefile" /\ ~file.exists
    /\ part /= "grading" => budget = CHOOSE b \in [max : Budgets, priced : BOOLEAN] : TRUE
    \* Without a price only what the provider returns counts, and with one a tight
    \* budget refuses at the smoke and at the end.
    /\ part = "grading" => (budget.priced <=> budget.max = 4)
    /\ part /= "rivals" => rivalRun.given = {"mem0"} /\ ~rivalRun.ranking
    /\ part /= "resume" => lane = CHOOSE l \in Lanes : TRUE

MCNext ==
    /\ UNCHANGED part
    /\ IF part = "patch" THEN PatchNext ELSE UNCHANGED patchVars
    /\ IF part = "mcp" THEN McpNext ELSE UNCHANGED mcpVars
    /\ IF part = "leases" THEN LeasesNext ELSE UNCHANGED leaseVars
    /\ IF part = "install" THEN InstallNext ELSE UNCHANGED installVars
    /\ IF part = "health" THEN HealthNext ELSE UNCHANGED healthVars
    /\ IF part = "grading" THEN GradingNext ELSE UNCHANGED gradingVars
    /\ IF part = "bench" THEN BenchNext ELSE UNCHANGED benchVars
    /\ IF part = "rivals" THEN RivalNext ELSE UNCHANGED rivalVars
    /\ IF part = "resume" THEN ResumeNext ELSE UNCHANGED resumeVars
    /\ IF part = "scores" THEN ScoringNext ELSE UNCHANGED scored

MCSpec == MCInit /\ [][MCNext]_MCVars

-----------------------------------------------------------------------------
\* Every component's variables keep their types.
MCTypeOK ==
    /\ PatchTypeOK /\ McpTypeOK /\ LeasesTypeOK /\ InstallTypeOK
    /\ HealthTypeOK /\ GradingTypeOK /\ BenchTypeOK /\ RivalTypeOK /\ ResumeTypeOK
    /\ ScoringTypeOK
=============================================================================
