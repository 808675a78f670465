-------------------------- MODULE OperationsProofs --------------------------
(***************************************************************************)
(* The tools beside each other: a behaviour of MCOperations is a behaviour  *)
(* of each of them, so that what AuthorityProofs, HostProofs and            *)
(* BenchmarkProofs prove of a tool alone holds of it there.                 *)
(***************************************************************************)
EXTENDS AuthorityProofs, HostProofs, BenchmarkProofs, MCOperations

\* The components' initial states and steps are those of their own specifications.
LEMMA OperationsBegin ==
    /\ MCInit => PatchInit /\ McpInit /\ LeasesInit /\ InstallInit
    /\ MCInit => HealthInit /\ GradingInit /\ BenchInit /\ RivalInit /\ ResumeInit
    /\ MCInit => ScoringInit
BY DEF MCInit

\* What checks, authorises and installs.
LEMMA AuthoritiesAreThemselves ==
    MCSpec => PatchSpec /\ LeasesSpec
<1>1. /\ [MCNext]_MCVars => [PatchNext]_patchVars
      /\ [MCNext]_MCVars => [LeasesNext]_leaseVars
    BY DEF MCNext, MCVars
<1> QED
    BY <1>1, OperationsBegin, PTL DEF MCSpec, PatchSpec, LeasesSpec

\* What runs beside the host.
LEMMA HostToolsAreThemselves ==
    MCSpec => McpSpec /\ InstallSpec /\ HealthSpec
<1>1. /\ [MCNext]_MCVars => [McpNext]_mcpVars
      /\ [MCNext]_MCVars => [InstallNext]_installVars
      /\ [MCNext]_MCVars => [HealthNext]_healthVars
    BY DEF MCNext, MCVars
<1> QED
    BY <1>1, OperationsBegin, PTL DEF MCSpec, McpSpec, InstallSpec, HealthSpec

\* What measures.
LEMMA BenchmarksAreThemselves ==
    MCSpec => GradingSpec /\ BenchSpec /\ RivalSpec /\ ResumeSpec /\ ScoringSpec
<1>1. /\ [MCNext]_MCVars => [GradingNext]_gradingVars
      /\ [MCNext]_MCVars => [BenchNext]_benchVars
      /\ [MCNext]_MCVars => [RivalNext]_rivalVars
    BY DEF MCNext, MCVars
<1>2. /\ [MCNext]_MCVars => [ResumeNext]_resumeVars
      /\ [MCNext]_MCVars => [ScoringNext]_scoringVars
    BY DEF MCNext, MCVars, scoringVars
<1> QED
    BY <1>1, <1>2, OperationsBegin, PTL
       DEF MCSpec, GradingSpec, BenchSpec, RivalSpec, ResumeSpec, ScoringSpec

\* A behaviour of the tools beside each other is one of each of them.
THEOREM OperationsAreTheirParts ==
    MCSpec => /\ PatchSpec /\ McpSpec /\ LeasesSpec /\ InstallSpec
              /\ HealthSpec /\ GradingSpec /\ BenchSpec /\ RivalSpec /\ ResumeSpec
              /\ ScoringSpec
BY AuthoritiesAreThemselves, HostToolsAreThemselves, BenchmarksAreThemselves

\* For any files, requests, installs, checks and cases, the variables of every
\* tool that checks, authorises, installs, watches or measures keep their types.
THEOREM OperationsTypesCorrect == MCSpec => []MCTypeOK
<1>1. MCSpec => []PatchTypeOK /\ []LeasesTypeOK
    BY AuthoritiesAreThemselves, PatchTypeCorrect, LeasesTypeCorrect, PTL
<1>2. MCSpec => []McpTypeOK /\ []InstallTypeOK /\ []HealthTypeOK
    BY HostToolsAreThemselves, McpTypeCorrect, InstallTypeCorrect, HealthTypeCorrect, PTL
<1>3. MCSpec => /\ []GradingTypeOK /\ []BenchTypeOK /\ []RivalTypeOK /\ []ResumeTypeOK
                /\ []ScoringTypeOK
    BY BenchmarksAreThemselves, GradingTypeCorrect, BenchTypeCorrect, RivalTypeCorrect,
       ResumeTypeCorrect, ScoringTypeCorrect, PTL
<1> QED
    BY <1>1, <1>2, <1>3, PTL DEF MCTypeOK
=============================================================================
