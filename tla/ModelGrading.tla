---------------------------- MODULE ModelGrading ----------------------------
(***************************************************************************)
(* Paid model grading of the STALE benchmark (benchmark-diagnostic-memory, *)
(* run_official_stale_model_grading): a smoke batch of provider calls, a   *)
(* gate on its success and on its projected cost, the batch of the         *)
(* remaining cases, and the receipt.                                       *)
(***************************************************************************)
EXTENDS Integers, FiniteSets, FiniteSetsExt

CONSTANTS Cases,         \* how many cases, 400 in the code
          SmokeCases,    \* the first of them are the smoke batch, 5 in the code
          Dims,          \* the dimensions of a case, three in the code
          Tries,         \* attempts of a call, OFFICIAL_STALE_MODEL_MAX_RETRIES
          MaxMisses,     \* bound on attempts that fail
          Budgets,       \* maximum spends a caller allows, in costs of one call
          NoVerdict      \* no evaluation of a case

ASSUME GradingAssumption ==
    /\ Cases \in Nat /\ SmokeCases \in 1..Cases
    /\ Tries \in Nat \ {0} /\ Budgets \subseteq Nat \ {0}
    /\ IsFiniteSet(Dims) /\ NoVerdict \notin [Dims -> BOOLEAN]

SmokeBatch == 1..SmokeCases
RestBatch == (SmokeCases + 1)..Cases

\* An answer says what it cost, in dollars and tokens, in tokens alone, or nothing.
Usage == {"cost", "tokens", "none"}

\* What one case sends: a target call per dimension, then a judge call.
Jobs(cases) == cases \X (Dims \union {"judge"})

VARIABLES grading,       \* "idle", the phase of a batch, or how the run ended
          batch,         \* the cases of the running batch
          calls,         \* per job: attempts made, status, what usage came back
          verdicts,      \* per case: evaluation, NoVerdict if there is none
          judged,        \* the judge's answer, per case: at most one
          budget,        \* the maximum spend allowed, and if the price is known
          misses,
          receipt        \* correct and total of the final receipt

gradingVars == <<grading, batch, calls, verdicts, judged, budget, misses, receipt>>

-----------------------------------------------------------------------------
Failures(cases) == {j \in Jobs(cases) : calls[j].status # "succeeded"}

\* An evaluation counts each dimension that the judge decided, and only those.
Scored(cases) == Cardinality({c \in cases : verdicts[c] # NoVerdict}) * Cardinality(Dims)
Correct(cases) == Cardinality(
    {p \in cases \X Dims : verdicts[p[1]] # NoVerdict /\ verdicts[p[1]][p[2]]})

\* Mutant of SmokeComplete: all verdicts are enough, failed target calls or not.
SmokeJudged == Scored(SmokeBatch) = SmokeCases * Cardinality(Dims)

SmokeComplete ==
    /\ Failures(SmokeBatch) = {}
    /\ Scored(SmokeBatch) = SmokeCases * Cardinality(Dims)

\* The tokens that came back, priced; an answer without usage counts as nothing.
Estimated(cases) == Cardinality({j \in Jobs(cases) : calls[j].usage # "none"})

\* The smoke's cost: what the provider returned for every call, or else the
\* estimate, where there is a price.
AllReturned == \A j \in Jobs(SmokeBatch) : calls[j].usage = "cost"
GatePassed ==
    /\ AllReturned \/ budget.priced
    /\ Estimated(SmokeBatch) * Cases <= budget.max * SmokeCases

-----------------------------------------------------------------------------
StartGrading ==
    /\ grading = "idle"
    /\ grading' = "target" /\ batch' = SmokeBatch
    /\ UNCHANGED <<calls, verdicts, judged, budget, misses, receipt>>

\* The calls of a phase, those of all cases in a pool of threads: in any order.
Pending(j) ==
    /\ j \in Jobs(batch) /\ calls[j].status = "none"
    /\ grading = IF j[2] = "judge" THEN "judge" ELSE "target"

\* An attempt fails; after the last one the call has failed.
CallFails(j) ==
    /\ Pending(j)
    /\ misses < MaxMisses /\ misses' = misses + 1
    /\ calls' = [calls EXCEPT ![j].tries = @ + 1,
                              ![j].status = IF calls[j].tries + 1 = Tries THEN "failed" ELSE "none"]
    /\ UNCHANGED <<grading, batch, verdicts, judged, budget, receipt>>

TargetAnswers(j) ==
    /\ Pending(j) /\ j[2] # "judge"
    /\ \E usage \in Usage :
         calls' = [calls EXCEPT ![j] = [tries |-> @.tries + 1, status |-> "succeeded", usage |-> usage]]
    /\ UNCHANGED <<grading, batch, verdicts, judged, budget, misses, receipt>>

\* What a judge can answer: a decision per dimension, or text outside the contract.
Answers == [inContract : {TRUE}, pass : [Dims -> BOOLEAN]]
           \union [inContract : {FALSE}, pass : {[d \in Dims |-> FALSE]}]

\* _parse_official_stale_judge
Evaluation(answer) == IF answer.inContract THEN answer.pass ELSE NoVerdict

\* An answer without evaluation fails the call, but its usage stays.
JudgeAnswers(j) ==
    /\ Pending(j) /\ j[2] = "judge"
    /\ \E usage \in Usage, answer \in Answers :
         /\ calls' = [calls EXCEPT ![j] =
              [tries |-> @.tries + 1, usage |-> usage,
               status |-> IF Evaluation(answer) = NoVerdict THEN "failed" ELSE "succeeded"]]
         /\ verdicts' = [verdicts EXCEPT ![j[1]] = Evaluation(answer)]
         /\ judged' = [judged EXCEPT ![j[1]] = {answer}]
    /\ UNCHANGED <<grading, batch, budget, misses, receipt>>

\* The judges wait for all target calls, and judge failed ones too.
TargetsDone ==
    /\ grading = "target"
    /\ \A j \in Jobs(batch) : j[2] # "judge" => calls[j].status # "none"
    /\ grading' = "judge"
    /\ UNCHANGED <<batch, calls, verdicts, judged, budget, misses, receipt>>

AllJudged == grading = "judge" /\ \A j \in Jobs(batch) : calls[j].status # "none"

\* After the smoke: a blocker receipt, no receipt at all, or the other cases.
EndSmoke ==
    /\ AllJudged /\ batch = SmokeBatch
    /\ grading' = IF ~SmokeComplete THEN "not_tested"
                  ELSE IF ~GatePassed THEN "refused" ELSE "target"
    /\ batch' = IF SmokeComplete /\ GatePassed THEN RestBatch ELSE SmokeBatch
    /\ receipt' = IF SmokeComplete THEN receipt
                  ELSE [correct |-> Correct(SmokeBatch), total |-> Scored(SmokeBatch)]
    /\ UNCHANGED <<calls, verdicts, judged, budget, misses>>

\* After the full run only an estimate above the maximum refuses the receipt.
EndGrading ==
    /\ AllJudged /\ batch = RestBatch
    /\ IF budget.priced /\ Estimated(1..Cases) > budget.max
       THEN grading' = "refused" /\ UNCHANGED receipt
       ELSE /\ grading' = "measured"
            /\ receipt' = [correct |-> Correct(1..Cases), total |-> Scored(1..Cases)]
    /\ UNCHANGED <<batch, calls, verdicts, judged, budget, misses>>

GradingInit ==
    /\ grading = "idle" /\ batch = SmokeBatch
    /\ calls = [j \in Jobs(1..Cases) |-> [tries |-> 0, status |-> "none", usage |-> "none"]]
    /\ verdicts = [c \in 1..Cases |-> NoVerdict] /\ judged = [c \in 1..Cases |-> {}]
    /\ budget \in [max : Budgets, priced : BOOLEAN]
    /\ misses = 0 /\ receipt = [correct |-> 0, total |-> 0]

GradingNext ==
    \/ StartGrading \/ TargetsDone \/ EndSmoke \/ EndGrading
    \/ \E j \in Jobs(batch) : CallFails(j) \/ TargetAnswers(j) \/ JudgeAnswers(j)

GradingSpec == GradingInit /\ [][GradingNext]_gradingVars

-----------------------------------------------------------------------------
\* Types of the state.
GradingTypeOK ==
    /\ grading \in {"idle", "target", "judge", "measured", "not_tested", "refused"}
    /\ batch \in {SmokeBatch, RestBatch}
    /\ calls \in [Jobs(1..Cases) -> [tries : 0..Tries, status : {"none", "succeeded", "failed"},
                                     usage : Usage]]
    /\ verdicts \in [1..Cases -> [Dims -> BOOLEAN] \union {NoVerdict}]
    /\ receipt.correct \in 0..receipt.total

\* What a judge answered in the contract: the dimensions that have a score.
Decided(cases) == {p \in cases \X Dims : \E answer \in judged[p[1]] : answer.inContract}

\* The full run is paid for only after a smoke in which each call succeeded and
\* each case was judged: a smoke that judged error texts authorises nothing.
FullRunWasAuthorised ==
    (\E j \in Jobs(RestBatch) : calls[j].tries > 0)
    => Failures(SmokeBatch) = {} /\ Decided(SmokeBatch) = SmokeBatch \X Dims

\* "no missing judge score was synthesized": the accuracy of a receipt counts what
\* judges answered in the contract, whatever failed, was retried or came late.
ScoresAreTheJudges ==
    LET decided == Decided(IF grading = "measured" THEN 1..Cases ELSE SmokeBatch)
    IN  grading \in {"measured", "not_tested"}
        => /\ receipt.total = Cardinality(decided)
           /\ receipt.correct = Cardinality(
                {p \in decided : \E answer \in judged[p[1]] : answer.pass[p[2]]})

\* What a run paid for and what it reports are earned.
GradesAreEarned == FullRunWasAuthorised /\ ScoresAreTheJudges
=============================================================================
