-------------------------- MODULE RecallAdmission --------------------------
(***************************************************************************)
(* The recall admission ledger (recall_admission.py), which keeps popular  *)
(* but irrelevant facts out of a recall.  Every process counts the lines   *)
(* of the file once, when it starts, and from then on only its own.        *)
(***************************************************************************)
EXTENDS Naturals, FiniteSets, SequencesExt

CONSTANTS Holders,        \* the processes
          Results,        \* result ids
          HubThreshold,   \* HUB_THRESHOLD
          MaxLines,       \* bound on the lines written, and on a count
          MaxTornLines,   \* bound on lines that end half way
          NotLoaded,      \* a process that has not read the file
          Torn,           \* a line that ends half way
          Garbled         \* a torn line with the next one run into it

ASSUME AdmissionAssumption == {HubThreshold, MaxLines, MaxTornLines} \subseteq Nat

\* Scores against LOW_SCORE_THRESHOLD and DEMOTE_SCORE_THRESHOLD.
Scores == {"low", "middling", "high"}

VARIABLES admissions,    \* the lines of the file
          counters,      \* per process: _global_freq
          linesBefore,   \* per process: the lines of each result when it loaded
          tornLines

admissionVars == <<admissions, counters, linesBefore, tornLines>>

Written == {i \in DOMAIN admissions : admissions[i] \notin {Torn, Garbled}}

\* Mutant of Frequencies: only the lines that were admitted are counted.
AdmittedFrequencies ==
    [r \in Results |-> Cardinality({i \in Written :
        admissions[i].result = r /\ admissions[i].admitted})]

\* _load: a line that does not parse is skipped.
Frequencies ==
    [r \in Results |-> Cardinality({i \in Written : admissions[i].result = r})]

LoadAdmissions(p) ==
    /\ counters[p] = NotLoaded
    /\ counters' = [counters EXCEPT ![p] = Frequencies]
    /\ linesBefore' = [linesBefore EXCEPT ![p] = [r \in Results |->
          Cardinality({i \in Written : admissions[i].result = r})]]
    /\ UNCHANGED <<admissions, tornLines>>

\* evaluate: a hub with little overlap is out, then a low score; both only without
\* a namespace match. A middling score is demoted and admitted.
Admitted(frequency, overlaps, score, namespaceMatch) ==
    \/ namespaceMatch
    \/ /\ ~(frequency > HubThreshold /\ ~overlaps)
       /\ score # "low"

\* What is written after a line without its end continues that line.
AppendedLine(line) ==
    IF admissions # << >> /\ Last(admissions) = Torn THEN Append(Front(admissions), Garbled)
    ELSE Append(admissions, line)

\* evaluate and write: the decision uses the counters of this process.
EvaluateAndWrite(p, result) ==
    /\ counters[p] # NotLoaded /\ Len(admissions) < MaxLines
    /\ counters[p][result] < MaxLines
    /\ \E overlaps, namespaceMatch \in BOOLEAN, score \in Scores :
         admissions' = AppendedLine(
            [result |-> result, fits |-> overlaps \/ namespaceMatch,
             admitted |-> Admitted(counters[p][result], overlaps, score, namespaceMatch),
             before |-> linesBefore[p][result]])
    /\ counters' = [counters EXCEPT ![p][result] = @ + 1]
    /\ UNCHANGED <<linesBefore, tornLines>>

\* A process dies in the write.
TearLine(p) ==
    /\ counters[p] # NotLoaded /\ tornLines < MaxTornLines /\ Len(admissions) < MaxLines
    /\ admissions' = AppendedLine(Torn)
    /\ counters' = [counters EXCEPT ![p] = NotLoaded]
    /\ tornLines' = tornLines + 1
    /\ UNCHANGED linesBefore

\* reset deletes the file; the other processes keep what they counted.
ResetAdmissions(p) ==
    /\ counters[p] # NotLoaded
    /\ admissions' = << >>
    /\ counters' = [counters EXCEPT ![p] = [r \in Results |-> 0]]
    /\ linesBefore' = [q \in Holders |-> [r \in Results |-> 0]]
    /\ UNCHANGED tornLines

HolderEnds(p) ==
    /\ counters[p] # NotLoaded
    /\ counters' = [counters EXCEPT ![p] = NotLoaded]
    /\ UNCHANGED <<admissions, linesBefore, tornLines>>

-----------------------------------------------------------------------------
AdmissionInit ==
    /\ admissions = << >>
    /\ counters = [p \in Holders |-> NotLoaded]
    /\ linesBefore = [p \in Holders |-> [r \in Results |-> 0]]
    /\ tornLines = 0

AdmissionNext ==
    \E p \in Holders :
       \/ LoadAdmissions(p)
       \/ \E r \in Results : EvaluateAndWrite(p, r)
       \/ TearLine(p)
       \/ ResetAdmissions(p)
       \/ HolderEnds(p)

AdmissionSpec == AdmissionInit /\ [][AdmissionNext]_admissionVars

-----------------------------------------------------------------------------
\* Types of the state.
AdmissionTypeOK ==
    /\ Len(admissions) <= MaxLines /\ tornLines \in 0..MaxTornLines
    /\ \A i \in Written :
          admissions[i].result \in Results /\ admissions[i].admitted \in BOOLEAN
    /\ \A p \in Holders :
          /\ counters[p] # NotLoaded => counters[p] \in [Results -> Nat]
          /\ linesBefore[p] \in [Results -> Nat]

\* A result that was a hub when a process loaded the ledger is never admitted by it
\* for a query it has little to do with: staleness lets a hub in only for as long
\* as the process has been running, and torn lines only lower the count.
HubsStayOut ==
    \A i \in Written :
       admissions[i].before > HubThreshold /\ ~admissions[i].fits => ~admissions[i].admitted
=============================================================================
