----------------------------- MODULE Viscosity -----------------------------
(***************************************************************************)
(* The viscosity governor (viscosity.py): loop metrics are recorded in a   *)
(* file that each recorder loads once and rewrites as a whole, and the     *)
(* newest of them decide how strict recall is.                             *)
(***************************************************************************)
EXTENDS Integers, Sequences

CONSTANTS Recorders,       \* the processes
          Window,          \* the records that count, 10 in the code
          MaxRecords,      \* bound on the records made
          MaxTornSaves,    \* bound on saves that end half way
          NoHistory,       \* a process that has not read the file
          TornFile         \* what a save that ended half way leaves

\* Loop metrics: success and error rates (0 or 1) and contradictions.
Metrics == { [success |-> 1, error |-> 0, contradictions |-> 0],
             [success |-> 0, error |-> 0, contradictions |-> 0],
             [success |-> 0, error |-> 1, contradictions |-> 5] }

\* A torn file, and a process without one, are no history.
ASSUME ViscosityAssumption ==
    /\ Window \in Nat \ {0} /\ MaxRecords \in Nat /\ MaxTornSaves \in Nat
    /\ {TornFile, NoHistory} \intersect Seq(Metrics) = {}

VARIABLES loopHistory,     \* viscosity.json: a sequence of metrics, or TornFile
          loaded,      \* per process: the history it holds
          saving,      \* the processes that have opened the file to write it
          posture,     \* per process: the level it last computed
          recorded,    \* every record made, in order
          raced,       \* two recorders have overlapped
          tornSaves

viscosityVars == <<loopHistory, loaded, saving, posture, recorded, raced, tornSaves>>

\* Mutant of Recent: the oldest records instead of the newest.
OldestRecords(records) ==
    SubSeq(records, 1, IF Len(records) < Window THEN Len(records) ELSE Window)

Recent(records) ==
    SubSeq(records, IF Len(records) > Window THEN Len(records) - Window + 1 ELSE 1, Len(records))

Total(records, field) ==
    LET sum[n \in 0..Len(records)] == IF n = 0 THEN 0 ELSE sum[n - 1] + records[n][field]
    IN  sum[Len(records)]

\* The composite score, in hundredths times the number of recent records.
Composite(recent) ==
    LET n == Len(recent)
        contradictions == 3 * n * Total(recent, "contradictions")
    IN  40 * (n - Total(recent, "success")) + 30 * Total(recent, "error")
        + (IF contradictions < 30 * n THEN contradictions ELSE 30 * n)

Level(records) ==
    LET recent == Recent(records)
        below(percent) == Composite(recent) < percent * Len(recent)
    IN  CASE recent = << >> \/ below(30) -> "fluid"
          [] recent # << >> /\ ~below(30) /\ below(50) -> "normal"
          [] recent # << >> /\ ~below(50) /\ below(70) -> "strict"
          [] OTHER -> "frozen"

\* _load: a file that does not parse is an empty history.
Parsed == IF loopHistory = TornFile THEN << >> ELSE loopHistory

LoadHistory(p) ==
    /\ loaded[p] = NoHistory
    /\ loaded' = [loaded EXCEPT ![p] = Parsed]
    /\ posture' = [posture EXCEPT ![p] = Level(Parsed)]
    /\ UNCHANGED <<loopHistory, saving, recorded, raced, tornSaves>>

\* record, up to where _save opens the file for writing, which empties it.
RecordLoop(p, metrics) ==
    /\ loaded[p] # NoHistory /\ p \notin saving /\ Len(recorded) < MaxRecords
    /\ loaded' = [loaded EXCEPT ![p] = Append(@, metrics)]
    /\ loopHistory' = TornFile
    /\ saving' = saving \union {p}
    /\ posture' = [posture EXCEPT ![p] = Level(loaded'[p])]
    /\ recorded' = Append(recorded, metrics)
    /\ raced' = (raced \/ saving # {} \/ loaded[p] # Parsed)
    /\ UNCHANGED tornSaves

\* The whole history of this process is written.  What another wrote meanwhile and is
\* longer shows behind it.
SaveHistory(p) ==
    /\ p \in saving
    /\ loopHistory' = IF loopHistory # TornFile /\ Len(loopHistory) > Len(loaded[p])
                      THEN TornFile ELSE loaded[p]
    /\ saving' = saving \ {p}
    /\ UNCHANGED <<loaded, posture, recorded, raced, tornSaves>>

\* The process dies before the file is written.
TearSave(p) ==
    /\ p \in saving /\ tornSaves < MaxTornSaves
    /\ loopHistory' = TornFile
    /\ loaded' = [loaded EXCEPT ![p] = NoHistory]
    /\ saving' = saving \ {p}
    /\ tornSaves' = tornSaves + 1
    /\ UNCHANGED <<posture, recorded, raced>>

RecorderEnds(p) ==
    /\ loaded[p] # NoHistory /\ p \notin saving
    /\ loaded' = [loaded EXCEPT ![p] = NoHistory]
    /\ UNCHANGED <<loopHistory, saving, posture, recorded, raced, tornSaves>>

-----------------------------------------------------------------------------
ViscosityInit ==
    /\ loopHistory = << >> /\ recorded = << >>
    /\ loaded = [p \in Recorders |-> NoHistory]
    /\ posture = [p \in Recorders |-> "fluid"]
    /\ saving = {} /\ raced = FALSE /\ tornSaves = 0

ViscosityNext ==
    \E p \in Recorders :
       \/ LoadHistory(p)
       \/ \E m \in Metrics : RecordLoop(p, m)
       \/ SaveHistory(p)
       \/ TearSave(p)
       \/ RecorderEnds(p)

ViscositySpec == ViscosityInit /\ [][ViscosityNext]_viscosityVars

-----------------------------------------------------------------------------
\* Types of the state.
ViscosityTypeOK ==
    /\ loopHistory # TornFile => loopHistory \in Seq(Metrics)
    /\ \A p \in Recorders :
          /\ loaded[p] # NoHistory => loaded[p] \in Seq(Metrics)
          /\ posture[p] \in {"fluid", "normal", "strict", "frozen"}
    /\ saving \subseteq {p \in Recorders : loaded[p] # NoHistory}
    /\ recorded \in Seq(Metrics) /\ raced \in BOOLEAN /\ tornSaves \in 0..MaxTornSaves

\* While recorders have not overlapped and no save was torn, a process that holds
\* the history is frozen after Window bad loops and fluid after Window good ones,
\* whatever came before: a race or a torn save can relax recall, nothing else.
PostureFollowsTheLoops ==
    \A p \in Recorders :
       /\ ~raced /\ tornSaves = 0 /\ loaded[p] # NoHistory /\ loaded[p] = loopHistory
       /\ Len(recorded) >= Window
       => LET latest == {recorded[i] : i \in (Len(recorded) - Window + 1)..Len(recorded)} IN
          /\ (\A m \in latest : m.error = 1) => posture[p] = "frozen"
          /\ (\A m \in latest : m.success = 1) => posture[p] = "fluid"
=============================================================================
