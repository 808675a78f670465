---------------------------- MODULE HealthChecks ----------------------------
(***************************************************************************)
(* The health checks: the daily check of the Hermes additions              *)
(* (daily-health-check.py), the doctors (doctor_core.py, doctor-all.py,    *)
(* the Codex and Pro doctors) and the unified installer that runs the deep *)
(* doctor and shows its receipt (scripts/install.sh).                      *)
(*                                                                         *)
(* A program is a list of stages, a stage a list of checks that one        *)
(* process makes in order while the parts of the system change.            *)
(***************************************************************************)
EXTENDS Naturals, Sequences

CONSTANTS Checkers,      \* the programs that run at one time
          Programs,      \* a subset of the programs of Stages
          MaxChecks,     \* bound on the runs
          MaxTurns       \* bound on the changes of the parts

Programmes == {"hook", "recall", "suite", "http", "unit", "server",
               "governor", "governor_mcp", "receipts", "ledger", "surface",
               "license_server"}
Files == {"plugin", "configs", "manifest", "codex_plugin", "codex_config", "pro_config"}
Subjects == Programmes \union Files
Conditions == {"good", "bad", "hangs"}

ASSUME HealthAssumption ==
    /\ Programs \subseteq {"daily", "doctor_all", "install", "codex", "pro"}
    /\ {MaxChecks, MaxTurns} \subseteq Nat

VARIABLES condition,   \* what state each part is in
          checkRun,    \* the run of each checker
          daily,       \* ~/.hermes/daily-health-report.json
          bundle,      \* the newest doctor-all receipt
          summary,     \* what the last installer showed: its run and the receipt
          checksDone,  \* runs started
          turns        \* changes of the parts

healthVars == <<condition, checkRun, daily, bundle, summary, checksDone, turns>>

-----------------------------------------------------------------------------
(* What the checks make of a part that is bad, and of one that hangs: they *)
(* pass it, note it, find it critical, or end the process.  A file does not *)
(* hang.                                                                    *)

Check(of, bad, hangs) ==
    [of |-> of, good |-> {"passed"}, bad |-> bad, hangs |-> hangs]
FileCheck(of, bad) == Check(of, bad, {})

\* The daily check.  Importing a hook that raises prints IMPORT_FAIL and exits
\* with 0; only the recall hook's own failure is critical, its timeout is not.
HookImport == Check("hook",   {"critical", "passed"}, {"crash"})
RecallRuns == Check("recall", {"critical"}, {"noted"})
HookRuns == Check("hook",   {"noted"},    {"noted"})

\* "1 failed, 2 passed" is read as two passed and none failed.
TestSuites == Check("suite",  {"noted", "passed"},    {"crash"})

\* Mutant of ServerHealth: a request that times out is noted, as with recall.
ServerHealthIfRefused == Check("http", {"critical"}, {"noted"})

ServerHealth == Check("http", {"critical"}, {"critical"})
UnitActive == Check("unit", {"critical"}, {"crash"})
ServerBinary == Check("server", {"critical"}, {"passed"})

\* Only the manifests that are there are looked at: a plugin that has lost both
\* leaves no trace in the report.
PluginFiles == FileCheck("plugin", {"critical", "passed"})

DailyChecks ==
    << HookImport, RecallRuns, HookRuns, TestSuites, ServerHealth, UnitActive, ServerBinary,
       PluginFiles >>

\* The core doctor.  Every exception of a check is caught but those of the deep
\* compaction, whose script fails open: a governor that cannot compact or store
\* gives exit status 0 too.  A governor that is bad is not installed; one that
\* fails or outlasts its status call is noted.
HttpProbe == Check("http",         {"noted"},    {"noted"})
ServerTools == Check("server",       {"critical"}, {"critical"})
GovernorStatus == Check("governor",     {"critical"}, {"noted"})
GovernorListing == Check("governor_mcp", {"critical"}, {"critical"})
ConfigPaths == FileCheck("configs",  {"noted"})
HookManifests == FileCheck("manifest", {"critical", "noted"})
CompactSmoke == Check("receipts",     {"passed", "critical"}, {"crash"})
LedgerListing == Check("ledger",       {"noted"},    {"noted"})
ToolSurfaces == Check("surface",      {"noted"},    {"noted"})

CoreChecks(deep) ==
    << HttpProbe, ServerTools, GovernorStatus, GovernorListing, ConfigPaths >>
    \o IF deep THEN << HookManifests, CompactSmoke, LedgerListing, ToolSurfaces >>
               ELSE << >>

\* The Codex doctor prints what it finds.
PluginSource == FileCheck("codex_plugin", {"critical"})
CodexConfig == FileCheck("codex_config", {"critical", "noted"})
CodexTools == Check("server", {"critical"}, {"critical"})
CodexStats == Check("server", {"critical"}, {"critical"})

CodexChecks == << PluginSource, CodexConfig, CodexTools, CodexStats >>

\* The Pro doctor: its configuration's mode, then the license server.
ProChecks == << FileCheck("pro_config", {"critical"}),
                Check("license_server", {"critical"}, {"critical"}) >>

Stages(program) ==
    CASE program = "daily" -> << DailyChecks >>
      [] program \in {"doctor_all", "install"} -> << CoreChecks(TRUE), CoreChecks(FALSE) >>
      [] program = "codex" -> << CodexChecks >>
      [] program = "pro"   -> << ProChecks >>

Blocking(outcome) == outcome \in {"critical", "crash"}

NoRun == [program |-> "none"]
Busy(c) == checkRun[c] # NoRun
Stage(c) == Stages(checkRun[c].program)[checkRun[c].stage]

\* How a stage ended: every outcome in it, as the program decides its exit status.
Clean(outcomes) == ~ \E o \in outcomes : Blocking(o.outcome)

-----------------------------------------------------------------------------
StartCheck(c, program) ==
    /\ ~Busy(c) /\ checksDone < MaxChecks
    /\ checksDone' = checksDone + 1
    /\ checkRun' = [checkRun EXCEPT ![c] =
         [program |-> program, number |-> checksDone + 1, stage |-> 1, step |-> 1,
          outcomes |-> {}, after |-> bundle.number]]
    /\ UNCHANGED <<condition, daily, bundle, summary, turns>>

\* The next check of the stage, made of the part as it now is.
MakeCheck(c) ==
    /\ Busy(c) /\ checkRun[c].step <= Len(Stage(c))
    /\ LET check == Stage(c)[checkRun[c].step] IN
       \E outcome \in check[condition[check.of]] :
          checkRun' = [checkRun EXCEPT
             ![c].outcomes = @ \union {[of |-> check.of, was |-> condition[check.of],
                                        outcome |-> outcome]},
             ![c].step = IF outcome = "crash" THEN Len(Stage(c)) + 1 ELSE @ + 1]
    /\ UNCHANGED <<condition, daily, bundle, summary, checksDone, turns>>

StageEnded(c) == Busy(c) /\ checkRun[c].step > Len(Stage(c))
Crashed(c) == \E o \in checkRun[c].outcomes : o.outcome = "crash"
LastStage(c) == checkRun[c].stage = Len(Stages(checkRun[c].program))

\* doctor-all records the exit status of a doctor, a crashed one too, and goes on.
NextStage(c) ==
    /\ StageEnded(c) /\ ~LastStage(c)
    /\ checkRun' = [checkRun EXCEPT ![c].stage = @ + 1, ![c].step = 1]
    /\ UNCHANGED <<condition, daily, bundle, summary, checksDone, turns>>

EndDaily(c) ==
    /\ StageEnded(c) /\ checkRun[c].program = "daily"
    /\ daily' = IF Crashed(c) THEN daily
                ELSE [ok |-> Clean(checkRun[c].outcomes), outcomes |-> checkRun[c].outcomes]
    /\ checkRun' = [checkRun EXCEPT ![c] = NoRun]
    /\ UNCHANGED <<condition, bundle, summary, checksDone, turns>>

\* The Pro doctor prints its receipt; the Codex doctor's exit status is always 0.
EndPrinted(c) ==
    /\ StageEnded(c) /\ checkRun[c].program \in {"codex", "pro"}
    /\ checkRun' = [checkRun EXCEPT ![c] = NoRun]
    /\ UNCHANGED <<condition, daily, bundle, summary, checksDone, turns>>

\* The installer goes on whatever the doctor's exit status, and shows the newest
\* receipt of the directory; with none there, ls ends the script (pipefail).
Shown(c, newest) ==
    IF checkRun[c].program # "install" \/ newest.number = 0 THEN summary
    ELSE [after |-> checkRun[c].after, receipt |-> newest.number]

EndDoctor(c) ==
    /\ StageEnded(c) /\ LastStage(c)
    /\ checkRun[c].program \in {"doctor_all", "install"}
    /\ LET receipt == [number |-> bundle.number + 1, ok |-> Clean(checkRun[c].outcomes),
                       outcomes |-> checkRun[c].outcomes]
       IN  /\ bundle' = receipt
           /\ summary' = Shown(c, receipt)
    /\ checkRun' = [checkRun EXCEPT ![c] = NoRun]
    /\ UNCHANGED <<condition, daily, checksDone, turns>>

\* A doctor that outlasts its 120 or 180 s, or a full disk, ends doctor-all
\* before its receipt is written.
DoctorAborts(c) ==
    /\ Busy(c) /\ checkRun[c].program \in {"doctor_all", "install"}
    /\ \E o \in checkRun[c].outcomes : o.was = "hangs"
    /\ summary' = Shown(c, bundle)
    /\ checkRun' = [checkRun EXCEPT ![c] = NoRun]
    /\ UNCHANGED <<condition, daily, bundle, checksDone, turns>>

\* External: a part of the system breaks, hangs or is repaired.
PartChanges(s) ==
    /\ turns < MaxTurns /\ turns' = turns + 1
    /\ \E now \in (Conditions \ {condition[s]}) \ (IF s \in Files THEN {"hangs"} ELSE {}) :
          condition' = [condition EXCEPT ![s] = now]
    /\ UNCHANGED <<checkRun, daily, bundle, summary, checksDone>>

-----------------------------------------------------------------------------
HealthInit ==
    /\ condition = [s \in Subjects |-> "good"]
    /\ checkRun = [c \in Checkers |-> NoRun]
    /\ daily = [ok |-> FALSE, outcomes |-> {}]
    /\ bundle = [number |-> 0, ok |-> FALSE, outcomes |-> {}]
    /\ summary = [after |-> 0, receipt |-> 0]
    /\ checksDone = 0 /\ turns = 0

HealthNext ==
    \/ \E c \in Checkers :
          \/ \E program \in Programs : StartCheck(c, program)
          \/ MakeCheck(c)
          \/ NextStage(c)
          \/ EndDaily(c)
          \/ EndPrinted(c)
          \/ EndDoctor(c)
          \/ DoctorAborts(c)
    \/ \E s \in Subjects : PartChanges(s)

HealthSpec == HealthInit /\ [][HealthNext]_healthVars

-----------------------------------------------------------------------------
Outcomes == [of : Subjects, was : Conditions,
             outcome : {"passed", "noted", "critical", "crash"}]

\* Types of the state.
HealthTypeOK ==
    /\ condition \in [Subjects -> Conditions]
    /\ \A c \in Checkers : Busy(c) =>
          /\ checkRun[c].program \in Programs
          /\ checkRun[c].step \in 1..(Len(Stage(c)) + 1)
          /\ checkRun[c].outcomes \subseteq Outcomes
    /\ daily.ok \in BOOLEAN /\ daily.outcomes \subseteq Outcomes
    /\ bundle.number \in 0..MaxChecks /\ bundle.ok \in BOOLEAN
    /\ summary \in [after : 0..MaxChecks, receipt : 0..MaxChecks]
    /\ checksDone \in 0..MaxChecks /\ turns \in 0..MaxTurns

Found(report, s) == {o.was : o \in {p \in report.outcomes : p.of = s}}

\* A green report is earned by the run that wrote it: what the daily check must
\* have (the HTTP server and its unit) and what the doctors must have (the
\* server, the governor and its MCP server, in every stage) was up when that run
\* looked, however the parts changed in between and whichever checks crashed; the
\* checks that can pass a broken part (imports, suites, the plugin's manifests, the
\* deep smoke) are left out.
GreenIsEarned ==
    /\ daily.ok => \A s \in {"http", "unit"} : Found(daily, s) = {"good"}
    /\ bundle.ok => /\ \A s \in {"server", "governor_mcp"} : Found(bundle, s) = {"good"}
                    /\ "bad" \notin Found(bundle, "governor")
                    /\ "hangs" \notin Found(bundle, "receipts")
=============================================================================
