---------------------------- MODULE RivalWorkers ----------------------------
(***************************************************************************)
(* The competitors of benchmark-diagnostic-memory.py: main() runs them in  *)
(* order, each in a worker process of its own interpreter that stores and  *)
(* searches the STALE cases through the competitor's public API.  A worker *)
(* writes its rows when it is done; one that outlasts 180 s is killed.     *)
(***************************************************************************)
EXTENDS Naturals, Sequences, FiniteSets

CONSTANTS Interpreters,  \* what --competitor-python may name: sets of competitors
          NumCases,      \* how many STALE cases are selected
          NumProbes      \* the queries of a case

ASSUME RivalAssumption == NumCases \in Nat \ {0} /\ NumProbes \in Nat \ {0}

RivalCases == 1..NumCases
Probes == 1..NumProbes

Competitors == <<"mem0", "graphiti_zep", "letta", "langmem">>
CompetitorIds == {Competitors[i] : i \in DOMAIN Competitors}

VARIABLES rivalRun,  \* main(): its options, the next competitor, where it is
          worker,    \* the worker process
          kept,      \* per case: the memories the competitor holds (external)
          servers,   \* the isolated Letta servers that run, by strategy (external)
          records    \* per competitor: its record in the report

rivalVars == <<rivalRun, worker, kept, servers, records>>

-----------------------------------------------------------------------------
NewRow == [failed |-> FALSE, history |-> FALSE, answered |-> 0,
           found |-> [p \in Probes |-> {}]]
NoWorker == [at |-> "none", ranking |-> FALSE, case |-> 0, row |-> NewRow, rows |-> <<>>]

\* _unmeasured_competitor
Unmeasured == [status |-> "not_tested", rows |-> <<>>, ranking |-> "none"]

Id == Competitors[rivalRun.next]
Step(step) == rivalRun.at = "worker" /\ worker.at = step

\* Mutant of Selected: only the probes that were answered count.
SelectedIfAnswered(row) == \A p \in 1..row.answered : "new" \in row.found[p]

\* The texts of a probe that was not answered are the empty string.
Selected(row) == \A p \in Probes : "new" \in row.found[p]

Suppressed(row) == \A p \in Probes : "old" \notin row.found[p]

\* _competitor_stale_metrics
StaleMetrics(id, row) ==
    [current    |-> Selected(row),
     suppressed |-> Suppressed(row),
     history    |-> id = "mem0" /\ row.history,
     conflict   |-> id = "mem0" /\ row.history /\ ~row.failed,
     responds   |-> Selected(row) /\ Suppressed(row)]

\* A row of a ranking worker is an observation of the order, with no metrics.
\* The Letta worker knows no ranking: its rows are those of the STALE cases.
\* What the competitor then held is kept with the row for the properties.
Observes == worker.ranking /\ Id # "letta"
WorkerRow ==
    [case |-> worker.case, failed |-> worker.row.failed, held |-> kept[worker.case],
     metrics |-> IF Observes THEN {} ELSE {StaleMetrics(Id, worker.row)}]

-----------------------------------------------------------------------------
StartWorker(ranking) ==
    worker' = [NoWorker EXCEPT !.at = IF Id = "letta" THEN "server 1" ELSE "open",
                               !.ranking = ranking]

NextCompetitor == rivalRun' = [rivalRun EXCEPT !.at = "choose", !.next = @ + 1]

StartRival ==
    /\ rivalRun.at = "choose" /\ rivalRun.next <= Len(Competitors)
    /\ Id \in rivalRun.given
    /\ rivalRun' = [rivalRun EXCEPT !.at = "worker"]
    /\ StartWorker(FALSE)
    /\ kept' = [c \in RivalCases |-> {}]
    /\ UNCHANGED <<servers, records>>

\* No interpreter, one that is not there, or a blocker receipt.
SkipRival ==
    /\ rivalRun.at = "choose" /\ rivalRun.next <= Len(Competitors)
    /\ NextCompetitor
    /\ records' = [records EXCEPT ![Id] = Unmeasured]
    /\ UNCHANGED <<worker, kept, servers>>

\* The worker imports its libraries and opens its store.
OpenStore ==
    /\ Step("open")
    /\ \/ Id \in {"mem0", "langmem"} /\ worker' = [worker EXCEPT !.at = "next"]
       \/ worker' = [worker EXCEPT !.at = "failed"]
    /\ UNCHANGED <<rivalRun, kept, servers, records>>

\* _start_isolated_letta_server: the command line, then the callable. One that is
\* not healthy within 60 s, or cannot be started, is terminated.
LaunchServer(strategy) ==
    /\ Step(IF strategy = 1 THEN "server 1" ELSE "server 2")
    /\ servers' = servers \union {strategy}
    /\ worker' = [worker EXCEPT !.at = "agent"]
    /\ UNCHANGED <<rivalRun, kept, records>>

ServerUnhealthy(strategy) ==
    /\ Step(IF strategy = 1 THEN "server 1" ELSE "server 2")
    /\ servers' = servers \ {strategy}
    /\ worker' = [worker EXCEPT !.at = IF strategy = 1 THEN "server 2" ELSE "failed"]
    /\ UNCHANGED <<rivalRun, kept, records>>

\* What is no OSError leaves it: an answer that is no HTTP, and nobody terminates the
\* server; or a log that is no text, of a server that was terminated.
StartEscapes(strategy) ==
    /\ Step(IF strategy = 1 THEN "server 1" ELSE "server 2")
    /\ servers' \in {servers, servers \union {strategy}}
    /\ worker' = [worker EXCEPT !.at = "failed"]
    /\ UNCHANGED <<rivalRun, kept, records>>

\* The agent must come without an embedding configuration; the finally clause
\* terminates the server. The client is made before the try that has that clause:
\* when that raises, the server runs on.
CreateAgent ==
    /\ Step("agent")
    /\ \/ worker' = [worker EXCEPT !.at = "next"] /\ UNCHANGED servers
       \/ worker' = [worker EXCEPT !.at = "failed"] /\ servers' \in {{}, servers}
    /\ UNCHANGED <<rivalRun, kept, records>>

BeginCase ==
    /\ Step("next") /\ worker.case < NumCases
    /\ worker' = [worker EXCEPT !.at = "add", !.case = @ + 1]
    /\ UNCHANGED <<rivalRun, kept, servers, records>>

\* The old memory, or every candidate of a ranking case, in a namespace of its own.
StoreOld ==
    /\ Step("add")
    /\ worker' = [worker EXCEPT !.at = IF Observes THEN "search" ELSE "update"]
    /\ kept' = IF Observes THEN kept ELSE [kept EXCEPT ![worker.case] = {"old"}]
    /\ UNCHANGED <<rivalRun, servers, records>>

\* Memory.update and the update tool replace the old memory; Letta has no update
\* and gets a second passage.
StoreNew ==
    /\ Step("update")
    /\ worker' = [worker EXCEPT !.at = "search"]
    /\ kept' = [kept EXCEPT ![worker.case] =
                  IF Id = "letta" THEN {"old", "new"} ELSE {"new"}]
    /\ UNCHANGED <<rivalRun, servers, records>>

\* What a search finds is for the competitor to say, among what it holds.
SearchProbe ==
    /\ Step("search") /\ worker.row.answered < NumProbes
    /\ \E found \in SUBSET (IF Observes THEN {} ELSE kept[worker.case]) :
          worker' = [worker EXCEPT !.row.answered = @ + 1,
                                    !.row.found[worker.row.answered + 1] = found]
    /\ UNCHANGED <<rivalRun, kept, servers, records>>

\* Only mem0 is asked for the history of the memory.
AskHistory ==
    /\ Step("search") /\ worker.row.answered = NumProbes
    /\ Id = "mem0" /\ ~Observes
    /\ \E known \in BOOLEAN :
          worker' = [worker EXCEPT !.at = "row", !.row.history = known]
    /\ UNCHANGED <<rivalRun, kept, servers, records>>

AllFound ==
    /\ Step("search") /\ worker.row.answered = NumProbes
    /\ Id # "mem0" \/ Observes
    /\ worker' = [worker EXCEPT !.at = "row"]
    /\ UNCHANGED <<rivalRun, kept, servers, records>>

\* A call that raises ends the case, not the worker. Letta's search is tried on a
\* second endpoint first.
CallRaises ==
    /\ \E step \in {"add", "update", "search"} : Step(step)
    /\ worker' = [worker EXCEPT !.at = "row", !.row.failed = TRUE]
    /\ UNCHANGED <<rivalRun, kept, servers, records>>

KeepRow ==
    /\ Step("row")
    /\ worker' = [worker EXCEPT !.at = "next", !.row = NewRow, !.rows = Append(@, WorkerRow)]
    /\ UNCHANGED <<rivalRun, kept, servers, records>>

\* The agent is deleted if possible, the server of a Letta worker terminated, the
\* rows written: a directory that cannot be removed or a full disk fails the worker.
WorkerEnds ==
    /\ Step("next") /\ worker.case = NumCases
    /\ \E at \in {"done", "failed"} : worker' = [worker EXCEPT !.at = at]
    /\ servers' = IF Id = "letta" THEN {} ELSE servers
    /\ UNCHANGED <<rivalRun, kept, records>>

AnyFailed(rows) == \E i \in DOMAIN rows : rows[i].failed

\* run_competitor_stale_subprocess reads what the worker left, and main() may run
\* the ranking worker next.
ReadStale ==
    /\ ~worker.ranking
    /\ \/ /\ Step("failed") \/ (Step("done") /\ Len(worker.rows) # NumCases)
          /\ records' = [records EXCEPT ![Id] = Unmeasured]
          /\ NextCompetitor /\ worker' = NoWorker
       \/ /\ Step("done") /\ Len(worker.rows) = NumCases
          /\ records' = [records EXCEPT ![Id].rows = worker.rows,
                  ![Id].status = IF AnyFailed(worker.rows) THEN "failed" ELSE "measured"]
          /\ IF rivalRun.ranking
             THEN StartWorker(TRUE) /\ UNCHANGED rivalRun
             ELSE NextCompetitor /\ worker' = NoWorker
    /\ UNCHANGED <<kept, servers>>

\* The rows of the Letta worker have no "failures" of their own: KeyError.
ReadRanking ==
    /\ worker.ranking
    /\ \/ /\ Step("failed")
          /\ records' = [records EXCEPT ![Id].ranking = "not_tested"]
          /\ NextCompetitor
       \/ /\ Step("done") /\ Id # "letta"
          /\ records' = [records EXCEPT ![Id].ranking =
                IF AnyFailed(worker.rows) THEN "failed" ELSE "diagnostic_only"]
          /\ NextCompetitor
       \/ /\ Step("done") /\ Id = "letta"
          /\ rivalRun' = [rivalRun EXCEPT !.at = "no report"]
          /\ UNCHANGED records
    /\ worker' = NoWorker
    /\ UNCHANGED <<kept, servers>>

\* TimeoutExpired is not caught: the worker is killed, and the report never written.
WorkerTimesOut ==
    /\ rivalRun.at = "worker" /\ worker.at \notin {"done", "failed"}
    /\ rivalRun' = [rivalRun EXCEPT !.at = "no report"]
    /\ worker' = NoWorker
    /\ UNCHANGED <<kept, servers, records>>

RivalReport ==
    /\ rivalRun.at = "choose" /\ rivalRun.next > Len(Competitors)
    /\ rivalRun' = [rivalRun EXCEPT !.at = "report"]
    /\ UNCHANGED <<worker, kept, servers, records>>

-----------------------------------------------------------------------------
RivalInit ==
    /\ \E given \in Interpreters, ranking \in BOOLEAN :
          rivalRun = [at |-> "choose", next |-> 1, given |-> given, ranking |-> ranking]
    /\ worker = NoWorker
    /\ kept = [c \in RivalCases |-> {}]
    /\ servers = {}
    /\ records = [r \in CompetitorIds |-> Unmeasured]

RivalNext ==
    \/ StartRival \/ SkipRival \/ OpenStore \/ CreateAgent
    \/ \E strategy \in {1, 2} :
          LaunchServer(strategy) \/ ServerUnhealthy(strategy) \/ StartEscapes(strategy)
    \/ BeginCase \/ StoreOld \/ StoreNew \/ AskHistory \/ AllFound \/ SearchProbe \/ CallRaises
    \/ KeepRow \/ WorkerEnds \/ ReadStale \/ ReadRanking \/ WorkerTimesOut \/ RivalReport

RivalSpec == RivalInit /\ [][RivalNext]_rivalVars

-----------------------------------------------------------------------------
\* Types of the state.
RivalTypeOK ==
    /\ rivalRun.at \in {"choose", "worker", "report", "no report"}
    /\ rivalRun.next \in 1..(Len(Competitors) + 1) /\ rivalRun.given \in Interpreters
    /\ worker.case \in 0..NumCases
    /\ kept \in [RivalCases -> SUBSET {"old", "new"}]
    /\ servers \subseteq {1, 2}
    /\ \A r \in CompetitorIds :
          /\ records[r].status \in {"not_tested", "failed", "measured"}
          /\ records[r].ranking \in {"none", "not_tested", "failed", "diagnostic_only"}

\* A row claims the current state, a history or a conflict only if the competitor
\* held and returned it.
EarnedRow(r, row) == \A m \in row.metrics :
    /\ m.current => "new" \in row.held
    /\ m.responds => m.current /\ m.suppressed
    /\ m.history \/ m.conflict => r = "mem0" /\ row.held = {"new"}

\* A run of the Letta worker, on the STALE cases or on the ranking, failed.
LettaTurn == CHOOSE i \in DOMAIN Competitors : Competitors[i] = "letta"
Abandoned == "not_tested" \in {records["letta"].status, records["letta"].ranking}

\* "neither behavior was emulated": every row of the competitor that was run, a
\* failed one too, claims only what its store held; a measured competitor has a row
\* of every case and no failure in any, one that was not tested has none. A Letta
\* server that outlives its worker is one the report owns up to: some run of the
\* Letta worker is not tested.
RivalsAreReal ==
    /\ \A r \in CompetitorIds :
          /\ \A i \in DOMAIN records[r].rows : EarnedRow(r, records[r].rows[i])
          /\ records[r].status = "measured" =>
                /\ {records[r].rows[i].case : i \in DOMAIN records[r].rows} = RivalCases
                /\ ~AnyFailed(records[r].rows)
          /\ records[r].status = "not_tested" => records[r].rows = <<>>
    /\ rivalRun.at \in {"choose", "report"} /\ servers # {} =>
          Abandoned /\ rivalRun.next > LettaTurn
=============================================================================
