---------------------------- MODULE MemoryBench ----------------------------
(***************************************************************************)
(* Benchmarks against an isolated semantic-memory server in a temporary    *)
(* directory: the STALE and Sleeper adapters of benchmark-diagnostic-      *)
(* memory.py and the state-validity suite of benchmark-memory-trust-       *)
(* kernel.py.  The server stores times in whole seconds and is right       *)
(* otherwise; it may refuse a call or stop answering.                      *)
(***************************************************************************)
EXTENDS Naturals, FiniteSets

CONSTANTS Adapters,      \* which benchmarks run: "stale", "sleeper", "kernel"
          Samples,       \* the cases of a benchmark
          Poison,        \* the Sleeper cases that must not be admitted
          TicksPerSecond,
          MaxTicks,      \* bound on the clock
          Never          \* the time of what is not stored

ASSUME BenchAssumption == TicksPerSecond \in Nat \ {0} /\ Never \notin Nat

VARIABLES bench,         \* the benchmark that runs and where it is
          sample,        \* the row under way: the case, the cutoff, its results
          rows,          \* per case: the row of the report
          stored,        \* per case: when old and new fact were stored (external)
          ticks

benchVars == <<bench, sample, rows, stored, ticks>>

-----------------------------------------------------------------------------
\* What a row says before it has run, or when it could not: "not_tested".
NotTested == [status |-> "not_tested", history |-> {}, found |-> FALSE, answered |-> {}]
NewSample(c) == [case |-> c, cutoff |-> Never, failed |-> FALSE, row |-> NotTested]
NothingStored == [old |-> Never, new |-> Never]

Second(t) == (t \div TicksPerSecond) * TicksPerSecond

\* Mutant of Waited: the benchmark goes on at once.
NotWaited(kind, t) == t

\* seconds_to_next_persisted_second: into the next whole second; the trust-kernel
\* benchmark sleeps 0.05 s, less than a tick.
Waited(kind, t) == IF kind = "stale" THEN Second(t) + TicksPerSecond ELSE t

\* What sm_search_as_of shows: times up to the cutoff count.
By(time, cutoff) == time # Never /\ time <= cutoff
AsOf(c, cutoff) ==
    {f \in {"old", "new"} : /\ By(stored[c][f], cutoff)
                            /\ f = "old" => ~By(stored[c].new, cutoff)}

-----------------------------------------------------------------------------
StartBench(kind) ==
    /\ bench.at = "idle"
    /\ bench' = [kind |-> kind, at |-> "launch", left |-> Samples]
    /\ rows' = [c \in Samples |-> NotTested]
    /\ stored' = [c \in Samples |-> NothingStored]
    /\ UNCHANGED <<sample, ticks>>

\* The handshake, the wait for the endpoint and the list of tools.
ServerReady ==
    /\ bench.at = "launch"
    /\ bench' = [bench EXCEPT !.at = "next"]
    /\ UNCHANGED <<sample, rows, stored, ticks>>

\* An exception anywhere in the run: no row is kept.
RowsAfterFailure == [c \in Samples |-> NotTested]

\* There is no server, it does not come up, or it does not answer in time.
ServerFails ==
    /\ bench.at \in {"launch", "add", "replace", "search", "history"}
    /\ rows' = RowsAfterFailure
    /\ bench' = [bench EXCEPT !.at = "report"]
    /\ UNCHANGED <<sample, stored, ticks>>

NextSample(c) ==
    /\ bench.at = "next" /\ c \in bench.left
    /\ sample' = NewSample(c)
    /\ bench' = [bench EXCEPT !.at = "add", !.left = @ \ {c}]
    /\ UNCHANGED <<rows, stored, ticks>>

\* One call of the row: answered, or refused with an error.
Answered(call, next) ==
    /\ bench.at = call
    /\ bench' = [bench EXCEPT !.at = next]

\* sm_add_fact admits the old fact or refuses it. A trust-kernel row without it has
\* failed and is done, a STALE row goes on without the replacement, a Sleeper row has failed
\* if poison is admitted or anything else refused.
AddOld ==
    LET c == sample.case
        afterwards(admitted) ==
            IF bench.kind = "sleeper" THEN "search"
            ELSE IF admitted THEN "replace" ELSE IF bench.kind = "kernel" THEN "next" ELSE "search"
    IN  \E admitted \in BOOLEAN :
          /\ Answered("add", afterwards(admitted))
          /\ stored' = IF admitted THEN [stored EXCEPT ![c].old = Second(ticks)] ELSE stored
          /\ sample' = [sample EXCEPT !.cutoff = ticks,
                          !.row.answered = IF admitted THEN {"add"} ELSE {},
                          !.failed = (admitted <=> bench.kind = "sleeper" /\ c \in Poison)]
          /\ ticks' = Waited(bench.kind, ticks)
          /\ rows' = IF bench.kind = "kernel" /\ ~admitted
                     THEN [rows EXCEPT ![c] = [NotTested EXCEPT !.status = "failed"]]
                     ELSE rows

\* sm_supersede_fact
Replace ==
    /\ Answered("replace", "search")
    /\ \/ /\ stored' = [stored EXCEPT ![sample.case].new = Second(ticks)]
          /\ sample' = [sample EXCEPT !.row.answered = @ \union {"replace"}]
       \/ sample' = [sample EXCEPT !.failed = TRUE] /\ UNCHANGED stored
    /\ UNCHANGED <<rows, ticks>>

Measured(s) == IF s.failed THEN "failed" ELSE "measured"

\* The search for what is current: a Sleeper row looks for its marker and is done.
\* A search that fails has not found it; the trust kernel's raises instead.
SearchCurrent ==
    /\ Answered("search", IF bench.kind = "sleeper" THEN "next" ELSE "history")
    /\ \E answers \in IF bench.kind = "kernel" THEN {TRUE} ELSE BOOLEAN :
         LET s == [sample EXCEPT !.failed = @ \/ ~answers,
                    !.row.answered = IF answers THEN @ \union {"search"} ELSE @,
                    !.row.found = answers /\ stored[sample.case].old # Never]
         IN  /\ sample' = s
             /\ rows' = IF bench.kind = "sleeper"
                        THEN [rows EXCEPT ![s.case] = [s.row EXCEPT !.status = Measured(s)]]
                        ELSE rows
    /\ UNCHANGED <<stored, ticks>>

\* sm_search_as_of ends the row; the trust kernel asks only if there was a
\* replacement for the row's status.
SearchHistory ==
    /\ Answered("history", "next")
    /\ \E answers \in BOOLEAN :
         LET s == [sample EXCEPT !.failed = IF bench.kind = "kernel" THEN @ ELSE @ \/ ~answers,
                    !.row.answered = IF answers THEN @ \union {"history"} ELSE @,
                    !.row.history = IF answers THEN AsOf(sample.case, sample.cutoff) ELSE {}]
         IN  /\ sample' = s
             /\ rows' = [rows EXCEPT ![s.case] = [s.row EXCEPT !.status = Measured(s)]]
    /\ UNCHANGED <<stored, ticks>>

\* The server is closed and its directory removed, also after a failure.
EndRows ==
    /\ bench.at = "next" /\ bench.left = {}
    /\ bench' = [bench EXCEPT !.at = "report"]
    /\ UNCHANGED <<sample, rows, stored, ticks>>

BenchTick ==
    /\ ticks < MaxTicks /\ bench.at \notin {"idle", "report"}
    /\ ticks' = ticks + 1
    /\ UNCHANGED <<bench, sample, rows, stored>>

BenchInit ==
    /\ bench = [kind |-> "none", at |-> "idle", left |-> {}]
    /\ sample = NewSample(Never)
    /\ rows = [c \in Samples |-> NotTested]
    /\ stored = [c \in Samples |-> NothingStored]
    /\ ticks = 0

BenchNext ==
    \/ \E kind \in Adapters : StartBench(kind)
    \/ ServerReady \/ ServerFails \/ AddOld \/ Replace \/ SearchCurrent \/ SearchHistory
    \/ EndRows \/ BenchTick
    \/ \E c \in Samples : NextSample(c)

BenchSpec == BenchInit /\ [][BenchNext]_benchVars

-----------------------------------------------------------------------------
\* Types of the state.
BenchTypeOK ==
    /\ bench.at \in {"idle", "launch", "next", "add", "replace", "search", "history",
                     "report"}
    /\ \A c \in Samples : /\ rows[c].status \in {"not_tested", "failed", "measured"}
                          /\ rows[c].history \subseteq {"old", "new"}

\* The calls that must have succeeded for a row to be measured.
Needed(c) == IF bench.kind # "sleeper" THEN {"add", "replace", "search", "history"}
             ELSE IF c \in Poison THEN {"search"} ELSE {"add", "search"}

\* "no semantic-memory result was simulated": a STALE or Sleeper report has a
\* measured row only if the server answered each call of it and the run never lost
\* the server.
NothingIsSimulated ==
    bench.at = "report" /\ bench.kind # "kernel"
    => /\ \A c \in Samples : rows[c].status = "measured" => Needed(c) \subseteq rows[c].answered
       /\ (\E c \in Samples : rows[c].status # "not_tested")
          => \A c \in Samples : rows[c].status # "not_tested"

\* The report of an as-of search is exact: a measured STALE row of a server that is
\* right shows the old fact and not its replacement, whatever the time of the calls.
HistoryIsExact ==
    bench.kind = "stale"
    => \A c \in Samples : rows[c].status = "measured" => rows[c].history = {"old"}

\* What a report says was measured was, and is right.
ReportIsReal == NothingIsSimulated /\ HistoryIsExact
=============================================================================
