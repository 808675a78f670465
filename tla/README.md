# agent-memory-kits in TLA+

Specifications, model-checking runs and proofs for the part of
`RecursiveIntell/agent-memory-kits` that keeps state and takes decisions: the
release gate with its proof-debt budget, the background ingest of a codebase and the
ingester it starts, the Pro license server with its clients, the hooks that recall
memory, and the tools that compact, check, authorise, install, watch and measure.
Paths below are relative to the repository, which sits in `../src`.

The kits are Python and shell programs around Rust MCP servers that live
elsewhere (`semantic-memory-mcp`, `context-governor`, `claim-ledger`). Nearly
everything is a short-lived process: a hook of Claude Code or Codex, a script an
agent runs, a detached child. Such processes share nothing but files (JSON, JSONL,
stamp and lock files), which they read once, decide on, and write later, mostly
without a lock. What can go wrong is therefore rarely inside one script. It is
two invocations that overlap, an invocation that is killed or times out between
two file operations, and a file that is read between its truncation and its write.

## 1. Inventory

In the table, "hard" is what a unit test hardly reaches.

| component | state | operations | interacts with | hard | correct when |
|---|---|---|---|---|---|
| **Proof-debt budget** `shared/scripts/proof_debt.py` | JSONL store, one line per unverified claim; each process's snapshot of it | load, `incur` (append), `pay` (mark, truncate, rewrite), `unpaid_count`, `is_blocked` | release gates, the user's shell | stale snapshots, lost updates, torn lines, kill inside the rewrite | a promotion adds debt only below the threshold; entries and payments survive; nothing is settled by accident |
| **Release gate v2** `shared/scripts/release-gate-v2.py` | none of its own; writes a packet per run | run commands, adjudicate, debt check, fail-closed handler, packet | budget, license client, `claim-ledger` and memory (optional, best effort) | races on the budget, exceptions half-way, packets named by the second | verdict and debt agree; the receipt stays; every run ends |
| **Automatic ingest hook** `codex/.../hooks/codebase-auto-ingest.py` | stamp file, lock file; a detached runner | classify prompt, coverage query, `already_current`, lock protocol, spawn, rewrite of the stamp, unlock | host (5 s timeout), git, memory server, ingester | stale lock removal by path, stamp read outside the lock, kills at each step | one ingest at a time; no run repeated within the TTL by a hook that could have known; a failed one retried after it; the stamp tells the truth; the lock is given back |
| **Codebase ingester** `.../scripts/ingest_codebase.py` (three copies) | facts and edges in the memory server | walk, dedupe search, `add_facts`, `add_edges` in batches with 4 attempts | memory server, started by the hook or by hand | an answer lost after the call was done, a batch that stops in the middle, refusals, partial failure with exit code 0 | a duplicate only for a lost answer or a missed search; edges that say what a manifest says; it ends |
| **Pro license server and client** `pro/license-server.py`, `license_client.py` | JSON database with machine locks; a token cache per machine | `/verify-license`, `/create-license`, `/revoke-license`; `get_token` with cache | gates and other Pro scripts | crash inside the database write, late answers, tokens that outlive a revocation, concurrent cache writes | one machine per license; admins' changes stay; revocation takes effect |
| **Recall hooks** `hooks/memory-recall.*`, `memory-primer.*`, `hooks/common.py`, `semantic-memory-context.py` | none; one context per prompt | namespace passes, search, second searches, lookup of superseded facts, thresholds, common words | memory server | failures and timeouts of the server in the middle of the passes, a memory that changes between two calls | inside a repository never a fact of another one; no superseded fact; it ends |
| **Recall admission** `shared/scripts/recall_admission.py` | JSONL ledger of candidates; counters read at start | `evaluate`, `write`, reset | recall | counters stale across processes, torn lines | a hub is held back |
| **Viscosity governor** `shared/scripts/viscosity.py` | JSON history | load, record and rewrite the whole history, level | hooks | lost updates, a file emptied before it is written | the posture is that of the last loops |
| **Authority leases** `shared/scripts/authority-delegation.py` | JSONL leases | create, verify, list | forge-admin | times cut to seconds, clock at the boundary, torn lines | an expired lease authorises nothing |
| **Admin preflight** `shared/scripts/admin-preflight.py` | none; JSON papers in the operator's hands | preflight, postflight, verify-receipt | admin commands | – | – (section 6) |
| **Patch verification, packet join** `verify-patch.py`, `proof-packet.py`, `evidence-workbench.py` | sandbox directories, receipts | copy, check, receipt, timeout; fail-closed join | forge server, CI, gate | a tree edited while it is copied, timeouts, sandboxes left behind, receipts of another kind | promoted only on checks that passed; a receipt names what was checked |
| **Compaction hooks** `context-governor-compact.py` and variants | receipts and summaries in the governor's store | compact, store, summary by a model, message | `context-governor`, a model | the store comes and goes, the model drops references | what is said to be recoverable is |
| **MCP stdio servers** `*-mcp.py` | request loop | initialise, list, call, notifications | hosts, child processes | pipelined requests, a child that fails or hangs, notifications, ids that are missing | each request gets its own answer |
| **Installers** `setup-host.py`, `install-*.{py,sh}`, `claude/install.sh`, `pro/install.py` | host configuration and its backups | read, back up, merge, write | the user's host | a stop between two steps or within the write, repeated installs, files the user broke | what the user wrote outside the installer's part survives; that part is there once |
| **Audits, maintenance reports** `audit_memory.py`, `memory-gaps.py`, `hostile-audit.py` | none | paged counts, searches, graph checks | memory server | a memory and a server that change during the report | a count, and a gap, the memory really had |
| **Health checks** `daily-health-check.py`, `doctor*.py`, `pro-doctor.py`, `scripts/install.sh` | receipts | check after check, verdict, receipt | every other part | parts that change meanwhile, checks that hang or crash, receipts named by the second | green only for what was seen to work |
| **Benchmarks** `benchmark-*.py`, `run-longmemeval-luna.py` | receipts, checkpoints, logs of rows | paid grading in two stages, lanes on a memory server, competitors in processes, resumable passes, ranking metrics | model providers, memory server, competitors | retries, timeouts, kills, torn lines, times in whole seconds, ties | a reported number was measured |
| **Receipts and trace ids** `tool_receipts.py`, `trace_ids.py` | none | build records | all scripts | – | – |
| **Hermes adapter** `hermes/*.py` | none | forward tool calls | memory server | – | – |
| **Launchers** `semantic-memory-launch.sh`, `_resolve.sh`, `run-server*.sh` | none | resolve and exec a binary | – | – | – |
| **Capture nudge, conversation search**, **documentation and release tools** | none | print a reminder, forward a search, generate, copy | – | – | – |

`PROJECT.json` lists the same components with their status, and every hazard at
the line where it bites. The first five rows are the core: they decide what is
released, what is remembered and who may run it, and they are where processes
overlap.

## 2. Plan

Done, in the order in which it was written:

1. `ProofDebt` (pure store operations) → `ReleaseGate` (gates and payers on one
   store) → abstract `DebtBudget`, implemented by `ReleaseGate`; proofs
   `ReleaseGateProofs`.
2. `AutoIngest` (hooks, runners, stamp, lock); proofs `AutoIngestProofs`.
3. `License` (server, clients, caches); proofs `LicenseProofs`.
4. What reads, writes and reports on the memory: `Recall`, `IngestCodebase`,
   `RecallAdmission`, `Viscosity`, `Compaction`, `MemoryReports`; `MCMemory` runs them;
   proofs `MemoryProofs` (each of them, and all of them together).
5. What checks, authorises, installs, watches and measures: `PatchGate`, `McpStdio`,
   `Leases`, `Installation`, `HealthChecks`, and of the benchmarks
   `ModelGrading`, `MemoryBench`, `RivalWorkers`, `ResumableBench`, `Scoring`;
   `MCOperations` runs them; proofs `AuthorityProofs` (leases, patches),
   `HostProofs` (MCP servers, health checks, installers), `BenchmarkProofs`, and
   `OperationsProofs` (all of them together).

Components meet in files and in the memory server, so one module assumes what another
guarantees: `IngestCodebase` has one ingester at a time because `AutoIngest`'s
`OneIngest` says so; `AutoIngest` sees the ingester as a child that succeeds or fails;
`PatchGate` takes the host's 300 s of `forge-admin-mcp.py` into the verification, and
`McpStdio` the verification as a call that answers or fails.

Left:

* the composition of `IngestCodebase` with `AutoIngest`, whose `FinishIngest` becomes
  the ingester's end, to see what two ingests do once a lock was taken for stale.

## 3. The models

Common to all: a process is a record with a `pc`; a file is one variable; the
steps are the points at which another process can come between, so that a read, a
truncation, a write of the buffered text and an unlink are separate actions, while
computation between two file operations is not. Times are ticks, identifiers are
numbers or model values, and formats are left out, except where a property hangs
on one: a line that does not parse (`Torn`), a file that is empty, a packet's file
name that has a resolution of a second.

### ProofDebt, ReleaseGate, DebtBudget

`ProofDebt` holds what `ProofDebtBudget` computes from a snapshot. `Load` is
`_load` with its swallowed exception: the entries below the first bad line do not
exist for the reader. `IsBlocked` is the `>=` of `is_blocked`, `MarkPaid` the scan
of `pay`, and `Overlays` what is left of a file when a rewriter's buffer lands on
lines that others appended since the truncation (`pay` and `incur` take no lock,
and the rewriter writes at offset 0).

`ReleaseGate` has slots (`Gates`) in which invocations run one after the other and
`Payers`, invocations of `proof_debt.py pay`. One run is

    StartGate  RunCommands  LoadBudget  BlockedByDebt | IncurDebt | BudgetError  WritePacket

`RunCommands` adjudicates any nonempty set of outcomes (promote if all passed,
quarantine if one timed out, reject otherwise); only a promotion reaches the debt
check. `BudgetError` is the `except` around the check: quarantine for high and
critical risk, promote for the others. `PayLoad`, `PayTruncate`, `PayWrite` are a
pay; `DirectIncur` is the `incur` command; `KillGate` and `KillPayer` may come
between any two steps. `Exclusive = TRUE` is a caller that runs one invocation at a
time, `FALSE` is what the code itself permits.

History variables: `incurred` and `settled` (what `incur` and `pay` acknowledged),
`packets`, `receipt` (the file of each second), `direct`.

`DebtBudget` is the promise without files: a counter per class that a promotion
raises only while it is below the class's threshold, whatever it is made up of. A
direct `incur` asks for no threshold, so a class may owe more than its threshold, but
then nothing of the class is promoted. `ReleaseGate!BudgetKept` maps `owed` to the
unpaid lines of the store, or of the payer's memory while it rewrites the store. It is
claimed for callers that run one process at a time; for racing gates
`OvershootBounded` says what is left of it.

### AutoIngest

`Hooks` are slots of hook invocations for one repository, `run[n]` is the detached
runner of the n-th creation of the lock file. Hook: `Prompt` (everything up to
`git_head`, and the coverage query: a query without an answer counts as no coverage,
`SearchUp`), `Decide` (`already_current`), `TestLock`, `StealLock`, `CreateLock` or
`LockTaken`, `TruncateStamp`, `FillStamp`, `SpawnRunner`. Runner: `FinishIngest`,
`RereadStamp`, `RunnerTruncateStamp`, `RunnerFillStamp`, `UnlinkLock`, with
`RunnerStampError` for the exception that skips to the `finally`. `StealLock` and
`UnlinkLock` remove whatever lock file is there, as `unlink` by path does.
`KillHook` is the host's timeout of 5 s (`hooks.json`) or an exception; a tick is
longer than that, so a hook sees at most one tick. A killed runner takes its ingest
with it (a shutdown or a signal to the session).

`stolen` records that some hook removed a lock it took for stale. The exclusion
properties are stated up to that event: afterwards the code promises nothing, since
a runner that outlives the lock TTL is not told.

`past` (the latest run that was over when a hook read the stamp) and `stamped` (the
runner has rewritten the stamp) are history, for `NoRepeatedRun`: it is about a hook that
read the stamp *after* the run it would repeat had written its result and given the lock
back. One that read it before, or while it was truncated, may start a run at once; the
lock, taken later, does not make it read again.

### License

`request[r]` is the connection of a client or an admin as the server sees it. The
server is a plain `HTTPServer`: `Accept` requires that no other request is being
handled, loads the database and runs the endpoint's checks; then `TruncateDb`,
`WriteDb`, `Reply`. A database that does not parse (`Corrupt`) raises in the
handler and closes the connection, for good: nothing in the code repairs it.
`FailWrite` is a save that raises, `Crash` a server that dies with all its
connections. `AskCreate` uses a key that no other request created (`uuid4`).

`client[c]` is one call of `get_token` with enforcement. `UseCache`, `AskVerify` and
`NoKey` are the three ways to begin; `Receive` and `GiveUp` the two ends of the
request, where `GiveUp` stands for a refusal, the 10 s timeout and a closed
connection, and leaves the request with the server. `TruncateCache` and `FillCache`
write the machine's cache file in place; a write over another client's token may
leave a torn file (`NoToken`). `FailCache` is an exception while saving, which the
code reports as an unreachable server. A killed client is one that stops.

### Recall

`hook` is one hook of one of the five kinds (`Kits`): Codex, Claude and neutral recall,
Codex and Claude primer. It is a chain of calls: `stats`, one `search` per pass
(`PassesOf`, from the repository's two namespaces or from the prompt's words; Codex'
recall asks git again when the first answer was none, so a root may turn up `late`), after
each a `lookup` of superseded facts in Codex' kits, then `render` and `decide`, which
may send the one fallback search. Each call may fail or time out and may come after
`StoreFact` and `SupersedeFact` of other sessions. A fact carries what the filters tell
apart: namespace, cosine, score, provenance, noise, and whether it shares a word with
the prompt. The cuts (`MinTop`, `Band`, `AbsFloor`, half of the top score) and the orders
of the kits are those of the code, their differences included: Codex does not sort the
hits of its second search, Claude shows all hits as soon as one shares a word.

### IngestCodebase

`StartIngester` walks the manifests and plans (`PlannedFacts`, `PlannedLinks`), with or
without dedupe; `FindExisting`, `AddFacts` (up to `MaxAttempts`), `PlanEdges`, `AddEdges`,
`Finish`. `FindExisting` does what `find_existing` does: one search per fact, of which only
the best hit counts, and that is taken if its content is the same or its cosine is at least
0.995 (`Near`, a constant), whichever component it is about. Which hit is best is left to
the server, so a fact that is there is missed when another one ranks first. `history.taken`
has the facts that were taken by likeness alone. A batch goes to a server process of its
own, which does a prefix of it (`Served`), may refuse a call, and acknowledges a prefix of
what it did; `IdsHeard` matches answers by number. `RpcTimeout` is the 300 s after which the
program raises.

### RecallAdmission, Viscosity

In both a process reads a file once and decides on its copy. `RecallAdmission` appends a
line for every candidate, admitted or not, and counts its own lines besides those it loaded;
`before` is what a process had loaded. `Viscosity` writes the whole history it holds: the
file is opened, and so emptied, in one step and written in another (`SaveHistory`), between
which another process may read or open it. `raced` records that a recorder saved over lines
it had not seen, after which `PostureFollowsTheLoops` claims nothing.

### Compaction

One compaction per transcript, by one of three scripts that differ in when they store
and in the message: compact, store, the summary by a model (`codex_script` only, when the
compaction is long), print. `DiskTurns` lets the store come and go. The summary is put into
the answer before it is written beside the receipt, so when that write fails the answer
has a summary with no path (`unstored`). `FailsOpen` (no binary,
no transcript, an error of the governor) and `GovernorBreaks` (one that hangs, or prints
no JSON) are the ends without output. `RefsAccepted` is the check of the summary's
references as Python reads it; see `compaction_summary` below.

### MemoryReports

The audit pages through a namespace (`CountPage`) while `Upkeep` adds and removes facts
and edges and takes the server down and up; `least` and `most` are the sizes the
namespace has had meanwhile. The gap report asks for health, a search, and the edges of
its hits, each of which may stay without an answer.

### PatchGate

`work[r]` is a `verify-patch.py` (copy, check, receipt, by hand or under the forge
server's 300 s) or an `evidence-workbench.py`; `disk` has the files they leave and the
sandboxes; the one `proof-packet.py` reads them file by file. `Edit`, `Commit` and
`CiReports` are the user and CI, at any time. `raced` marks a verification during which
the tree or HEAD changed. What a check says of a tree is the constant `Works`.

### McpStdio

One server of four kinds and its host. `server.in` and `server.out` are the pipes. `Take` is
the host reading an answer, `Cancel` one that gave up on a request; `Serve` is one turn of
the loop with the answers `Replies` allows. `Stray` puts a line that is no JSON, or no
object, into the pipe. `to` is history: the line an answer answers. The end of the server by
an exception (forge's export of evidence) is modelled; what the host then does is its own.

### Leases

`Leases` has time in half seconds, so that the cut to whole seconds is visible on both
sides; `granted` keeps what was really granted and from when. `CutLease` is a creator
that dies in its append, after a piece of the line or all of it but the newline, or
after the append and before it prints the lease. The next append continues a line that
has no end and both are lost (`Appended`), also when that append is cut again.

### Installation

A behaviour is about one file (`kind`): MCP configuration, rule file, TOML, hooks, settings,
the Pro configuration, or a rule file that is written whole. Its text is a sequence of the
user's settings (lines, tables with a header, values of the installer's keys) and the
installer's marks. The user writes anywhere in it; what he writes into the `InstallersPart`
(a managed section up to the next header, the block of a rule file, the installer's keys in
TOML and in the Pro configuration, all of a file that is written whole) the next install
removes, as the code does, and `past.wrote` has the rest. `Begin` reads, `Backup` renames
where `setup-host.py` does, `Write` and `WriteCut` write, `Stop` ends in between. `past`
says what happened that the code does not protect against: two writers at once, a cut write
of a file that has no backup, and a JSON file that did not parse, which the installers
replace.

### HealthChecks

A program is a list of stages, a stage a list of checks of one part each, with the outcomes
each condition of the part (good, bad, hanging) may have: passed, noted, critical, or a
crash of the program. A plugin directory that has lost both manifests gets no check, as in
the code (`PluginFiles`), so a green report says nothing about it. `Clean` is the exit
status. `daily` and `bundle` are the last reports, `summary` the receipt
`scripts/install.sh` shows. The receipts of two doctors in one second share a name.

### The benchmarks

* `ModelGrading`: calls with retries and failures, the gate after the smoke batch on
  success and projected cost (of the calls that told it, `Usage`), the judges' answers in
  and out of their contract, the receipt.
* `MemoryBench`: the STALE, Sleeper and trust-kernel lanes on a server that keeps whole
  seconds, refuses calls or stops; `Waited` is the wait past the second. A trust-kernel
  case whose old fact is refused gets a failed row.
* `RivalWorkers`: `main` runs the competitors in order in worker processes; timeouts, the
  two ways to start a Letta server, rows, and the record that is kept of them. A server
  is left running where the code leaves it: by an exception of the start that is no
  `OSError` (`StartEscapes`) and by a client that cannot be made (`CreateAgent`).
* `ResumableBench`: three lanes that append to checkpoints and logs and skip what is
  there; kills, torn lines, a store that was removed, and the receipts of the passes.
  An answer (`finished`) and its line are two steps, and a store is taken to be there
  when its directory is (`storeDir`).
* `Scoring`: the ranking, query and fixture metrics over all small inputs, checked against
  definitions by prefixes, documents and cases.

## 4. Runs

| run | asks | result |
|---|---|---|
| `gate_exclusive` | one invocation at a time: `TypeOK`, `EntriesSurvive`, `PaidStaysPaid`, the refinement `BudgetKept`, `RunsEnd` | holds |
| `gate_race` | two racing gates, two payers, a direct incur, a kill: `OvershootBounded`, `PacketsMatchDebt`, `StoreIsAccountable` | holds |
| `gate_lost_entry` | `EntriesSurvive` with a racing payer | violated |
| `ingest_crowd` | two sessions that race, one death: `TypeOK`, `OneIngest`, `NoRepeatedRun`, `OkStampIsTrue` | holds |
| `ingest_lock` | a moving HEAD, one death, stale locks: `LockReleased` | holds |
| `ingest_retry` | `RetriedAfterTtl` | violated |
| `license` | three clients on two machines, two admins, one fault: `OneMachine`, `AdminsObeyed`, `TrustEndsWithTtl` | holds |
| `license_revoked` | `RevokedIsBlocked` | violated |
| `memory` | `RepositoryIsolation`, `SupersededStaysOut` (Recall), `DuplicatesHaveAReason`, `EdgesAreTrue` (IngestCodebase), `HubsStayOut` (RecallAdmission), `PostureFollowsTheLoops` (Viscosity), `RecoverySaysTheTruth` (Compaction), `ReportsAreTrue` (MemoryReports), `EveryRunEnds` (hooks and ingests) | holds |
| `operations` | `PromotionIsEarned`, `VerificationIsClean` (PatchGate), `AnswersArrive` (McpStdio), `VerdictsAreRight` (Leases), `InstallsAreRepeatable` (Installation), `GreenIsEarned` (HealthChecks), `GradesAreEarned`, `ReportIsReal`, `RivalsAreReal`, `ResumeIsExact`, `ScoresAreRight` (benchmarks) | holds |
| `compaction_summary` | `GoodSummaryIsKept` | violated |
| `bench_resume` | `MeasuredIsKept` | violated |

`memory` and `operations` check several components in one run each. The components
share no variable, so a behaviour is one of a single component, chosen by `part` in the
initial state; the others stand still. The reachable states are the union of the
components' own, each property is about one of them, and nothing is lost.

The violations are disagreements between the code and what the repository says of
itself; `PROJECT.json` quotes the lines under "findings".

* `gate_lost_entry`: a payer loads, a gate appends, the payer rewrites; the gate's
  entry is gone.
* `ingest_retry`: `already_current` compares the head first, so a stamp of a failed (or
  cut off) ingest keeps every later hook away as long as HEAD stays, whatever its age; the
  plugin's README (`codex/plugins/semantic-memory/README.md:93`) calls the TTL the "minimum
  time before retrying an unchanged repo".
* `license_revoked`: a cached token is trusted without asking the server. The passing
  run gives the bound that does hold: the license's TTL.
* `compaction_summary`: `parsed.get('exact_fallback_refs') or [] != required_refs` is
  `refs or ([] != required)`: any summary with references is refused, the right ones
  included. It fails safe, `RecoverySaysTheTruth` holds; the feature is without effect
  on transcripts that have references.
* `bench_resume`: a LongMemEval pass searches every question again and keeps the latest
  row of each, so a failure in a later pass replaces what an earlier one had measured.

### Known limits of the code that no run restates

Met while modelling, each visible in the models:

* Two gates that load the store before either appends promote above the threshold
  (`release-gate-v2.py:195`); `OvershootBounded` says by how much: fewer than one entry per
  gate. One at a time, nothing is promoted at or above the threshold (`BudgetKept`).
* Two gates that end in one second write the same packet file (`release-gate-v2.py:273`).
* The ingest hook reads the stamp without the lock, and may find it empty while the runner
  rewrites it (`codebase-auto-ingest.py:229`), so sessions that start together may run the
  ingest one after the other within the TTL; `NoRepeatedRun` is about the others.
* A hook that finds a lock stale unlinks whatever file has the path by then, also the fresh
  lock of another hook (`codebase-auto-ingest.py:231`); the properties end there.
* `find_existing` takes the best hit for the component if it is only much like it
  (`ingest_codebase.py:305-327`): a component whose text resembles another's is given that
  one's fact, its edges start or end there, and its own fact is not stored. `EdgesAreTrue`
  names the case (`history.taken`). The docstring speaks of "identical content".
* Installers remove what the user writes into their part of a file: lines below a managed
  header in `config.toml` (`install-global-config.py:106-118`), the values of the features
  it sets (`:121-148`), lines inside the block of a rule file, settings of his own in
  `~/.ri-pro-config.json` (`pro/install.py:96-102`), and rule files that are written whole.
* The daily check looks at a plugin's manifests only if they are there, so a plugin
  directory without any is no reason for it to be red (`daily-health-check.py:249-263`).
* A Letta server outlives its worker when the client cannot be made
  (`benchmark-diagnostic-memory.py:2205`, before the `try`) or the start ends with an
  exception that is no `OSError` (`:2172-2192`); the report then says "not tested".
  `RivalsAreReal` says that it happens in no other case.
* An append that is cut on a full disk makes two entries one bad line (`proof_debt.py:111`).
* A lookup of superseded facts that fails lets them through (`hooks/common.py:183`).
* The daily check does not count a recall hook that times out as critical
  (`daily-health-check.py:125`), and passes a hook that it could not import (`:90`, the
  child exits with 0); two doctors in one second share a receipt's name
  (`doctor_core.py:338`). `GreenIsEarned` lists what a green report can be trusted for.
* A competitor's worker that outlives 180 s raises in `main`, which then writes no report
  and leaves a Letta server running (`benchmark-diagnostic-memory.py:2335`).
* A torn line in a checkpoint or answer file ends every later pass when it is read
  (`benchmark-longmemeval-semantic-memory.py:96`, `run-longmemeval-luna.py:50`).
* A document that is returned twice lifts nDCG above 1
  (`benchmark-beir-scifact-ranking.py:126`); `ScoresAreRight` bounds it for lists without
  duplicates.

### Bounds, and why they are enough

Bounds have names that begin with `Max` and are explained where they are declared; they
appear in guards only, except `MaxHits`, `MaxAttempts` and `MaxComponents`, which are the
code's own.
`CHECK_DEADLOCK FALSE` everywhere: once a bound is reached, or no user prompts, the
system really has nothing to do.

* Gates: thresholds are 1 for the classes that fail closed and 2 for the others, so
  that three runs pass them. Two gates and two payers give each race the code has
  (load/append, load/rewrite, truncate/append, rewrite/rewrite). That more gates add one
  entry each is not checked with a third gate but proved. Classes do not interact except
  through `FailClosed`; one of each kind is in `gate_exclusive`, the one that fails closed
  in `gate_race`.
* Ingest: two hooks race for the lock, the third process is the runner. In `ingest_crowd`
  `Ttl = 1`, `LockTtl = 0` and a clock of 2 let a stamp expire and a lock become stale.
  `ingest_lock` has one hook, two heads and no symmetry, because its property is one of
  liveness; hooks are interchangeable, which `ingest_crowd` uses. `ingest_retry` needs one
  hook and one run.
* License: two clients share a machine (and its cache), the third is on the other, so
  that a lock, a refusal and a cache race occur; `Ttl = 3`, `Buffer = 1` and a clock of
  4 let a token be cached, used, refused by the buffer and expire. One license is
  enough: records of different keys meet only in the file, which is written whole.
* Recall: four facts, one for each namespace that matters, with values on both sides of the
  cuts; one shown fact, so that which one comes first matters. The real cuts are used.
* IngestCodebase: two components of which one depends on the other and on one that is not
  there; two runs, two attempts, an edit, a lost answer and a refusal, so that a retry, a
  reuse and an edge with a missing end occur. `Near` lets texts of different components be
  taken for one another (`MCNear`).
* RecallAdmission, Viscosity, Compaction, MemoryReports: two processes (or compactions), one
  torn write, a window of two and four records, pages of one fact of three.
* PatchGate: two files that agree or not, one verifier, one workbench, one edit. McpStdio:
  three requests, so that one is in flight, one given up and one new. Leases: three leases,
  durations of one and three half seconds, two creators that die, so that a cut line is cut
  again and then followed by a whole one. Installation: two installers, three installs; a
  line, a table and a value of the installer's keys. HealthChecks: two runs in a row and two
  changes of the system in them.
* Benchmarks: two cases, questions or samples, of which one is the exception (poison,
  failure, refusal), two attempts, three passes, three documents. A grading has a known price
  and a budget that may not cover the smoke or the rest, or no price and a budget that does.
  Scoring takes every order of its candidates, with a cutoff of 3.

The violation runs have the constants of the run of their module, cut down to the part the
violation needs.

Simplifications that remain: a rewrite or an append reaches the file in one piece
(the texts are below Python's buffer of 8 KiB), and an append that fails leaves the
file as it was. A torn append would need a store of bytes; it is listed as a hazard
without property.

### Fairness

`gate_exclusive`, `ingest_lock` and `memory` check liveness. `FairSpec` of
`ReleaseGate` is weak fairness of each started process: its commands have timeouts and
the rest are file operations. Nobody is obliged to start a process, and the clock need
not tick. In `AutoIngest` hooks and runners that are not killed go on: an ingest's calls
have timeouts and a bounded number of attempts. `Recall` and `IngestCodebase` assume the
same of the one hook or ingester at work (`WF(HookStep)`, `WF(IngesterStep)`): every call
to the server has a timeout, so the next step comes, with or without an answer. The server
is not obliged to answer, and other sessions may write for ever. The modules of
`MCOperations` state safety only.
`License` states no liveness: its single thread can be held up by any connection that
sends no body.

## 5. Proofs

TLAPS checks the following for all values of the constants, under the named
assumptions of the modules. The runs evaluate each of them. They say only this:

* sets that are counted are finite: gates, clients, files, facts, graph entries, texts,
  the dependencies of a manifest, the dimensions and candidates of a case, the documents
  of a corpus (`GateAssumption`,
  `LicenseAssumption`, `PatchGateAssumption`, `RecallAssumption`, `ReportsAssumption`,
  `IngesterAssumption`, `GradingAssumption`, `ScoringAssumption`);
* bounds, times, thresholds and sizes are natural numbers, those the code divides by or
  counts to are positive (these, `ThresholdAssumption`, `IngestAssumption`,
  `AdmissionAssumption`, `LeaseAssumption`, `McpAssumption`,
  `HealthAssumption`, `BenchAssumption`, `RivalAssumption`, `ResumeAssumption`,
  `InstallAssumption`, `ViscosityAssumption`, `ScoringAssumption`);
* the value that stands for nothing, for a torn line or for a ruined file differs from
  every ordinary one (`TornAssumption`, `CorruptAssumption`, `IngestAssumption`,
  `LeaseAssumption`, `BenchAssumption`, `ResumeAssumption`, `GradingAssumption`,
  `ViscosityAssumption`): half a line of JSON is not a line, `None` is not an evaluation;
* precisions are counted in a `Unit` that every rank up to the cutoff divides, so that they
  are exact, and a rank weighs no more than one before it (`ScoringAssumption`); the cutoff is
  any positive number, the code's 10 included;
* the user writes none of the installers' marks into a file (`InstallAssumption`);
* what is a parameter has the shape the code gives it (facts and manifests are records,
  `Works` and `Near` say yes or no).

| theorem | property | argument |
|---|---|---|
| `ReleaseGateProofs!TypeCorrect` | `TypeOK` | inductive; `Load`, `MarkPaid` and `Overlays` keep sequences of lines |
| `ReleaseGateProofs!Accountable` | `StoreIsAccountable` | `AccountInv` adds the same for every snapshot in a process's memory (`SnapshotsAccountable`): a rewrite puts a snapshot into the store, so the store alone is not inductive |
| `ReleaseGateProofs!VerdictMatchesDebt` | `PacketsMatchDebt` | `PacketInv` adds that no two processes or packets share a run (`RunsDistinct`), and that a gate about to write its packet already agrees with `incurred` (`VerdictsAgree`) |
| `ReleaseGateProofs!RacingGatesOvershootLittle` | `OvershootBounded` | `OvershootInv` bounds debt *plus the gates that still may append* (those whose snapshot does not block): the sum grows only when a gate loads a store below the threshold, and then all pending gates fit in the number of slots |
| `AutoIngestProofs!IngestTypeCorrect` | `TypeOK` | inductive |
| `AutoIngestProofs!OneIngestAtATime` | `OneIngest` | `LockInv`: up to the first theft, whoever is between lock and unlock owns the lock file, with a number no one else has; only a creation makes a new number |
| `AutoIngestProofs!OkStampIsRight` | `OkStampIsTrue` | `StampInv` on top of `LockInv`: the stamp, and the copy a runner holds while it rewrites it, name the head of the run that owns the lock, because nobody else writes in between |
| `LicenseProofs!LicenseTypeCorrect` | `TypeOK` | inductive together with `Shape` (what a request in each phase carries) |
| `LicenseProofs!OneMachinePerLicense` | `OneMachine` | `IInv` = types, `Shape`, `OneThread` (one request in hand), `Books`, `OneMachine`: every issued token's machine is the lock in the database, or in the text about to be written (`Books`), and a database that was ruined stays so |
| `LicenseProofs!AdminsAreObeyed` | `AdminsObeyed` | the same `IInv`: what was confirmed is in the database or in the text being written |
| `LicenseProofs!RevocationTakesEffect` | `TrustEndsWithTtl` | `TokensBounded`: no token, wherever a copy of it is, expires later than its license's TTL from now, nor from the revocation; a client's `at` is before its token's expiry |
| `ReleaseGateProofs!ExclusiveEntriesSurvive` | `EntriesSurvive` | for `Exclusive` callers, up to the first kill. `ExclusiveInv`: one process at work (`OneAtATime`), whose snapshot is the store as it is (`SnapshotsCurrent`), and a ledger, on disk or in the payer's memory, that has every acknowledged entry and payment (`LedgersTrue`) |
| `ReleaseGateProofs!ExclusivePaymentsStay` | `PaidStaysPaid` | for `Exclusive` callers, kills or not: the same `ExclusiveInv` |
| `ReleaseGateProofs!GatesKeepTheBudget` | `BudgetKept` | for `Exclusive` callers, none of them killed. Each step is a step of `DebtBudget` or leaves its counters alone, with `owed` the unpaid entries of the store, or of the payer's memory while it rewrites: by `ExclusiveInv` the snapshot on which a gate decides is the store it appends to |
| `AutoIngestProofs!NoRunIsRepeated` | `NoRepeatedRun` | for any number of sessions and deaths, up to the first theft. `RepeatInv` on top of `LockInv`: runs come one after the other (`RunsOver`); the stamp has the time of the latest run, except while its owner rewrites it (`StampTimes`); a hook that read the stamp when the latest run was over goes on only a TTL after it (`PastsRight`) |
| `MemoryProofs!RecallTypeCorrect` | – | `RecallTyped` and `PhasesFit` (a hook in its lookup or render has a pass; only Codex looks up) |
| `MemoryProofs!RepositoriesAreIsolated` | `RepositoryIsolation` | `InRepository`: in a repository the passes left are both, the second, or none; an answer is of the namespaces of its pass; hits are of one namespace, and with hits there are no passes left |
| `MemoryProofs!SupersededIsNotShown` | `SupersededStaysOut` | `HitsAreCurrent`: what was superseded since the hook began is superseded still, and no hit of a Codex hook that missed no lookup is among it |
| `MemoryProofs!AdmissionTypeCorrect`, `!HubsAreKeptOut` | `HubsStayOut` | `AdmissionInv`: a process has counted at least the lines of a result that were there when it loaded (`CountersCover`) |
| `MemoryProofs!CompactionTypeCorrect`, `!RecoveryIsTrue` | `RecoverySaysTheTruth` | `CompactionInv` adds that an overlay is there only for a compaction past its model call, whose references change no more, whether it was stored or not (`OverlaysCome`) |
| `MemoryProofs!ReportsTypeCorrect`, `!ReportsTellTheTruth` | `ReportsAreTrue` | `ReportsInv`: the count so far is of full pages of facts that were there when the last was read, within the least and most the memory had (`CountSoFar`); the edges a report looked at are of its hits (`LookedAtHits`) |
| `MemoryProofs!IngesterTypeCorrect`, `!DuplicatesAreExplained`, `!EdgesSayWhatManifestsSay` | `DuplicatesHaveAReason`, `EdgesAreTrue` | `IngesterInv`: links still planned are those of a manifest (`PlanFits`), an id is of a stored fact that stands for its key (`IdsTrue`), edges still to be sent are true (`TodoTrue`), and a fact that has no id yet may be written once more (`RoomForOneMore`): its copies are strictly within the bound |
| `AuthorityProofs!LeasesTypeCorrect`, `!VerdictsAreCovered` | `VerdictsAreRight` | for any number of creators that die. `LeasesInv`: only the last line can be without its end (`EndedLines`); every lease in the file was granted (`LinesWereGranted`), one that was printed on a line of its own is in the file (`GrantsAreStored`), and a verifier has read what had been granted before it began, and nothing else (`ReadWhatWasThere`); `IsoBounds`: cutting a time to seconds loses less than one |
| `AuthorityProofs!PatchTypeCorrect`, `!PromotionsAreEarned`, `!VerificationsAreClean` | `PromotionIsEarned`, `VerificationIsClean` | `PatchInv`: as long as nothing raced, what has been copied is the tree and the commit, and what has been checked was that (`CheckTrue`); what a file says is so (`FileTrue`), also of the files a join has read (`PacketTrue`); and a sandbox outlives its run only if that was killed (`SandboxesRemoved`) |
| `HostProofs!McpTypeCorrect`, `!RequestsAreAnswered` | `AnswersArrive` | `McpInv`: ids in the pipes were given (`IdsGiven`), nobody waits for `initialize` once something else was sent (`GreetingFirst`), and a printed line answers the request of its id, or a notification or a stray line under an id that is nobody's or that of the greeting (`OutputTrue`) |
| `HostProofs!HealthTypeCorrect` | part of `MCTypeOK` | `HealthCounted`: the runs under way are different ones that began (`UnderWay`), and the reports written together with them are no more than those that began, so that a number given to a report stays in its bound |
| `HostProofs!GreenReportsAreEarned` | `GreenIsEarned` | `HealthInv`: each outcome a run has is telling, and unless a check crashed, each check of the stage so far has one (`SeenSoFar`); a green report takes its outcomes from a run at the end of a stage |
| `BenchmarkProofs!BenchTypeCorrect`, `!MeasuredRowsAreReal` | `ReportIsReal` | `BenchInv`: the case under way is none of those left (`InOrder`), the cases are done one by one or none has a row (`NoneSkipped`), a row that has not failed has the answers of the calls so far, and its replacement was stored a whole second after the cutoff (`RowSoFar`), a row that is there is earned (`RowIsReal`) |
| `BenchmarkProofs!RivalTypeCorrect`, `!RivalRowsAreReal` | `RivalsAreReal` | `RivalInv`: a server is that of the Letta worker at work, of one that was killed, or of one that failed and is reported so (`ServersBelong`); what a case has found is what its namespace holds (`FindingsTrue`); a worker has a row per case, in order, and each is earned (`RowsInOrder`), and so has a measured record (`RecordIsReal`) |
| `BenchmarkProofs!ResumeTypeCorrect`, `!ResumedPassesAreExact` | `ResumeIsExact` | `ResumeInv`: what the checkpoint names is in the store as long as its directory is there (`StoreFits`); what a pass searched it has tried to admit (`SearchedWasTried`); an answer waits for its line in the pass that asked for it, for a question that had none, and a pass that asks knows all that have one (`AnswersFit`) |
| `MemoryProofs!ViscosityTypeCorrect`, `!PostureIsThatOfTheLoops` | `PostureFollowsTheLoops` | `ViscosityInv`: while no recorder raced and no save was torn the file is `recorded`, and a posture is the level of the history held. The sums of the score exist, are natural numbers, and are what they should be for records of one kind, each by the least place where that fails (`SumsExist`, `SumIsNat`, `EqualSum`) |
| `HostProofs!InstallTypeCorrect`, `!InstallingAgainIsSafe` | `InstallsAreRepeatable` | `InstallInv`: every text of a kind, also one that was cut, has at most one section, entry or block end, and an end follows its start (`Fits`); a start whose end is gone is there only after a cut (`Whole`); and as long as nothing went wrong, what an installer read is still the file, and nothing that should survive stands in the installer's part of it (`StillTrue`). `SpliceProperties` and `WithoutKeeps` say what rewriting a block and dropping the sections keep |
| `BenchmarkProofs!ScoringTypeCorrect`, `!EveryScoreIsRight` | `ScoresAreRight` | `ScoringInv`: a score is that of its input. `SeenByThen`: a candidate is in the prefixes from its position on; a larger finite set has a member that a smaller one lacks. For queries, `FirstRanks`: first ranks and found documents correspond one to one, and `SumsCorrespond`: so do the sums over them; `IdealIsBest`: a gain is the weight of the ranks with a grade, plus twice that of those with grade 2, and the first ranks weigh the most (`FirstRanksWeighMost`). The sums are those of the community modules, whose recursion over sets is unfolded once `SumsExist` (by the least size without a sum) and `SumTakesAny` |
| `BenchmarkProofs!GradingTypeCorrect`, `!PaidGradesAreEarned` | `GradesAreEarned` | `GradingInv`: a verdict is what the case's one judge said (`VerdictsTrue`), the rest is not called before, and does not touch, a complete smoke (`SmokeFirst`); the products and cardinalities of the counts are the library's theorems on finite sets |
| `MemoryProofs!MemoryTypesCorrect` | `MCTypeOK` of `MCMemory` | `MemoryIsItsParts` and the type theorem of each component |
| `OperationsProofs!OperationsTypesCorrect` | `MCTypeOK` of `MCOperations` | `OperationsAreTheirParts` and the type theorem of each component |

The last two theorems put the components together. `MCMemory` and `MCOperations` run one
component in each behaviour while the others stand still; `MemoryIsItsParts` and
`OperationsAreTheirParts` show that such a behaviour, fairness included, is one of every
component, so that the theorems above hold there, and `MCTypeOK` follows.

The single thread of the license server is used where it has to be: with
`AcceptThreaded`, the mutant with a thread per request, TLC finds both properties
violated. The hypotheses of the conditional theorems are needed too: `gate_lost_entry`
violates `EntriesSurvive` with callers that overlap, and the run `gate_exclusive` takes
place under these hypotheses.

Each inductive invariant was checked by TLC, as an invariant of the component, before it
was proved.

### Only model-checked

* Liveness (`RunsEnd`, `LockReleased`, `EveryRunEnds`): liveness under fairness is
  out of this prover's reach.
* The five properties that the code violates.

## 6. Not modelled, and why

In the modelled components: the text and hash of a packet, its git commit, the
optional writes to `claim-ledger` and memory (best effort, no decision reads them);
prompt classification and repository size in the ingest hook, which only decide
whether a hook goes on (left to chance); `/validate-token` and `/health` of the license
server (no state), its skip and not-enforced modes (no state), and a connection that
blocks the only thread. Signatures and fingerprints are taken as what they stand for.

Admin preflight is three commands without state, each of which prints a paper from its
arguments. `verify-receipt` reads whatever JSON file it is given
(`admin-preflight.py:119-146`), so nothing in the code ties a receipt to a confirmation that
was asked for, and a model could only repeat its guards.

Of the partly modelled components: the attribution engine behind `verify-patch.py`
(external) and the writes it sends to claim-ledger and memory; the copying of the kit's
files by the Pro installer; `hostile-audit.py` and `context-governor-audit.py`, which print
what one external command returns; of the benchmarks `benchmark-recall.py`, the comparison
of compaction engines, `eval_recall.py` and the generation of fixtures, which measure in one
pass and keep nothing. The ingester's `--no-graph` and `--dry-run` leave out calls that are
modelled.

Receipts and trace ids, the Hermes adapter, the launchers, the capture nudge, the
conversation search and the documentation and release tools keep no state and take no
decision that another step depends on. Copies of a script in several kits stand for one
model. The MCP servers behind the kits are separate programs; the models see them only
through what the code here does with their answers.

## 7. Use

    tlc -workers 2 -config license.cfg MCLicense
    tlc -workers 2 -config memory.cfg MCMemory
    tlapm LicenseProofs.tla

Every definition that stands for code is listed with its lines under "map" in
`PROJECT.json`. Definitions introduced by a comment "Mutant of ..." are altered
versions of the definition that follows: substituted for it, they must break the
property named with them under "mutants".
