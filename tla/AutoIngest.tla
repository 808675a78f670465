----------------------------- MODULE AutoIngest -----------------------------
(***************************************************************************)
(* The background ingest of one repository                                 *)
(* (codex/plugins/semantic-memory/hooks/codebase-auto-ingest.py): hooks    *)
(* started by user prompts decide on a stamp file, take a lock file and    *)
(* leave a detached runner behind, which ingests, rewrites the stamp and   *)
(* removes the lock.  The host kills a hook that takes more than 5 s.      *)
(*                                                                         *)
(* The three share the file system only.  Each step below is one file      *)
(* operation, or a group no other process can tell from one.               *)
(***************************************************************************)
EXTENDS Naturals, FiniteSets

CONSTANTS
    Hooks,     \* slots in which hooks run, one at a time per slot
    Heads,     \* the commits HEAD may point to
    NoHead,    \* what git_head returns when git fails
    Ttl,       \* SM_AUTO_INGEST_TTL_SECONDS
    LockTtl,   \* SM_AUTO_INGEST_LOCK_TTL_SECONDS
    MaxClock,  \* bound: the clock
    MaxRuns,   \* bound: how often the lock file is created
    MaxKills,  \* bound: hooks and runners that die
    SearchUp   \* TRUE when the coverage query is always answered

ASSUME IngestAssumption ==
    /\ {Ttl, LockTtl, MaxRuns, MaxKills} \subseteq Nat
    /\ MaxClock \in Nat \ {0}
    /\ NoHead \notin Heads
    /\ SearchUp \in BOOLEAN

VARIABLES
    clock,    \* the time, from 1
    head,     \* HEAD of the repository
    covered,  \* the namespace holds a fact of the repository
    stamp,    \* the stamp file
    lock,     \* the lock file, with the run that created it
    hook,     \* the running hook of each slot
    ids,      \* how often the lock file was created: runs are numbered by it
    run,      \* the runner of each run
    stolen,   \* a hook has removed a lock it took for stale
    kills     \* hooks and runners that died so far

vars == <<clock, head, covered, stamp, lock, hook, ids, run, stolen, kills>>

Run == 1 .. MaxRuns

\* The file is missing, or empty between its truncation and its write.
Unreadable == [head |-> NoHead, at |-> 0, status |-> "unreadable"]

Stamp == [head : Heads \union {NoHead}, at : Nat,
          status : {"unreadable", "started", "ok", "failed"}]

\* by is 0 when there is no lock file; at is its mtime.
NoLock == [by |-> 0, at |-> 0]

\* since is when the hook was started; past, which the code does not keep, is the
\* latest run that had given the lock back when the hook read the stamp.
IdleHook == [pc |-> "idle", since |-> 0, head |-> NoHead, at |-> 0, id |-> 0, past |-> 0]

HookState ==
    [pc : {"idle", "decide", "lock", "steal", "create", "stamp", "fill", "spawn"},
     since : Nat, head : Heads \union {NoHead}, at : Nat, id : 0 .. MaxRuns,
     past : 0 .. MaxRuns]

\* stamped: the runner has rewritten the stamp.
NoRunner ==
    [pc |-> "none", head |-> NoHead, at |-> 0, past |-> 0, ok |-> FALSE, stamped |-> FALSE,
     data |-> Unreadable]

RunState ==
    [pc : {"none", "ingest", "reread", "truncate", "fill", "unlink", "done", "dead"},
     head : Heads \union {NoHead}, at : Nat, past : 0 .. MaxRuns,
     ok : BOOLEAN, stamped : BOOLEAN,
     data : Stamp]

\* The phases of a hook and of a runner in which the lock file should be theirs.
HookHolds == {"stamp", "fill", "spawn"}

RunHolds == {"ingest", "reread", "truncate", "fill", "unlink"}

TypeOK ==
    /\ clock \in 1 .. MaxClock
    /\ head \in Heads
    /\ covered \in BOOLEAN
    /\ stamp \in Stamp
    /\ lock \in [by : 0 .. MaxRuns, at : Nat]
    /\ hook \in [Hooks -> HookState]
    /\ ids \in 0 .. MaxRuns
    /\ run \in [Run -> RunState]
    /\ stolen \in BOOLEAN
    /\ kills \in 0 .. MaxKills

Init ==
    /\ clock = 1
    /\ head \in Heads
    /\ covered = FALSE
    /\ stamp = Unreadable
    /\ lock = NoLock
    /\ hook = [h \in Hooks |-> IdleHook]
    /\ ids = 0
    /\ run = [n \in Run |-> NoRunner]
    /\ stolen = FALSE
    /\ kills = 0

-----------------------------------------------------------------------------

\* A tick is longer than the 5 s after which the host kills a hook, so that a
\* hook sees at most one.
Tick ==
    /\ clock < MaxClock
    /\ \A h \in Hooks : hook[h].pc # "idle" => hook[h].since = clock
    /\ clock' = clock + 1
    /\ UNCHANGED <<head, covered, stamp, lock, hook, ids, run, stolen, kills>>

\* A commit, or a checkout of another branch.
MoveHead ==
    /\ head' \in Heads \ {head}
    /\ UNCHANGED <<clock, covered, stamp, lock, hook, ids, run, stolen, kills>>

\* main, up to git_head, for a prompt that is long and complex enough in a
\* repository that is large enough.  A coverage query without an answer counts
\* as no coverage.
Prompt(h) ==
    /\ hook[h].pc = "idle"
    /\ covered => ~SearchUp
    /\ \E seen \in {head, NoHead} :
           hook' = [hook EXCEPT ![h] = [IdleHook EXCEPT !.pc = "decide", !.since = clock,
                                                           !.head = seen]]
    /\ UNCHANGED <<clock, head, covered, stamp, lock, ids, run, stolen, kills>>

\* already_current: the same head is current for ever, whatever the status, and
\* any head is for a while after a start.
AlreadyCurrent(seen) ==
    \/ stamp.head = seen /\ seen # NoHead
    \/ stamp.at # 0 /\ clock - stamp.at < Ttl

Decide(h) ==
    /\ hook[h].pc = "decide"
    /\ hook' = [hook EXCEPT ![h] =
            IF AlreadyCurrent(hook[h].head) THEN IdleHook
            ELSE [hook[h] EXCEPT !.pc = "lock",
                                 !.past = IF lock.by = 0 THEN ids ELSE lock.by - 1]]
    /\ UNCHANGED <<clock, head, covered, stamp, lock, ids, run, stolen, kills>>

\* lock.exists() and lock.stat()
TestLock(h) ==
    /\ hook[h].pc = "lock"
    /\ hook' = [hook EXCEPT ![h].pc =
            IF lock # NoLock /\ clock - lock.at > LockTtl THEN "steal" ELSE "create"]
    /\ UNCHANGED <<clock, head, covered, stamp, lock, ids, run, stolen, kills>>

\* lock.unlink(), of whatever lock file is there by now
StealLock(h) ==
    /\ hook[h].pc = "steal"
    /\ lock' = NoLock
    /\ stolen' = TRUE
    /\ hook' = [hook EXCEPT ![h].pc = "create"]
    /\ UNCHANGED <<clock, head, covered, stamp, ids, run, kills>>

LockTaken(h) ==
    /\ hook[h].pc = "create"
    /\ lock # NoLock
    /\ hook' = [hook EXCEPT ![h] = IdleHook]
    /\ UNCHANGED <<clock, head, covered, stamp, lock, ids, run, stolen, kills>>

\* Mutant of CreateLock: the open without O_EXCL.
CreateLockAnyway(h) ==
    /\ hook[h].pc = "create"
    /\ ids < MaxRuns
    /\ ids' = ids + 1
    /\ lock' = [by |-> ids + 1, at |-> clock]
    /\ hook' = [hook EXCEPT ![h].pc = "stamp", ![h].id = ids + 1]
    /\ UNCHANGED <<clock, head, covered, stamp, run, stolen, kills>>

\* The open with O_CREAT and O_EXCL succeeds.
CreateLock(h) ==
    /\ hook[h].pc = "create"
    /\ lock = NoLock
    /\ ids < MaxRuns
    /\ ids' = ids + 1
    /\ lock' = [by |-> ids + 1, at |-> clock]
    /\ hook' = [hook EXCEPT ![h].pc = "stamp", ![h].id = ids + 1]
    /\ UNCHANGED <<clock, head, covered, stamp, run, stolen, kills>>

\* stamp.write_text, whose argument has read the clock: open for writing ...
TruncateStamp(h) ==
    /\ hook[h].pc = "stamp"
    /\ stamp' = Unreadable
    /\ hook' = [hook EXCEPT ![h].pc = "fill", ![h].at = clock]
    /\ UNCHANGED <<clock, head, covered, lock, ids, run, stolen, kills>>

\* ... and write.
FillStamp(h) ==
    /\ hook[h].pc = "fill"
    /\ stamp' = [head |-> hook[h].head, at |-> hook[h].at, status |-> "started"]
    /\ hook' = [hook EXCEPT ![h].pc = "spawn"]
    /\ UNCHANGED <<clock, head, covered, lock, ids, run, stolen, kills>>

\* subprocess.Popen in a session of its own; the hook exits.
SpawnRunner(h) ==
    /\ hook[h].pc = "spawn"
    /\ run' = [run EXCEPT ![hook[h].id] =
            [NoRunner EXCEPT !.pc = "ingest", !.head = hook[h].head, !.at = hook[h].at,
                             !.past = hook[h].past]]
    /\ hook' = [hook EXCEPT ![h] = IdleHook]
    /\ UNCHANGED <<clock, head, covered, stamp, lock, ids, stolen, kills>>

\* The host's timeout, or an exception of a file operation or of Popen: nothing
\* of what the hook did is undone.
KillHook(h) ==
    /\ hook[h].pc # "idle"
    /\ kills < MaxKills
    /\ kills' = kills + 1
    /\ hook' = [hook EXCEPT ![h] = IdleHook]
    /\ UNCHANGED <<clock, head, covered, stamp, lock, ids, run, stolen>>

-----------------------------------------------------------------------------

\* subprocess.call returns.  A failed ingest may have written facts, and one
\* that exits with 0 may have written none.
FinishIngest(n) ==
    /\ run[n].pc = "ingest"
    /\ covered' \in {covered, TRUE}
    /\ \E ok \in BOOLEAN : run' = [run EXCEPT ![n].pc = "reread", ![n].ok = ok]
    /\ UNCHANGED <<clock, head, stamp, lock, hook, ids, stolen, kills>>

\* Mutant of RereadStamp: the runner writes a stamp of its own.
RereadNothing(n) ==
    /\ run[n].pc = "reread"
    /\ run' = [run EXCEPT ![n].data = Unreadable, ![n].pc = "truncate"]
    /\ UNCHANGED <<clock, head, covered, stamp, lock, hook, ids, stolen, kills>>

\* data = json.loads(...), {} for a stamp that cannot be read
RereadStamp(n) ==
    /\ run[n].pc = "reread"
    /\ run' = [run EXCEPT ![n].data = stamp, ![n].pc = "truncate"]
    /\ UNCHANGED <<clock, head, covered, stamp, lock, hook, ids, stolen, kills>>

RunnerTruncateStamp(n) ==
    /\ run[n].pc = "truncate"
    /\ stamp' = Unreadable
    /\ run' = [run EXCEPT ![n].pc = "fill"]
    /\ UNCHANGED <<clock, head, covered, lock, hook, ids, stolen, kills>>

\* Mutant of RunnerFillStamp: the exit code is not looked at.
RunnerFillOk(n) ==
    /\ run[n].pc = "fill"
    /\ stamp' = [run[n].data EXCEPT !.status = "ok"]
    /\ run' = [run EXCEPT ![n].pc = "unlink", ![n].stamped = TRUE, ![n].data = Unreadable]
    /\ UNCHANGED <<clock, head, covered, lock, hook, ids, stolen, kills>>

\* Mutant of RunnerFillStamp: the status is a word that no reader of stamps knows.
RunnerFillError(n) ==
    /\ run[n].pc = "fill"
    /\ stamp' = [run[n].data EXCEPT !.status = IF run[n].ok THEN "ok" ELSE "error"]
    /\ run' = [run EXCEPT ![n].pc = "unlink", ![n].stamped = TRUE, ![n].data = Unreadable]
    /\ UNCHANGED <<clock, head, covered, lock, hook, ids, stolen, kills>>

RunnerFillStamp(n) ==
    /\ run[n].pc = "fill"
    /\ stamp' = [run[n].data EXCEPT !.status = IF run[n].ok THEN "ok" ELSE "failed"]
    /\ run' = [run EXCEPT ![n].pc = "unlink", ![n].stamped = TRUE, ![n].data = Unreadable]
    /\ UNCHANGED <<clock, head, covered, lock, hook, ids, stolen, kills>>

\* The finally clause: the lock file goes, whoever created it.
UnlinkLock(n) ==
    /\ run[n].pc = "unlink"
    /\ lock' = NoLock
    /\ run' = [run EXCEPT ![n].pc = "done"]
    /\ UNCHANGED <<clock, head, covered, stamp, hook, ids, stolen, kills>>

\* Mutant of RunnerStampError: the unlink is not in a finally clause.
StampErrorIsFinal(n) ==
    /\ run[n].pc \in {"truncate", "fill"}
    /\ kills < MaxKills
    /\ kills' = kills + 1
    /\ run' = [run EXCEPT ![n].pc = "done", ![n].data = Unreadable]
    /\ UNCHANGED <<clock, head, covered, stamp, lock, hook, ids, stolen>>

\* An exception while the stamp is rewritten: the finally clause still runs.
RunnerStampError(n) ==
    /\ run[n].pc \in {"truncate", "fill"}
    /\ kills < MaxKills
    /\ kills' = kills + 1
    /\ run' = [run EXCEPT ![n].pc = "unlink", ![n].data = Unreadable]
    /\ UNCHANGED <<clock, head, covered, stamp, lock, hook, ids, stolen>>

\* A kill signal or a shutdown, with the ingest it waits for.
KillRunner(n) ==
    /\ run[n].pc \in RunHolds
    /\ kills < MaxKills
    /\ kills' = kills + 1
    /\ run' = [run EXCEPT ![n].pc = "dead", ![n].data = Unreadable]
    /\ UNCHANGED <<clock, head, covered, stamp, lock, hook, ids, stolen>>

-----------------------------------------------------------------------------

HookStep(h) ==
    \/ Decide(h)
    \/ TestLock(h)
    \/ StealLock(h)
    \/ LockTaken(h)
    \/ CreateLock(h)
    \/ TruncateStamp(h)
    \/ FillStamp(h)
    \/ SpawnRunner(h)

RunStep(n) ==
    \/ FinishIngest(n)
    \/ RereadStamp(n)
    \/ RunnerTruncateStamp(n)
    \/ RunnerFillStamp(n)
    \/ UnlinkLock(n)

Next ==
    \/ Tick
    \/ MoveHead
    \/ \E h \in Hooks : Prompt(h) \/ HookStep(h) \/ KillHook(h)
    \/ \E n \in Run : RunStep(n) \/ RunnerStampError(n) \/ KillRunner(n)

Spec == Init /\ [][Next]_vars

\* Hooks and runners that are not killed go on: the calls of an ingest have
\* timeouts and a bounded number of retries.
Fairness ==
    /\ \A h \in Hooks : WF_vars(HookStep(h))
    /\ \A n \in Run : WF_vars(RunStep(n))

FairSpec == Spec /\ Fairness

-----------------------------------------------------------------------------

\* The runs whose hook or runner is between the creation of the lock file and
\* its removal.
Active ==
    {hook[h].id : h \in {h \in Hooks : hook[h].pc \in HookHolds}} \union
    {n \in Run : run[n].pc \in RunHolds}

\* One ingest at a time: as long as no hook took a lock for stale, whatever dies,
\* and however the hooks race, the lock file is the one of the only active run.
OneIngest == ~stolen => \A n \in Active : lock.by = n

\* README.md: "Lock and stamp files ... prevent repeated runs."  What they do
\* prevent: when a hook reads the stamp after a run has stamped its result and given
\* the lock back, its own run starts no earlier than a TTL after that one.  A hook
\* that read the stamp before, or while it was truncated, may start a run at once.
NoRepeatedRun ==
    ~stolen =>
        \A n \in Run :
            n > 1 /\ run[n].past = n - 1 /\ run[n - 1].stamped =>
                run[n].at - run[n - 1].at >= Ttl

\* SM_AUTO_INGEST_TTL_SECONDS is documented as the "minimum time before retrying an
\* unchanged repo": a hook that finds an older stamp of a failed run goes on.
RetriedAfterTtl ==
    [][\A h \in Hooks :
           Decide(h) /\ stamp.status = "failed" /\ clock - stamp.at >= Ttl =>
               hook'[h].pc = "lock"]_vars

\* As long as no lock was taken for stale, a stamp that says ok does so of a run
\* for that head which exited with 0.
OkStampIsTrue ==
    ~stolen /\ stamp.status = "ok" => \E n \in Run : run[n].ok /\ run[n].head = stamp.head

\* The hook or the runner of a run died before it gave the lock back.
Died(n) == run[n].pc = "dead" \/ (run[n].pc = "none" /\ n \notin Active)

\* A run gives the lock file back, also when its stamp cannot be written, unless it
\* is killed; what a killed one leaves behind may stay for ever.
LockReleased == \A n \in Run : lock.by = n ~> lock.by # n \/ Died(n)
=============================================================================
