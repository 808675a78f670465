-------------------------- MODULE AutoIngestProofs --------------------------
(***************************************************************************)
(* Proofs about AutoIngest, for every number of hooks, runs, ticks and     *)
(* kills: type correctness, and for as long as no lock was stolen, one     *)
(* ingest at a time, the truth of a stamp that says ok, and no repeated    *)
(* run but by a hook that had read the stamp before the other was over.    *)
(***************************************************************************)
EXTENDS AutoIngest, TLAPS

LEMMA ConstantTypes ==
    /\ MaxClock \in Nat \ {0}
    /\ MaxRuns \in Nat
    /\ MaxKills \in Nat
    /\ Unreadable \in Stamp
    /\ NoLock \in [by : 0 .. MaxRuns, at : Nat]
    /\ IdleHook \in HookState
    /\ NoRunner \in RunState
<1>1. MaxClock \in Nat \ {0} /\ MaxRuns \in Nat /\ MaxKills \in Nat
  BY IngestAssumption
<1>2. Unreadable \in Stamp
  BY DEF Unreadable, Stamp
<1>3. NoLock \in [by : 0 .. MaxRuns, at : Nat]
  BY <1>1 DEF NoLock
<1>4. IdleHook \in HookState
  BY <1>1 DEF IdleHook, HookState
<1>5. NoRunner \in RunState
  BY <1>1, <1>2, 0 \in 0 .. MaxRuns DEF NoRunner, RunState
<1>6. QED
  BY <1>1, <1>2, <1>3, <1>4, <1>5

LEMMA InitTypeOK == Init => TypeOK
<1>1. /\ 1 \in 1 .. MaxClock
      /\ 0 \in 0 .. MaxRuns
      /\ 0 \in 0 .. MaxKills
  BY ConstantTypes
<1>2. QED
  BY <1>1, ConstantTypes DEF Init, TypeOK

\* What one hook does to its own record.
LEMMA HookTypeOK ==
    ASSUME TypeOK, NEW h \in Hooks, Prompt(h) \/ HookStep(h) \/ KillHook(h)
    PROVE  TypeOK'
<1>. USE DEF TypeOK
<1>1. /\ hook \in [Hooks -> HookState]
      /\ hook[h] \in HookState
      /\ IdleHook \in HookState
  BY ConstantTypes
<1>2. /\ hook[h].head \in Heads \union {NoHead}
      /\ hook[h].at \in Nat
      /\ hook[h].id \in 0 .. MaxRuns
      /\ hook[h].past \in 0 .. MaxRuns
      /\ hook[h].since \in Nat
      /\ clock \in Nat
  BY <1>1, ConstantTypes DEF HookState
<1>3. NoLock \in [by : 0 .. MaxRuns, at : Nat] /\ Unreadable \in Stamp
  BY ConstantTypes
<1>4. CASE Prompt(h)
  <2>1. PICK seen \in {head, NoHead} :
            hook' = [hook EXCEPT ![h] = [IdleHook EXCEPT !.pc = "decide", !.since = clock,
                                                         !.head = seen]]
    BY <1>4 DEF Prompt
  <2>2. [IdleHook EXCEPT !.pc = "decide", !.since = clock, !.head = seen] \in HookState
    <3>1. seen \in Heads \union {NoHead} /\ 0 \in 0 .. MaxRuns
      BY <2>1, ConstantTypes
    <3>. HIDE DEF TypeOK
    <3>2. QED
      BY <1>2, <3>1 DEF IdleHook, HookState
  <2>3. hook' \in [Hooks -> HookState]
    BY <1>1, <2>1, <2>2
  <2>4. QED
    BY <1>4, <2>3 DEF Prompt
<1>5. CASE Decide(h)
  <2>. DEFINE past == IF lock.by = 0 THEN ids ELSE lock.by - 1
  <2>1. past \in 0 .. MaxRuns
    BY ConstantTypes
  <2>2. hook' = [hook EXCEPT ![h] = IF AlreadyCurrent(hook[h].head) THEN IdleHook
                                    ELSE [hook[h] EXCEPT !.pc = "lock", !.past = past]]
    BY <1>5 DEF Decide
  <2>. HIDE DEF past
  <2>3. [hook[h] EXCEPT !.pc = "lock", !.past = past] \in HookState
    BY <1>1, <2>1 DEF HookState
  <2>4. hook' \in [Hooks -> HookState]
    BY <1>1, <2>2, <2>3
  <2>5. QED
    BY <1>5, <2>4 DEF Decide
<1>6. CASE TestLock(h)
  <2>1. [hook[h] EXCEPT !.pc = "steal"] \in HookState /\ [hook[h] EXCEPT !.pc = "create"] \in HookState
    BY <1>1 DEF HookState
  <2>2. \/ hook' = [hook EXCEPT ![h] = [hook[h] EXCEPT !.pc = "steal"]]
        \/ hook' = [hook EXCEPT ![h] = [hook[h] EXCEPT !.pc = "create"]]
    BY <1>1, <1>6 DEF TestLock
  <2>3. hook' \in [Hooks -> HookState]
    BY <1>1, <2>1, <2>2
  <2>4. QED
    BY <1>6, <2>3 DEF TestLock
<1>7. CASE StealLock(h)
  <2>1. [hook[h] EXCEPT !.pc = "create"] \in HookState
    BY <1>1 DEF HookState
  <2>2. hook' \in [Hooks -> HookState]
    BY <1>1, <1>7, <2>1 DEF StealLock
  <2>3. QED
    BY <1>3, <1>7, <2>2 DEF StealLock
<1>8. CASE LockTaken(h)
  BY <1>1, <1>8 DEF LockTaken
<1>9. CASE CreateLock(h)
  <2>1. ids + 1 \in 0 .. MaxRuns /\ clock \in Nat
    BY <1>9, ConstantTypes DEF CreateLock
  <2>2. [hook[h] EXCEPT !.pc = "stamp", !.id = ids + 1] \in HookState
    BY <1>1, <2>1 DEF HookState
  <2>3. hook' = [hook EXCEPT ![h] = [hook[h] EXCEPT !.pc = "stamp", !.id = ids + 1]]
    BY <1>1, <1>9 DEF CreateLock
  <2>4. hook' \in [Hooks -> HookState]
    BY <1>1, <2>2, <2>3
  <2>5. QED
    BY <1>9, <2>1, <2>4 DEF CreateLock
<1>10. CASE TruncateStamp(h)
  <2>1. [hook[h] EXCEPT !.pc = "fill", !.at = clock] \in HookState
    BY <1>1, <1>2 DEF HookState
  <2>2. hook' = [hook EXCEPT ![h] = [hook[h] EXCEPT !.pc = "fill", !.at = clock]]
    BY <1>1, <1>10 DEF TruncateStamp
  <2>3. hook' \in [Hooks -> HookState]
    BY <1>1, <2>1, <2>2
  <2>4. QED
    BY <1>3, <1>10, <2>3 DEF TruncateStamp
<1>11. CASE FillStamp(h)
  <2>1. [hook[h] EXCEPT !.pc = "spawn"] \in HookState
    BY <1>1 DEF HookState
  <2>2. hook' \in [Hooks -> HookState]
    BY <1>1, <1>11, <2>1 DEF FillStamp
  <2>3. stamp' \in Stamp
    BY <1>2, <1>11 DEF FillStamp, Stamp
  <2>4. QED
    BY <1>11, <2>2, <2>3 DEF FillStamp
<1>12. CASE SpawnRunner(h)
  <2>1. [NoRunner EXCEPT !.pc = "ingest", !.head = hook[h].head, !.at = hook[h].at,
                         !.past = hook[h].past] \in RunState
    BY <1>2, <1>3 DEF NoRunner, RunState
  <2>2. run' \in [Run -> RunState]
    BY <1>12, <2>1 DEF SpawnRunner
  <2>3. hook' \in [Hooks -> HookState]
    BY <1>1, <1>12 DEF SpawnRunner
  <2>4. QED
    BY <1>12, <2>2, <2>3 DEF SpawnRunner
<1>13. CASE KillHook(h)
  BY <1>1, <1>13, IngestAssumption DEF KillHook
<1>14. QED
  BY <1>4, <1>5, <1>6, <1>7, <1>8, <1>9, <1>10, <1>11, <1>12, <1>13 DEF HookStep

LEMMA RunTypeOK ==
    ASSUME TypeOK, NEW n \in Run, RunStep(n) \/ RunnerStampError(n) \/ KillRunner(n)
    PROVE  TypeOK'
<1>. USE DEF TypeOK
<1>1. run \in [Run -> RunState] /\ run[n] \in RunState
  OBVIOUS
<1>2. run[n].data \in Stamp /\ run[n].ok \in BOOLEAN
  BY <1>1 DEF RunState
<1>3. NoLock \in [by : 0 .. MaxRuns, at : Nat] /\ Unreadable \in Stamp
  BY ConstantTypes
<1>4. ASSUME NEW r \in RunState, run' = [run EXCEPT ![n] = r]
      PROVE  run' \in [Run -> RunState]
  BY <1>1, <1>4
<1>5. CASE FinishIngest(n)
  <2>1. PICK ok \in BOOLEAN : run' = [run EXCEPT ![n].pc = "reread", ![n].ok = ok]
    BY <1>5 DEF FinishIngest
  <2>2. [run[n] EXCEPT !.pc = "reread", !.ok = ok] \in RunState
    BY <1>1 DEF RunState
  <2>3. run' = [run EXCEPT ![n] = [run[n] EXCEPT !.pc = "reread", !.ok = ok]]
    BY <1>1, <2>1
  <2>4. QED
    BY <1>4, <1>5, <2>2, <2>3 DEF FinishIngest
<1>6. CASE RereadStamp(n)
  <2>1. [run[n] EXCEPT !.pc = "truncate", !.data = stamp] \in RunState
    BY <1>1 DEF RunState
  <2>2. run' = [run EXCEPT ![n] = [run[n] EXCEPT !.pc = "truncate", !.data = stamp]]
    BY <1>1, <1>6 DEF RereadStamp
  <2>3. QED
    BY <1>4, <1>6, <2>1, <2>2 DEF RereadStamp
<1>7. CASE RunnerTruncateStamp(n)
  <2>1. [run[n] EXCEPT !.pc = "fill"] \in RunState
    BY <1>1 DEF RunState
  <2>2. run' = [run EXCEPT ![n] = [run[n] EXCEPT !.pc = "fill"]]
    BY <1>1, <1>7 DEF RunnerTruncateStamp
  <2>3. QED
    BY <1>3, <1>4, <1>7, <2>1, <2>2 DEF RunnerTruncateStamp
<1>8. ASSUME NEW pc \in {"unlink", "dead"}
      PROVE  [run[n] EXCEPT !.pc = pc, !.data = Unreadable] \in RunState
  BY <1>1, <1>3 DEF RunState
<1>9. CASE RunnerFillStamp(n)
  <2>1. stamp' \in Stamp
    BY <1>2, <1>9 DEF RunnerFillStamp, Stamp
  <2>2. [run[n] EXCEPT !.pc = "unlink", !.stamped = TRUE, !.data = Unreadable] \in RunState
    BY <1>1, <1>3 DEF RunState
  <2>3. run' = [run EXCEPT ![n] =
                    [run[n] EXCEPT !.pc = "unlink", !.stamped = TRUE, !.data = Unreadable]]
    BY <1>1, <1>9 DEF RunnerFillStamp
  <2>4. QED
    BY <1>4, <1>9, <2>1, <2>2, <2>3 DEF RunnerFillStamp
<1>10. CASE UnlinkLock(n)
  <2>1. [run[n] EXCEPT !.pc = "done"] \in RunState
    BY <1>1 DEF RunState
  <2>2. run' = [run EXCEPT ![n] = [run[n] EXCEPT !.pc = "done"]]
    BY <1>1, <1>10 DEF UnlinkLock
  <2>3. QED
    BY <1>3, <1>4, <1>10, <2>1, <2>2 DEF UnlinkLock
<1>11. CASE RunnerStampError(n)
  <2>1. run' = [run EXCEPT ![n] = [run[n] EXCEPT !.pc = "unlink", !.data = Unreadable]]
    BY <1>1, <1>11 DEF RunnerStampError
  <2>2. QED
    BY <1>4, <1>8, <1>11, <2>1, IngestAssumption DEF RunnerStampError
<1>12. CASE KillRunner(n)
  <2>1. run' = [run EXCEPT ![n] = [run[n] EXCEPT !.pc = "dead", !.data = Unreadable]]
    BY <1>1, <1>12 DEF KillRunner
  <2>2. QED
    BY <1>4, <1>8, <1>12, <2>1, IngestAssumption DEF KillRunner
<1>13. QED
  BY <1>5, <1>6, <1>7, <1>9, <1>10, <1>11, <1>12 DEF RunStep

LEMMA NextTypeOK == TypeOK /\ [Next]_vars => TypeOK'
<1>. SUFFICES ASSUME TypeOK, [Next]_vars
              PROVE  TypeOK'
  OBVIOUS
<1>1. CASE UNCHANGED vars
  BY <1>1 DEF TypeOK, vars
<1>2. CASE Tick
  BY <1>2, IngestAssumption DEF TypeOK, Tick
<1>3. CASE MoveHead
  BY <1>3 DEF TypeOK, MoveHead
<1>4. QED
  BY <1>1, <1>2, <1>3, HookTypeOK, RunTypeOK DEF Next

\* Every variable keeps its type.
THEOREM IngestTypeCorrect == Spec => []TypeOK
BY InitTypeOK, NextTypeOK, PTL DEF Spec
-----------------------------------------------------------------------------
(* One ingest at a time. *)

\* While no lock was stolen, the lock file names the one hook or runner at work,
\* and the run of a hook at work has no runner yet.
LockInv ==
    /\ \A n \in Run : n > ids => run[n].pc = "none"
    /\ \A h \in Hooks : hook[h].pc \in HookHolds => hook[h].id \in Run /\ hook[h].id <= ids
    /\ ~stolen =>
        /\ \A h \in Hooks :
               hook[h].pc \in HookHolds =>
                   lock.by = hook[h].id /\ run[hook[h].id].pc = "none"
        /\ \A n \in Run : run[n].pc \in RunHolds => lock.by = n
        /\ \A h, i \in Hooks : hook[h].pc \in HookHolds /\ hook[i].pc \in HookHolds => h = i

LEMMA InitLockInv == Init => LockInv
BY DEF Init, LockInv, IdleHook, NoRunner, HookHolds, RunHolds

\* A decision leads to the lock or to nothing.
LEMMA DecideResult ==
    ASSUME TypeOK, NEW h \in Hooks, Decide(h)
    PROVE  hook'[h].pc \in {"idle", "lock"}
<1>1. hook \in [Hooks -> HookState] /\ hook[h] \in HookState
  BY DEF TypeOK
<1>2. CASE AlreadyCurrent(hook[h].head)
  BY <1>1, <1>2 DEF Decide, IdleHook
<1>3. CASE ~AlreadyCurrent(hook[h].head)
  BY <1>1, <1>3 DEF Decide, HookState
<1>4. QED
  BY <1>2, <1>3

\* A hook that does not get hold of the lock, nor has a hold on it that matters,
\* leaves the invariant alone.
LEMMA HookLockInv ==
    ASSUME TypeOK, LockInv, NEW h \in Hooks, Prompt(h) \/ HookStep(h) \/ KillHook(h)
    PROVE  LockInv'
<1>1. /\ hook \in [Hooks -> HookState]
      /\ run \in [Run -> RunState]
      /\ ids \in Nat
      /\ ids <= MaxRuns
      /\ MaxRuns \in Nat
  BY ConstantTypes DEF TypeOK
<1>2. ASSUME hook'[h].pc \notin HookHolds,
             \A i \in Hooks : i # h => hook'[i] = hook[i],
             UNCHANGED <<lock, ids, run, stolen>>
      PROVE  LockInv'
  BY <1>2 DEF LockInv
<1>3. CASE Prompt(h)
  <2>1. hook'[h].pc = "decide"
    BY <1>1, <1>3 DEF Prompt, IdleHook
  <2>2. QED
    BY <1>1, <1>2, <1>3, <2>1 DEF Prompt, HookHolds
<1>4. CASE Decide(h) \/ TestLock(h) \/ LockTaken(h) \/ KillHook(h)
  <2>1. hook'[h].pc \notin HookHolds
    <3>1. CASE Decide(h)
      BY <3>1, DecideResult DEF HookHolds
    <3>2. CASE ~Decide(h)
      BY <1>1, <1>4, <3>2 DEF TestLock, LockTaken, KillHook, IdleHook, HookHolds, HookState
    <3>3. QED
      BY <3>1, <3>2
  <2>2. QED
    BY <1>1, <1>2, <1>4, <2>1 DEF Decide, TestLock, LockTaken, KillHook
<1>5. CASE StealLock(h)
  <2>1. /\ hook'[h].pc \notin HookHolds
        /\ \A i \in Hooks : i # h => hook'[i] = hook[i]
        /\ stolen'
        /\ UNCHANGED <<ids, run>>
    BY <1>1, <1>5 DEF StealLock, HookState, HookHolds
  <2>2. QED
    BY <2>1 DEF LockInv
<1>6. CASE CreateLock(h)
  <2>1. /\ hook'[h].pc = "stamp"
        /\ hook'[h].id = ids + 1
        /\ \A i \in Hooks : i # h => hook'[i] = hook[i]
        /\ lock.by = 0
        /\ lock'.by = ids + 1
        /\ ids' = ids + 1
        /\ ids < MaxRuns
        /\ UNCHANGED <<run, stolen>>
    BY <1>1, <1>6 DEF CreateLock, HookState, NoLock
  <2>2. ids + 1 \in Run /\ \A n \in Run : n # 0 /\ n \in Nat
    BY <1>1, <2>1 DEF Run
  <2>3. ASSUME ~stolen
        PROVE  /\ \A i \in Hooks : i # h => hook'[i].pc \notin HookHolds
               /\ \A n \in Run : run'[n].pc \notin RunHolds
    BY <2>1, <2>2, <2>3 DEF LockInv
  <2>4. \A n \in Run : n > ids' => run'[n].pc = "none"
    BY <1>1, <2>1, <2>2 DEF LockInv
  <2>5. run'[ids + 1].pc = "none"
    BY <1>1, <2>1, <2>2 DEF LockInv
  <2>6. \A i \in Hooks : hook'[i].pc \in HookHolds => hook'[i].id \in Run /\ hook'[i].id <= ids'
    <3>1. \A i \in Hooks : i # h /\ hook[i].pc \in HookHolds => hook[i].id \in Nat /\ hook[i].id <= ids
      BY <2>2 DEF LockInv
    <3>2. QED
      BY <1>1, <2>1, <2>2, <3>1 DEF LockInv
  <2>7. QED
    BY <2>1, <2>3, <2>4, <2>5, <2>6 DEF LockInv
<1>7. CASE TruncateStamp(h) \/ FillStamp(h)
  <2>1. /\ hook[h].pc \in HookHolds
        /\ hook'[h].pc \in HookHolds
        /\ hook'[h].id = hook[h].id
        /\ \A i \in Hooks : i # h => hook'[i] = hook[i]
        /\ UNCHANGED <<lock, ids, run, stolen>>
    BY <1>1, <1>7 DEF TruncateStamp, FillStamp, HookState, HookHolds
  <2>2. QED
    BY <2>1 DEF LockInv
<1>8. CASE SpawnRunner(h)
  <2>1. /\ hook[h].pc \in HookHolds
        /\ hook'[h].pc \notin HookHolds
        /\ \A i \in Hooks : i # h => hook'[i] = hook[i]
        /\ \A n \in Run : n # hook[h].id => run'[n] = run[n]
        /\ UNCHANGED <<lock, ids, stolen>>
    BY <1>1, <1>8 DEF SpawnRunner, IdleHook, HookHolds
  <2>2. ids' = ids
    BY <2>1
  <2>3. ASSUME ~stolen
        PROVE  /\ lock.by = hook[h].id
               /\ \A i \in Hooks : hook'[i].pc \notin HookHolds
    BY <2>1, <2>3 DEF LockInv
  <2>4. hook[h].id \in Run /\ hook[h].id <= ids
    BY <2>1 DEF LockInv
  <2>5. \A n \in Run : n > ids' => run'[n].pc = "none"
    <3>1. \A n \in Run : n > ids => n # hook[h].id
      BY <1>1, <2>4 DEF Run
    <3>2. QED
      BY <2>1, <3>1 DEF LockInv
  <2>6. QED
    BY <2>1, <2>3, <2>5 DEF LockInv
<1>9. QED
  BY <1>3, <1>4, <1>5, <1>6, <1>7, <1>8 DEF HookStep
LEMMA RunLockInv ==
    ASSUME TypeOK, LockInv, NEW n \in Run, RunStep(n) \/ RunnerStampError(n) \/ KillRunner(n)
    PROVE  LockInv'
<1>1. run \in [Run -> RunState]
  BY DEF TypeOK
<1>2. /\ run[n].pc \in RunHolds
      /\ \A m \in Run : m # n => run'[m] = run[m]
      /\ UNCHANGED <<hook, ids, stolen>>
  BY <1>1 DEF RunStep, FinishIngest, RereadStamp, RunnerTruncateStamp, RunnerFillStamp, UnlinkLock,
              RunnerStampError, KillRunner, RunHolds
<1>3. run[n].pc # "none" /\ ~(n > ids)
  BY <1>2 DEF LockInv, RunHolds
<1>4. \A m \in Run : m > ids' => run'[m].pc = "none"
  BY <1>2, <1>3 DEF LockInv
<1>5. \A h \in Hooks :
          hook'[h].pc \in HookHolds =>
              /\ hook'[h].id \in Run
              /\ hook'[h].id <= ids'
              /\ ~stolen => hook'[h].id # n
  BY <1>2, <1>3 DEF LockInv
<1>6. CASE UnlinkLock(n)
  <2>1. run'[n].pc \notin RunHolds
    BY <1>1, <1>6 DEF UnlinkLock, RunHolds, RunState
  <2>2. ASSUME ~stolen
        PROVE  /\ \A h \in Hooks : hook'[h].pc \notin HookHolds
               /\ \A m \in Run : run'[m].pc \notin RunHolds
    BY <1>2, <1>3, <2>1, <2>2 DEF LockInv
  <2>3. QED
    BY <1>2, <1>4, <1>5, <2>2 DEF LockInv
<1>7. CASE ~UnlinkLock(n)
  <2>1. lock' = lock
    BY <1>7 DEF RunStep, FinishIngest, RereadStamp, RunnerTruncateStamp, RunnerFillStamp,
                RunnerStampError, KillRunner
  <2>2. QED
    BY <1>2, <1>4, <1>5, <2>1 DEF LockInv
<1>8. QED
  BY <1>6, <1>7

LEMMA NextLockInv == TypeOK /\ LockInv /\ [Next]_vars => LockInv'
<1>. SUFFICES ASSUME TypeOK, LockInv, [Next]_vars
              PROVE  LockInv'
  OBVIOUS
<1>1. CASE UNCHANGED vars \/ Tick \/ MoveHead
  BY <1>1 DEF LockInv, vars, Tick, MoveHead
<1>2. QED
  BY <1>1, HookLockInv, RunLockInv DEF Next

\* With any number of hooks and runs, and whatever dies, two runs are never at
\* work together unless a hook took a lock for stale.
THEOREM OneIngestAtATime == Spec => []OneIngest
<1>1. LockInv => OneIngest
  BY DEF LockInv, OneIngest, Active
<1>2. QED
  BY <1>1, InitLockInv, NextLockInv, IngestTypeCorrect, PTL DEF Spec

-----------------------------------------------------------------------------
(* A stamp that says ok is right. *)

\* While no lock was stolen, the stamp is about the run at work, from the moment
\* its hook has written it to the moment its runner has copied it.
StampInv ==
    ~stolen =>
        /\ \A h \in Hooks : hook[h].pc = "spawn" => stamp.head = hook[h].head /\ stamp.status = "started"
        /\ \A n \in Run :
               /\ run[n].pc \in {"ingest", "reread"} =>
                      stamp.head = run[n].head /\ stamp.status = "started"
               /\ run[n].pc \in {"truncate", "fill"} => run[n].data.head = run[n].head
        /\ stamp.status = "ok" => \E n \in Run : run[n].ok /\ run[n].head = stamp.head

LEMMA InitStampInv == Init => StampInv
BY DEF Init, StampInv, IdleHook, NoRunner, Unreadable

\* Only one process is at work: no hook, when a runner is, and no other run.
LEMMA OthersAtRest ==
    ASSUME LockInv, ~stolen
    PROVE  /\ \A h \in Hooks : hook[h].pc \in HookHolds =>
                 /\ \A i \in Hooks : i # h => hook[i].pc \notin HookHolds
                 /\ \A n \in Run : run[n].pc \notin RunHolds
           /\ \A n \in Run : run[n].pc \in RunHolds =>
                 /\ \A h \in Hooks : hook[h].pc \notin HookHolds
                 /\ \A m \in Run : m # n => run[m].pc \notin RunHolds
BY DEF LockInv, RunHolds

LEMMA HookStampInv ==
    ASSUME TypeOK, LockInv, StampInv, NEW h \in Hooks, Prompt(h) \/ HookStep(h) \/ KillHook(h)
    PROVE  StampInv'
<1>. SUFFICES ASSUME ~stolen'
              PROVE  StampInv'
  BY DEF StampInv
<1>1. /\ hook \in [Hooks -> HookState]
      /\ run \in [Run -> RunState]
      /\ hook[h] \in HookState
  BY DEF TypeOK
<1>2. ~stolen
  BY DEF Prompt, HookStep, KillHook, Decide, TestLock, StealLock, LockTaken, CreateLock,
         TruncateStamp, FillStamp, SpawnRunner, TypeOK
<1>3. \A i \in Hooks : i # h => hook'[i] = hook[i]
  BY <1>1 DEF Prompt, HookStep, KillHook, Decide, TestLock, StealLock, LockTaken, CreateLock,
              TruncateStamp, FillStamp, SpawnRunner
<1>4. ASSUME hook'[h].pc # "spawn", UNCHANGED <<stamp, run>>
      PROVE  StampInv'
  BY <1>2, <1>3, <1>4 DEF StampInv
<1>5. CASE Prompt(h)
  <2>1. hook'[h].pc = "decide"
    BY <1>1, <1>5 DEF Prompt, IdleHook
  <2>2. QED
    BY <1>4, <1>5, <2>1 DEF Prompt
<1>6. CASE Decide(h) \/ TestLock(h) \/ StealLock(h) \/ LockTaken(h) \/ CreateLock(h) \/ KillHook(h)
  <2>1. hook'[h].pc # "spawn"
    <3>1. CASE Decide(h)
      BY <3>1, DecideResult
    <3>2. CASE ~Decide(h)
      BY <1>1, <1>6, <3>2
         DEF TestLock, StealLock, LockTaken, CreateLock, KillHook, IdleHook, HookState
    <3>3. QED
      BY <3>1, <3>2
  <2>2. QED
    BY <1>4, <1>6, <2>1 DEF Decide, TestLock, StealLock, LockTaken, CreateLock, KillHook
<1>7. CASE TruncateStamp(h)
  <2>1. /\ hook[h].pc \in HookHolds
        /\ hook'[h].pc = "fill"
        /\ stamp'.status = "unreadable"
        /\ run' = run
    BY <1>1, <1>7 DEF TruncateStamp, HookHolds, HookState, Unreadable
  <2>2. QED
    BY <1>2, <1>3, <2>1, OthersAtRest DEF StampInv, HookHolds, RunHolds
<1>8. CASE FillStamp(h)
  <2>1. /\ hook[h].pc \in HookHolds
        /\ hook'[h].head = hook[h].head
        /\ stamp'.head = hook[h].head
        /\ stamp'.status = "started"
        /\ run' = run
    BY <1>1, <1>8 DEF FillStamp, HookHolds, HookState
  <2>2. QED
    BY <1>2, <1>3, <2>1, OthersAtRest DEF StampInv, HookHolds, RunHolds
<1>9. CASE SpawnRunner(h)
  <2>1. hook[h].id \in Run /\ run[hook[h].id].pc = "none"
    BY <1>2, <1>9 DEF SpawnRunner, LockInv, HookHolds
  <2>2. /\ hook'[h].pc = "idle"
        /\ run'[hook[h].id].pc = "ingest"
        /\ run'[hook[h].id].head = hook[h].head
        /\ \A n \in Run : n # hook[h].id => run'[n] = run[n]
        /\ stamp.head = hook[h].head
        /\ stamp.status = "started"
        /\ stamp' = stamp
    BY <1>1, <1>2, <1>9, <2>1 DEF SpawnRunner, IdleHook, NoRunner, StampInv
  <2>3. QED
    BY <1>2, <1>3, <2>1, <2>2 DEF StampInv
<1>10. QED
  BY <1>5, <1>6, <1>7, <1>8, <1>9 DEF HookStep

LEMMA RunStampInv ==
    ASSUME TypeOK, LockInv, StampInv, NEW n \in Run,
           RunStep(n) \/ RunnerStampError(n) \/ KillRunner(n)
    PROVE  StampInv'
<1>0. UNCHANGED <<hook, stolen>>
  BY DEF RunStep, FinishIngest, RereadStamp, RunnerTruncateStamp, RunnerFillStamp, UnlinkLock,
         RunnerStampError, KillRunner
<1>. SUFFICES ASSUME ~stolen
              PROVE  StampInv'
  BY <1>0 DEF StampInv
<1>1. /\ run \in [Run -> RunState]
      /\ run[n] \in RunState
  BY DEF TypeOK
<1>2. /\ run[n].pc \in RunHolds
      /\ \A m \in Run : m # n => run'[m] = run[m]
      /\ run'[n].head = run[n].head
      /\ UNCHANGED <<hook, stolen>>
  <2>1. CASE FinishIngest(n)
    <3>1. PICK ok \in BOOLEAN : run' = [run EXCEPT ![n].pc = "reread", ![n].ok = ok]
      BY <2>1 DEF FinishIngest
    <3>2. QED
      BY <1>0, <1>1, <2>1, <3>1 DEF FinishIngest, RunHolds, RunState
  <2>2. CASE ~FinishIngest(n)
    BY <1>0, <1>1, <2>2
       DEF RunStep, RereadStamp, RunnerTruncateStamp, RunnerFillStamp, UnlinkLock,
           RunnerStampError, KillRunner, RunHolds, RunState
  <2>3. QED
    BY <2>1, <2>2
<1>3. /\ \A h \in Hooks : hook[h].pc \notin HookHolds
      /\ \A m \in Run : m # n => run[m].pc \notin RunHolds
  BY <1>2, OthersAtRest
<1>4. CASE FinishIngest(n)
  <2>1. stamp' = stamp /\ run[n].pc = "ingest" /\ run'[n].pc = "reread"
    BY <1>1, <1>4 DEF FinishIngest, RunState
  <2>2. QED
    BY <1>2, <1>3, <2>1 DEF StampInv, HookHolds, RunHolds
<1>5. CASE RereadStamp(n)
  <2>1. /\ stamp' = stamp
        /\ run[n].pc = "reread"
        /\ run'[n].pc = "truncate"
        /\ run'[n].data = stamp
    BY <1>1, <1>5 DEF RereadStamp, RunState
  <2>2. QED
    BY <1>2, <1>3, <2>1 DEF StampInv, HookHolds, RunHolds
<1>6. CASE RunnerTruncateStamp(n)
  <2>1. /\ stamp'.status = "unreadable"
        /\ run[n].pc = "truncate"
        /\ run'[n].pc = "fill"
        /\ run'[n].data = run[n].data
    BY <1>1, <1>6 DEF RunnerTruncateStamp, RunState, Unreadable
  <2>2. QED
    BY <1>2, <1>3, <2>1 DEF StampInv, HookHolds, RunHolds
<1>7. CASE RunnerFillStamp(n)
  <2>1. /\ stamp'.head = run[n].data.head
        /\ stamp'.status = "ok" => run[n].ok
        /\ run[n].pc = "fill"
        /\ run'[n].pc = "unlink"
        /\ run'[n].ok = run[n].ok
    BY <1>1, <1>7 DEF RunnerFillStamp, RunState, Stamp
  <2>2. QED
    BY <1>2, <1>3, <2>1 DEF StampInv, HookHolds, RunHolds
<1>8. CASE UnlinkLock(n) \/ RunnerStampError(n) \/ KillRunner(n)
  <2>1. /\ stamp' = stamp
        /\ run'[n].pc \in {"unlink", "done", "dead"}
        /\ run'[n].ok = run[n].ok
    BY <1>1, <1>8 DEF UnlinkLock, RunnerStampError, KillRunner, RunState
  <2>2. QED
    BY <1>2, <1>3, <2>1 DEF StampInv, HookHolds, RunHolds
<1>9. QED
  BY <1>4, <1>5, <1>6, <1>7, <1>8 DEF RunStep

LEMMA NextStampInv == TypeOK /\ LockInv /\ StampInv /\ [Next]_vars => StampInv'
<1>. SUFFICES ASSUME TypeOK, LockInv, StampInv, [Next]_vars
              PROVE  StampInv'
  OBVIOUS
<1>1. CASE UNCHANGED vars \/ Tick \/ MoveHead
  BY <1>1 DEF StampInv, vars, Tick, MoveHead
<1>2. QED
  BY <1>1, HookStampInv, RunStampInv DEF Next

\* However hooks and runners interleave and die, a stamp says ok of a head only
\* after a run for that head has exited with 0, unless a lock was stolen.
THEOREM OkStampIsRight == Spec => []OkStampIsTrue
<1>1. StampInv => OkStampIsTrue
  BY DEF StampInv, OkStampIsTrue
<1>2. QED
  BY <1>1, InitLockInv, NextLockInv, InitStampInv, NextStampInv, IngestTypeCorrect, PTL DEF Spec

-----------------------------------------------------------------------------
(* No repeated run. *)

\* Runs come one after the other: while no lock was stolen, each had given the lock
\* back before the next one took it.
RunsOver ==
    /\ lock.by \in {0, ids}
    /\ \A n \in Run : n < ids => run[n].pc = "done"
    /\ lock.by = 0 /\ ids > 0 => run[ids].pc = "done"

\* The time of the stamp is that of the latest run, from the moment its hook has
\* written it, except while somebody rewrites it.
StampTimes ==
    /\ \A h \in Hooks :
           /\ hook[h].pc \in {"fill", "spawn"} => hook[h].at > 0
           /\ hook[h].pc = "spawn" => stamp.at = hook[h].at
    /\ \A n \in Run :
           /\ run[n].pc = "none" => run[n].past = 0 /\ ~run[n].stamped
           /\ run[n].pc # "none" => run[n].at > 0
           /\ run[n].pc \in {"ingest", "reread"} => stamp.at = run[n].at
           /\ run[n].pc \in {"truncate", "fill"} => run[n].data.at = run[n].at
           /\ run[n].stamped => run[n].pc \in {"unlink", "done", "dead"}
           /\ run[n].stamped /\ n = ids => stamp.at = run[n].at

\* at is a TTL after run n, if that one has stamped its result.
After(at, n) == n > 0 /\ run[n].stamped => at >= run[n].at + Ttl

\* A hook that read the stamp after the latest run was over starts a TTL after it.
PastsRight ==
    \A h \in Hooks :
        /\ hook[h].pc \in {"lock", "steal", "create"} =>
               /\ hook[h].past <= ids
               /\ hook[h].past = ids /\ ids > 0 => run[ids].pc = "done" /\ After(clock, ids)
        /\ hook[h].pc = "stamp" /\ hook[h].past = ids - 1 => After(clock, ids - 1)
        /\ hook[h].pc \in {"fill", "spawn"} /\ hook[h].past = ids - 1 =>
               After(hook[h].at, ids - 1)

RepeatInv == ~stolen => RunsOver /\ StampTimes /\ PastsRight /\ NoRepeatedRun

LEMMA InitRepeatInv == Init => RepeatInv
<1>. SUFFICES ASSUME Init PROVE RunsOver /\ StampTimes /\ PastsRight /\ NoRepeatedRun
  BY DEF RepeatInv
<1>1. /\ ids = 0 /\ lock.by = 0
      /\ \A h \in Hooks : hook[h].pc = "idle"
      /\ \A n \in Run : /\ run[n].pc = "none" /\ run[n].past = 0 /\ ~run[n].stamped
                        /\ n \in Nat /\ n > 0
  BY IngestAssumption DEF Init, IdleHook, NoRunner, NoLock, Run
<1>2. RunsOver /\ StampTimes /\ PastsRight
  BY <1>1 DEF RunsOver, StampTimes, PastsRight
<1>3. NoRepeatedRun
  BY <1>1 DEF NoRepeatedRun
<1>4. QED
  BY <1>2, <1>3

\* What the invariants say in terms of numbers.
LEMMA RepeatTypes ==
    ASSUME TypeOK
    PROVE  /\ clock \in Nat /\ clock > 0 /\ Ttl \in Nat /\ MaxRuns \in Nat
           /\ ids \in Nat /\ ids <= MaxRuns
           /\ ids > 0 => ids \in Run
           /\ ids > 1 => ids - 1 \in Run
           /\ \A n \in Run : n \in Nat /\ n > 0
           /\ hook \in [Hooks -> HookState]
           /\ run \in [Run -> RunState]
           /\ \A n \in Run : run[n] \in RunState /\ run[n].at \in Nat /\ run[n].past \in Nat
           /\ \A h \in Hooks : hook[h] \in HookState /\ hook[h].at \in Nat /\ hook[h].past \in Nat
           /\ stamp.at \in Nat
           /\ lock.by \in Nat
<1>1. clock \in 1 .. MaxClock /\ ids \in 0 .. MaxRuns /\ MaxRuns \in Nat /\ Ttl \in Nat
  BY IngestAssumption DEF TypeOK
<1>2. /\ stamp \in Stamp /\ hook \in [Hooks -> HookState] /\ run \in [Run -> RunState]
      /\ lock \in [by : 0 .. MaxRuns, at : Nat]
  BY DEF TypeOK
<1>3. ASSUME NEW h \in Hooks
      PROVE  hook[h] \in HookState /\ hook[h].at \in Nat /\ hook[h].past \in Nat
  <2>1. hook[h] \in HookState
    BY <1>2
  <2>2. QED
    BY <1>1, <2>1 DEF HookState
<1>4. ASSUME NEW n \in Run
      PROVE  run[n] \in RunState /\ run[n].at \in Nat /\ run[n].past \in Nat
  <2>1. run[n] \in RunState
    BY <1>2
  <2>2. QED
    BY <1>1, <2>1 DEF RunState
<1>5. stamp.at \in Nat /\ lock.by \in Nat
  BY <1>1, <1>2 DEF Stamp
<1>6. QED
  BY <1>1, <1>2, <1>3, <1>4, <1>5 DEF Run

\* A hook before it has the lock.
LEMMA EarlyHookRepeat ==
    ASSUME TypeOK, ~stolen', RepeatInv, NEW h \in Hooks,
           Prompt(h) \/ Decide(h) \/ TestLock(h) \/ StealLock(h) \/ LockTaken(h) \/ KillHook(h)
    PROVE  RepeatInv'
<1>. USE RepeatTypes
<1>1. ~StealLock(h)
  BY DEF StealLock
<1>2. /\ UNCHANGED <<clock, stamp, lock, ids, run, stolen>>
      /\ \A i \in Hooks : i # h => hook'[i] = hook[i]
  BY <1>1 DEF Prompt, Decide, TestLock, LockTaken, KillHook
<1>3. RunsOver /\ StampTimes /\ PastsRight /\ NoRepeatedRun
  BY <1>2 DEF RepeatInv
<1>4. /\ hook'[h].pc \in {"idle", "decide", "lock", "steal", "create"}
      /\ hook'[h].pc \in {"lock", "steal", "create"} =>
             /\ hook'[h].past <= ids
             /\ hook'[h].past = ids /\ ids > 0 => run[ids].pc = "done" /\ After(clock, ids)
  <2>1. CASE Prompt(h)
    BY <2>1 DEF Prompt, IdleHook
  <2>2. CASE Decide(h)
    <3>1. CASE AlreadyCurrent(hook[h].head)
      BY <2>2, <3>1 DEF Decide, IdleHook
    <3>2. CASE ~AlreadyCurrent(hook[h].head)
      <4>1. /\ hook'[h].pc = "lock"
            /\ hook'[h].past = IF lock.by = 0 THEN ids ELSE lock.by - 1
        BY <2>2, <3>2 DEF Decide, HookState
      <4>2. lock.by = 0 /\ ids > 0 => run[ids].pc = "done"
        BY <1>3 DEF RunsOver
      <4>3. ASSUME lock.by = 0
            PROVE  After(clock, ids)
        <5>. SUFFICES ASSUME ids > 0, run[ids].stamped
                      PROVE  clock >= run[ids].at + Ttl
          BY DEF After
        <5>1. stamp.at = run[ids].at /\ run[ids].at > 0
          BY <1>3, <4>2, <4>3 DEF StampTimes
        <5>2. QED
          BY <3>2, <5>1 DEF AlreadyCurrent
      <4>4. lock.by = 0 \/ lock.by = ids
        BY <1>3 DEF RunsOver
      <4>5. QED
        BY <4>1, <4>2, <4>3, <4>4
    <3>3. QED
      BY <3>1, <3>2
  <2>3. CASE TestLock(h)
    <3>1. hook'[h].pc \in {"steal", "create"} /\ hook'[h].past = hook[h].past /\ hook[h].pc = "lock"
      BY <2>3 DEF TestLock, HookState
    <3>2. QED
      BY <1>3, <3>1 DEF PastsRight
  <2>4. CASE LockTaken(h) \/ KillHook(h)
    BY <2>4 DEF LockTaken, KillHook, IdleHook
  <2>5. QED
    BY <1>1, <2>1, <2>2, <2>3, <2>4
<1>5. RunsOver' /\ NoRepeatedRun'
  BY <1>2, <1>3 DEF RunsOver, NoRepeatedRun
<1>6. StampTimes'
  BY <1>2, <1>3, <1>4 DEF StampTimes
<1>7. PastsRight'
  BY <1>2, <1>3, <1>4 DEF PastsRight, After
<1>8. QED
  BY <1>5, <1>6, <1>7 DEF RepeatInv

\* A hook takes the lock.
LEMMA CreateLockRepeat ==
    ASSUME TypeOK, LockInv, ~stolen', RepeatInv, NEW h \in Hooks, CreateLock(h)
    PROVE  RepeatInv'
<1>. USE RepeatTypes
<1>1. /\ hook[h].pc = "create" /\ lock.by = 0
      /\ hook'[h].pc = "stamp" /\ hook'[h].past = hook[h].past
      /\ \A i \in Hooks : i # h => hook'[i] = hook[i]
      /\ ids' = ids + 1 /\ ids + 1 \in Run /\ lock'.by = ids + 1
      /\ UNCHANGED <<clock, stamp, run, stolen>>
  BY DEF CreateLock, HookState, Run, NoLock
<1>2. RunsOver /\ StampTimes /\ PastsRight /\ NoRepeatedRun
  BY <1>1 DEF RepeatInv
<1>3. \A i \in Hooks : hook[i].pc \notin HookHolds
  <2>1. \A n \in Run : n # 0
    OBVIOUS
  <2>2. QED
    BY <1>1, <2>1 DEF LockInv
<1>4. run[ids + 1].pc = "none"
  BY <1>1 DEF LockInv
<1>5. RunsOver'
  BY <1>1, <1>2 DEF RunsOver
<1>6. StampTimes'
  <2>1. ~run[ids + 1].stamped
    BY <1>1, <1>2, <1>4 DEF StampTimes
  <2>2. QED
    BY <1>1, <1>2, <2>1 DEF StampTimes
<1>7. PastsRight'
  <2>1. ASSUME NEW i \in Hooks, i # h
        PROVE  /\ hook'[i].pc \in {"lock", "steal", "create"} => hook'[i].past < ids'
               /\ hook'[i].pc \notin HookHolds
    BY <1>1, <1>2, <1>3, <2>1 DEF PastsRight
  <2>2. hook[h].past = ids => After(clock, ids)
    BY <1>1, <1>2 DEF PastsRight, After
  <2>3. hook'[h].past = ids' - 1 => After(clock, ids - 1)'
    BY <1>1, <2>2 DEF After
  <2>4. QED
    BY <1>1, <2>1, <2>3 DEF PastsRight, HookHolds
<1>8. NoRepeatedRun'
  BY <1>1, <1>2 DEF NoRepeatedRun
<1>9. QED
  BY <1>5, <1>6, <1>7, <1>8 DEF RepeatInv

\* A hook with the lock writes the stamp.
LEMMA HookStampRepeat ==
    ASSUME TypeOK, LockInv, ~stolen', RepeatInv, NEW h \in Hooks, TruncateStamp(h) \/ FillStamp(h)
    PROVE  RepeatInv'
<1>. USE RepeatTypes
<1>1. /\ hook[h].pc \in {"stamp", "fill"}
      /\ hook'[h].pc = (IF hook[h].pc = "stamp" THEN "fill" ELSE "spawn")
      /\ hook'[h].past = hook[h].past
      /\ hook'[h].at = (IF hook[h].pc = "stamp" THEN clock ELSE hook[h].at)
      /\ hook[h].pc = "fill" => stamp'.at = hook[h].at
      /\ \A i \in Hooks : i # h => hook'[i] = hook[i]
      /\ UNCHANGED <<clock, lock, ids, run, stolen>>
  BY DEF TruncateStamp, FillStamp, HookState
<1>2. RunsOver /\ StampTimes /\ PastsRight /\ NoRepeatedRun
  BY <1>1 DEF RepeatInv
<1>3. /\ \A i \in Hooks : i # h => hook[i].pc \notin HookHolds
      /\ \A n \in Run : run[n].pc \notin RunHolds
      /\ ids \in Run /\ run[ids].pc = "none"
  <2>1. hook[h].id \in Run /\ lock.by = hook[h].id /\ run[hook[h].id].pc = "none"
    BY <1>1 DEF LockInv, HookHolds
  <2>2. hook[h].id = ids
    BY <1>2, <2>1 DEF RunsOver
  <2>3. QED
    BY <1>1, <2>1, <2>2, OthersAtRest DEF HookHolds
<1>4. RunsOver' /\ NoRepeatedRun'
  BY <1>1, <1>2 DEF RunsOver, NoRepeatedRun
<1>5. StampTimes'
  BY <1>1, <1>2, <1>3 DEF StampTimes, HookHolds, RunHolds
<1>6. PastsRight'
  <2>1. hook[h].past = ids - 1 => After(hook'[h].at, ids - 1)
    BY <1>1, <1>2 DEF PastsRight
  <2>2. QED
    BY <1>1, <1>2, <2>1 DEF PastsRight, After
<1>7. QED
  BY <1>4, <1>5, <1>6 DEF RepeatInv

\* A hook starts its runner.
LEMMA SpawnRepeat ==
    ASSUME TypeOK, LockInv, ~stolen', RepeatInv, NEW h \in Hooks, SpawnRunner(h)
    PROVE  RepeatInv'
<1>. USE RepeatTypes
<1>1. /\ hook[h].pc = "spawn" /\ hook'[h].pc = "idle"
      /\ \A i \in Hooks : i # h => hook'[i] = hook[i]
      /\ UNCHANGED <<clock, stamp, lock, ids, stolen>>
  BY DEF SpawnRunner, IdleHook
<1>2. RunsOver /\ StampTimes /\ PastsRight /\ NoRepeatedRun
  BY <1>1 DEF RepeatInv
<1>3. ids \in Run /\ hook[h].id = ids /\ lock.by = ids /\ run[ids].pc = "none"
  <2>1. hook[h].id \in Run /\ lock.by = hook[h].id /\ run[hook[h].id].pc = "none"
    BY <1>1 DEF LockInv, HookHolds
  <2>2. QED
    BY <1>2, <2>1 DEF RunsOver
<1>4. /\ run'[ids].pc = "ingest" /\ run'[ids].at = hook[h].at /\ run'[ids].past = hook[h].past
      /\ ~run'[ids].stamped
      /\ \A n \in Run : n # ids => run'[n] = run[n]
  BY <1>3 DEF SpawnRunner, NoRunner
<1>5. RunsOver'
  BY <1>1, <1>2, <1>3, <1>4 DEF RunsOver
<1>6. hook[h].at > 0 /\ stamp.at = hook[h].at
  BY <1>1, <1>2 DEF StampTimes
<1>7. StampTimes'
  BY <1>1, <1>2, <1>3, <1>4, <1>6 DEF StampTimes
<1>8. PastsRight'
  <2>1. \A i \in Hooks : i # h => hook[i].pc \notin HookHolds
    BY <1>1, OthersAtRest DEF HookHolds
  <2>2. \A i \in Hooks : hook[i].pc \in {"lock", "steal", "create"} =>
            hook[i].past <= ids /\ hook[i].past # ids
    BY <1>2, <1>3 DEF PastsRight
  <2>3. QED
    BY <1>1, <2>1, <2>2 DEF PastsRight, HookHolds
<1>9. NoRepeatedRun'
  <2>. SUFFICES ASSUME NEW n \in Run, n > 1, run'[n].past = n - 1, run'[n - 1].stamped
                PROVE  run'[n].at - run'[n - 1].at >= Ttl
    BY DEF NoRepeatedRun
  <2>1. n - 1 \in Run /\ n - 1 # ids /\ run'[n - 1] = run[n - 1]
    <3>1. n - 1 \in Run
      BY DEF Run
    <3>2. QED
      BY <1>4, <3>1
  <2>2. CASE n = ids
    <3>1. After(hook[h].at, n - 1)
      BY <1>1, <1>2, <1>4, <2>2 DEF PastsRight
    <3>2. hook[h].at >= run[n - 1].at + Ttl
      BY <2>1, <3>1 DEF After
    <3>3. QED
      BY <1>4, <2>1, <2>2, <3>2
  <2>3. CASE n # ids
    BY <1>1, <1>2, <1>4, <2>1, <2>3 DEF NoRepeatedRun
  <2>4. QED
    BY <2>2, <2>3
<1>10. QED
  BY <1>5, <1>7, <1>8, <1>9 DEF RepeatInv

\* The runner: it is the latest one that goes on.
LEMMA RunRepeat ==
    ASSUME TypeOK, LockInv, ~stolen', RepeatInv, NEW n \in Run,
           RunStep(n) \/ RunnerStampError(n) \/ KillRunner(n)
    PROVE  RepeatInv'
<1>. USE RepeatTypes
<1>1. /\ run[n].pc \in RunHolds
      /\ UNCHANGED <<clock, hook, ids, stolen>>
      /\ \A m \in Run : m # n => run'[m] = run[m]
  BY DEF RunStep, FinishIngest, RereadStamp, RunnerTruncateStamp, RunnerFillStamp, UnlinkLock,
         RunnerStampError, KillRunner, RunHolds
<1>2. RunsOver /\ StampTimes /\ PastsRight /\ NoRepeatedRun
  BY <1>1 DEF RepeatInv
<1>3. n = ids /\ lock.by = n /\ \A h \in Hooks : hook[h].pc \notin HookHolds
  <2>1. lock.by = n /\ n # 0
    BY <1>1 DEF LockInv
  <2>2. QED
    BY <1>1, <1>2, <2>1, OthersAtRest DEF RunsOver
<1>4. /\ run[n].at > 0
      /\ run[n].pc \in {"ingest", "reread"} => stamp.at = run[n].at
      /\ run[n].pc \in {"truncate", "fill"} => run[n].data.at = run[n].at
      /\ run[n].stamped => run[n].pc = "unlink" /\ stamp.at = run[n].at
  BY <1>1, <1>2, <1>3 DEF StampTimes, RunHolds
<1>5. /\ run'[n].at = run[n].at /\ run'[n].past = run[n].past
      /\ \/ run'[n].pc \in RunHolds \union {"dead"} /\ lock' = lock
         \/ run'[n].pc = "done" /\ lock'.by = 0
      /\ run'[n].pc \in {"ingest", "reread"} => stamp'.at = run[n].at
      /\ run'[n].pc \in {"truncate", "fill"} => run'[n].data.at = run[n].at
      /\ run'[n].stamped => run'[n].pc \in {"unlink", "done", "dead"} /\ stamp'.at = run[n].at
  <2>. USE <1>4 DEF RunState, RunHolds
  <2>1. CASE FinishIngest(n)
    BY <2>1 DEF FinishIngest
  <2>2. CASE RereadStamp(n)
    BY <2>2 DEF RereadStamp
  <2>3. CASE RunnerTruncateStamp(n)
    BY <2>3 DEF RunnerTruncateStamp
  <2>4. CASE RunnerFillStamp(n)
    <3>1. run[n].data \in Stamp
      OBVIOUS
    <3>2. stamp'.at = run[n].data.at
      BY <2>4, <3>1 DEF RunnerFillStamp, Stamp
    <3>3. run'[n].pc = "unlink" /\ run'[n].at = run[n].at /\ run'[n].past = run[n].past
      BY <2>4 DEF RunnerFillStamp
    <3>4. QED
      BY <2>4, <3>2, <3>3 DEF RunnerFillStamp
  <2>5. CASE UnlinkLock(n)
    BY <2>5 DEF UnlinkLock, NoLock
  <2>6. CASE RunnerStampError(n)
    BY <2>6 DEF RunnerStampError
  <2>7. CASE KillRunner(n)
    BY <2>7 DEF KillRunner
  <2>8. QED
    BY <2>1, <2>2, <2>3, <2>4, <2>5, <2>6, <2>7 DEF RunStep
<1>6. RunsOver'
  BY <1>1, <1>2, <1>3, <1>5 DEF RunsOver
<1>7. StampTimes'
  <2>1. \A m \in Run : m # n => run[m].pc \notin RunHolds
    BY <1>1, OthersAtRest
  <2>2. \A h \in Hooks : hook'[h].pc \notin {"fill", "spawn"}
    BY <1>1, <1>3 DEF HookHolds
  <2>3. run'[n].pc # "none"
    BY <1>5 DEF RunHolds
  <2>4. ASSUME NEW m \in Run, m # n
        PROVE  /\ run'[m] = run[m] /\ m # ids'
               /\ run[m].pc \notin {"ingest", "reread", "truncate", "fill"}
    BY <1>1, <1>3, <2>1, <2>4 DEF RunHolds
  <2>5. QED
    BY <1>2, <1>4, <1>5, <2>2, <2>3, <2>4 DEF StampTimes
<1>8. PastsRight'
  <2>1. \A h \in Hooks : hook[h].pc \in {"lock", "steal", "create"} =>
            hook[h].past <= ids /\ hook[h].past # ids
    BY <1>1, <1>2, <1>3 DEF PastsRight, RunHolds
  <2>2. QED
    BY <1>1, <1>3, <2>1 DEF PastsRight, HookHolds
<1>9. NoRepeatedRun'
  <2>. SUFFICES ASSUME NEW m \in Run, m > 1, run'[m].past = m - 1, run'[m - 1].stamped
                PROVE  run'[m].at - run'[m - 1].at >= Ttl
    BY DEF NoRepeatedRun
  <2>1. m - 1 \in Run
    BY DEF Run
  <2>2. m - 1 # n
    <3>1. SUFFICES ASSUME m - 1 = n PROVE FALSE
      OBVIOUS
    <3>2. m > ids /\ run'[m] = run[m]
      BY <1>1, <1>3, <3>1
    <3>3. run[m].past = 0
      BY <1>2, <3>2 DEF LockInv, StampTimes
    <3>4. QED
      BY <3>2, <3>3
  <2>3. /\ run'[m].at = run[m].at /\ run'[m].past = run[m].past
        /\ run'[m - 1] = run[m - 1]
    BY <1>1, <1>5, <2>1, <2>2
  <2>4. QED
    BY <1>1, <1>2, <2>1, <2>3 DEF NoRepeatedRun
<1>10. QED
  BY <1>6, <1>7, <1>8, <1>9 DEF RepeatInv

LEMMA NextRepeatInv == TypeOK /\ LockInv /\ RepeatInv /\ [Next]_vars => RepeatInv'
<1>. SUFFICES ASSUME TypeOK, LockInv, RepeatInv, [Next]_vars, ~stolen' PROVE RepeatInv'
  BY DEF RepeatInv
<1>1. CASE Tick \/ MoveHead \/ UNCHANGED vars
  <2>1. /\ UNCHANGED <<stamp, lock, hook, ids, run, stolen>>
        /\ clock' = clock \/ clock' = clock + 1
    BY <1>1 DEF Tick, MoveHead, vars
  <2>2. RunsOver /\ StampTimes /\ PastsRight /\ NoRepeatedRun
    BY <2>1 DEF RepeatInv
  <2>3. RunsOver' /\ StampTimes' /\ NoRepeatedRun'
    BY <2>1, <2>2 DEF RunsOver, StampTimes, NoRepeatedRun
  <2>4. /\ After(clock, ids) => After(clock, ids)'
        /\ After(clock, ids - 1) => After(clock, ids - 1)'
    <3>1. /\ ids > 0 => run[ids].at \in Nat
          /\ ids - 1 > 0 => run[ids - 1].at \in Nat
          /\ clock \in Nat /\ ids \in Nat /\ Ttl \in Nat
      BY RepeatTypes
    <3>2. QED
      BY <2>1, <3>1 DEF After
  <2>5. \A h \in Hooks : After(hook[h].at, ids - 1) => After(hook[h].at, ids - 1)'
    BY <2>1 DEF After
  <2>6. PastsRight'
    BY <2>1, <2>2, <2>4, <2>5 DEF PastsRight
  <2>7. QED
    BY <2>3, <2>6 DEF RepeatInv
<1>2. ASSUME NEW h \in Hooks, Prompt(h) \/ HookStep(h) \/ KillHook(h)
      PROVE  RepeatInv'
  BY <1>2, EarlyHookRepeat, CreateLockRepeat, HookStampRepeat, SpawnRepeat DEF HookStep
<1>3. ASSUME NEW n \in Run, RunStep(n) \/ RunnerStampError(n) \/ KillRunner(n)
      PROVE  RepeatInv'
  BY <1>3, RunRepeat
<1>4. QED
  BY <1>1, <1>2, <1>3 DEF Next

\* However hooks and runners race and die, as long as no lock was stolen: a run of a
\* hook that read the stamp after another run had stamped it and given the lock back
\* starts no earlier than a TTL after that one.
THEOREM NoRunIsRepeated == Spec => []NoRepeatedRun
<1>1. TypeOK /\ LockInv /\ RepeatInv => NoRepeatedRun
  BY DEF RepeatInv, NoRepeatedRun
<1>2. QED
  BY <1>1, IngestTypeCorrect, InitLockInv, NextLockInv, InitRepeatInv, NextRepeatInv, PTL DEF Spec
=============================================================================
