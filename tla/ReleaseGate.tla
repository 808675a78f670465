----------------------------- MODULE ReleaseGate -----------------------------
(***************************************************************************)
(* Release gates (shared/scripts/release-gate-v2.py) and payers (the pay   *)
(* command of shared/scripts/proof_debt.py) sharing one proof-debt store.  *)
(*                                                                         *)
(* Every invocation is a process of its own: it loads the store once,      *)
(* decides on that snapshot and writes later, with no lock.  The steps     *)
(* below are the points where another process can come between.            *)
(***************************************************************************)
EXTENDS ProofDebt

CONSTANTS
    Gates,       \* slots in which release gates run, one at a time per slot
    Payers,      \* invocations of "proof_debt.py pay"
    Classes,     \* the risk classes the gates are started with
    MaxRuns,     \* bound: gate runs and direct incurs, in total
    MaxDirect,   \* bound: invocations of "proof_debt.py incur"
    MaxCrashes,  \* bound: processes killed before they finish
    MaxSecond,   \* bound: the clock, in the seconds of a packet's file name
    Exclusive    \* TRUE when the callers run one invocation at a time

ASSUME GateAssumption ==
    /\ IsFiniteSet(Gates)
    /\ Classes \subseteq RiskClass
    /\ {MaxRuns, MaxDirect, MaxCrashes, MaxSecond} \subseteq Nat
    /\ Exclusive \in BOOLEAN

VARIABLES
    store,     \* the JSONL file
    runs,      \* how many ids were handed out: the next run's id is runs + 1
    clock,     \* the current second
    gate,      \* the running gate of each slot
    payer,     \* each invocation of pay
    packets,   \* every packet a gate wrote
    receipt,   \* the packet file of each second: the last packet written there
    incurred,  \* ids whose append returned
    settled,   \* ids whose pay returned True
    direct,    \* the direct incurs, by risk class
    crashes    \* processes killed so far

vars == <<store, runs, clock, gate, payer, packets, receipt, incurred, settled, direct, crashes>>

Outcome == {"ok", "failed", "timed_out"}

Disposition == {"promote", "reject", "quarantine"}

FailClosed == {"high", "critical"}

\* The packet written for a run: error is proof_debt_error, and at the second
\* its file name carries.
Packet == [run : Nat, risk : RiskClass, disposition : Disposition, error : BOOLEAN, at : Nat]

IdleGate == [pc |-> "idle", run |-> 0, risk |-> "low", disposition |-> "reject",
             error |-> FALSE, snapshot |-> <<>>]

GateState ==
    [pc : {"idle", "commands", "load", "check", "packet"}, run : Nat, risk : RiskClass,
     disposition : Disposition, error : BOOLEAN, snapshot : Seq(Entry)]

IdlePayer == [pc |-> "idle", id |-> 0, snapshot |-> <<>>]

PayerState ==
    [pc : {"idle", "loaded", "truncated", "done"}, id : Nat, snapshot : Seq(Entry)]

TypeOK ==
    /\ store \in Seq(Line)
    /\ runs \in Nat
    /\ clock \in 0 .. MaxSecond
    /\ gate \in [Gates -> GateState]
    /\ payer \in [Payers -> PayerState]
    /\ packets \subseteq Packet
    /\ receipt \in [0 .. MaxSecond -> Nat]
    /\ incurred \subseteq Nat
    /\ settled \subseteq Nat
    /\ direct \in [RiskClass -> Nat]
    /\ crashes \in Nat

-----------------------------------------------------------------------------

Init ==
    /\ store = <<>>
    /\ runs = 0
    /\ clock = 0
    /\ gate = [g \in Gates |-> IdleGate]
    /\ payer = [p \in Payers |-> IdlePayer]
    /\ packets = {}
    /\ receipt = [s \in 0 .. MaxSecond |-> 0]
    /\ incurred = {}
    /\ settled = {}
    /\ direct = [rc \in RiskClass |-> 0]
    /\ crashes = 0

\* With Exclusive callers a process starts only when no other is running.
MayStart ==
    Exclusive =>
        /\ \A g \in Gates : gate[g].pc = "idle"
        /\ \A p \in Payers : payer[p].pc \in {"idle", "done"}

Tick ==
    /\ clock < MaxSecond
    /\ clock' = clock + 1
    /\ UNCHANGED <<store, runs, gate, payer, packets, receipt, incurred, settled, direct, crashes>>

\* main, up to the commands.  A gate that needs a license and has none exits
\* here, as if it had not been started.
StartGate(g, rc) ==
    /\ gate[g].pc = "idle"
    /\ MayStart
    /\ runs < MaxRuns
    /\ runs' = runs + 1
    /\ gate' = [gate EXCEPT ![g] = [IdleGate EXCEPT !.pc = "commands", !.run = runs + 1,
                                                    !.risk = rc]]
    /\ UNCHANGED <<store, clock, payer, packets, receipt, incurred, settled, direct, crashes>>

\* Mutant of Adjudicate: the outcome of a command in the place of a disposition.
AdjudicateVerbatim(outcomes) ==
    IF outcomes = {"ok"} THEN "promote"
    ELSE IF "timed_out" \in outcomes THEN "timed_out"
    ELSE "reject"

\* A command whose time is up is recorded as timed out, exit code 124.
Adjudicate(outcomes) ==
    IF outcomes = {"ok"} THEN "promote"
    ELSE IF "timed_out" \in outcomes THEN "quarantine"
    ELSE "reject"

\* Only a run that is to be promoted goes through the proof-debt check.
RunCommands(g, outcomes) ==
    /\ gate[g].pc = "commands"
    /\ gate' = [gate EXCEPT
            ![g].disposition = Adjudicate(outcomes),
            ![g].pc = IF Adjudicate(outcomes) = "promote" THEN "load" ELSE "packet"]
    /\ UNCHANGED <<store, runs, clock, payer, packets, receipt, incurred, settled, direct, crashes>>

\* ProofDebtBudget(pd_store)
LoadBudget(g) ==
    /\ gate[g].pc = "load"
    /\ gate' = [gate EXCEPT ![g].snapshot = Load(store), ![g].pc = "check"]
    /\ UNCHANGED <<store, runs, clock, payer, packets, receipt, incurred, settled, direct, crashes>>

\* The end of the check, with its verdict and whether an exception decided it.
Decide(g, disposition, error) ==
    gate' = [gate EXCEPT ![g].disposition = disposition, ![g].error = error,
                         ![g].pc = "packet", ![g].snapshot = <<>>]

BlockedByDebt(g) ==
    /\ gate[g].pc = "check"
    /\ IsBlocked(gate[g].snapshot, gate[g].risk)
    /\ Decide(g, "quarantine", FALSE)
    /\ UNCHANGED <<store, runs, clock, payer, packets, receipt, incurred, settled, direct, crashes>>

\* budget.incur: the snapshot gets the entry too, but nothing reads it again.
IncurDebt(g) ==
    /\ gate[g].pc = "check"
    /\ ~IsBlocked(gate[g].snapshot, gate[g].risk)
    /\ store' = Append(store, NewEntry(gate[g].run, gate[g].risk))
    /\ incurred' = incurred \union {gate[g].run}
    /\ Decide(g, "promote", FALSE)
    /\ UNCHANGED <<runs, clock, payer, packets, receipt, settled, direct, crashes>>

\* Mutant of BudgetError: the handler forgets the classes that fail closed.
BudgetErrorFailsOpen(g) ==
    /\ \/ gate[g].pc = "load"
       \/ gate[g].pc = "check" /\ ~IsBlocked(gate[g].snapshot, gate[g].risk)
    /\ Decide(g, "promote", TRUE)
    /\ UNCHANGED <<store, runs, clock, payer, packets, receipt, incurred, settled, direct, crashes>>

\* The exception handler around the check: proof_debt.py may fail to load, the
\* store's path may be unreadable, the append may raise.  High and critical
\* runs are quarantined, the others keep "promote".
BudgetError(g) ==
    /\ \/ gate[g].pc = "load"
       \/ gate[g].pc = "check" /\ ~IsBlocked(gate[g].snapshot, gate[g].risk)
    /\ Decide(g, IF gate[g].risk \in FailClosed THEN "quarantine" ELSE "promote", TRUE)
    /\ UNCHANGED <<store, runs, clock, payer, packets, receipt, incurred, settled, direct, crashes>>

\* Mutant of WritePacket: the gate waits for a file name that is still free.
WritePacketFresh(g) ==
    /\ gate[g].pc = "packet"
    /\ receipt[clock] = 0
    /\ packets' = packets \union
            {[run |-> gate[g].run, risk |-> gate[g].risk, disposition |-> gate[g].disposition,
              error |-> gate[g].error, at |-> clock]}
    /\ receipt' = [receipt EXCEPT ![clock] = gate[g].run]
    /\ gate' = [gate EXCEPT ![g] = IdleGate]
    /\ UNCHANGED <<store, runs, clock, payer, incurred, settled, direct, crashes>>

\* The packet replaces whatever file was written in the same second, after the
\* optional calls to claim-ledger and to the memory server, which may fail and
\* decide nothing.  Then the process exits, with 0 exactly for promote.
WritePacket(g) ==
    /\ gate[g].pc = "packet"
    /\ packets' = packets \union
            {[run |-> gate[g].run, risk |-> gate[g].risk, disposition |-> gate[g].disposition,
              error |-> gate[g].error, at |-> clock]}
    /\ receipt' = [receipt EXCEPT ![clock] = gate[g].run]
    /\ gate' = [gate EXCEPT ![g] = IdleGate]
    /\ UNCHANGED <<store, runs, clock, payer, incurred, settled, direct, crashes>>

KillGate(g) ==
    /\ gate[g].pc # "idle"
    /\ crashes < MaxCrashes
    /\ crashes' = crashes + 1
    /\ gate' = [gate EXCEPT ![g] = IdleGate]
    /\ UNCHANGED <<store, runs, clock, payer, packets, receipt, incurred, settled, direct>>

\* The incur command loads the store too, but asks nothing of it: to the
\* other processes it is one append.
DirectIncur(rc) ==
    /\ MayStart
    /\ direct[rc] < MaxDirect
    /\ runs < MaxRuns
    /\ runs' = runs + 1
    /\ direct' = [direct EXCEPT ![rc] = @ + 1]
    /\ store' = Append(store, NewEntry(runs + 1, rc))
    /\ incurred' = incurred \union {runs + 1}
    /\ UNCHANGED <<clock, gate, payer, packets, receipt, settled, crashes>>

-----------------------------------------------------------------------------

\* The pay command loads the store and looks for an unpaid entry with this id.
\* Without one it prints "paid": false and exits.
PayLoad(p, id) ==
    /\ payer[p].pc = "idle"
    /\ MayStart
    /\ payer' = [payer EXCEPT ![p] =
            [pc |-> IF Payable(Load(store), id) = {} THEN "done" ELSE "loaded",
             id |-> id,
             snapshot |-> Load(store)]]
    /\ UNCHANGED <<store, runs, clock, gate, packets, receipt, incurred, settled, direct, crashes>>

\* _rewrite_store opens the file with "w", which empties it.
PayTruncate(p) ==
    /\ payer[p].pc = "loaded"
    /\ store' = <<>>
    /\ payer' = [payer EXCEPT ![p].pc = "truncated",
                              ![p].snapshot = MarkPaid(payer[p].snapshot, payer[p].id)]
    /\ UNCHANGED <<runs, clock, gate, packets, receipt, incurred, settled, direct, crashes>>

\* The buffered lines reach the file when it is closed.
PayWrite(p) ==
    /\ payer[p].pc = "truncated"
    /\ store' \in Overlays(payer[p].snapshot, store)
    /\ settled' = settled \union {payer[p].id}
    /\ payer' = [payer EXCEPT ![p].pc = "done", ![p].snapshot = <<>>]
    /\ UNCHANGED <<runs, clock, gate, packets, receipt, incurred, direct, crashes>>

KillPayer(p) ==
    /\ payer[p].pc \in {"loaded", "truncated"}
    /\ crashes < MaxCrashes
    /\ crashes' = crashes + 1
    /\ payer' = [payer EXCEPT ![p].pc = "done", ![p].snapshot = <<>>]
    /\ UNCHANGED <<store, runs, clock, gate, packets, receipt, incurred, settled, direct>>

-----------------------------------------------------------------------------

GateProgress(g) ==
    \/ \E outcomes \in (SUBSET Outcome) \ {{}} : RunCommands(g, outcomes)
    \/ LoadBudget(g)
    \/ BlockedByDebt(g)
    \/ IncurDebt(g)
    \/ BudgetError(g)
    \/ WritePacket(g)

PayProgress(p) ==
    \/ PayTruncate(p)
    \/ PayWrite(p)

Next ==
    \/ Tick
    \/ \E g \in Gates : \/ \E rc \in Classes : StartGate(g, rc)
                        \/ GateProgress(g)
                        \/ KillGate(g)
    \/ \E rc \in Classes : DirectIncur(rc)
    \/ \E p \in Payers : \/ \E id \in 1 .. runs : PayLoad(p, id)
                         \/ PayProgress(p)
                         \/ KillPayer(p)

Spec == Init /\ [][Next]_vars

\* A process that was started and is not killed keeps running: commands have a
\* timeout, and the rest are file operations.  Nobody is obliged to start one.
Fairness ==
    /\ \A g \in Gates : WF_vars(GateProgress(g))
    /\ \A p \in Payers : WF_vars(PayProgress(p))

FairSpec == Spec /\ Fairness

-----------------------------------------------------------------------------

Truncated == {p \in Payers : payer[p].pc = "truncated"}

\* The claims on the books: while a payer rewrites the store, the lines it
\* holds in memory.
Books ==
    IF Truncated = {} THEN store ELSE payer[CHOOSE p \in Truncated : TRUE].snapshot

\* What is left of the budget when gates race, until somebody pays: every slot but
\* one can push a class one entry above its threshold, because its snapshot is older
\* than the appends of the others, and no number of later runs or kills adds more.
OvershootBounded ==
    (\A p \in Payers : payer[p].pc = "idle") =>
        \A rc \in RiskClass :
            UnpaidCount(store, rc) < Threshold[rc] + Cardinality(Gates) + direct[rc]

\* Verdict and debt agree.  A promoted run has its debt on record, except a low
\* or medium one whose check raised; and a run that left debt was promoted, so
\* nothing is owed for a claim that was turned down.
PacketsMatchDebt ==
    \A p \in packets :
        /\ p.disposition = "promote" =>
               \/ p.run \in incurred
               \/ p.error /\ p.risk \notin FailClosed
        /\ p.run \in incurred => p.disposition = "promote"

\* Whatever the races and kills do to the file, a line that parses is one that
\* some incur wrote, and it is marked paid only if a pay with its id reported
\* success: debt can get lost, but never gets settled by accident.
StoreIsAccountable ==
    \A i \in DOMAIN store :
        store[i] # Torn =>
            /\ store[i].id \in incurred
            /\ store[i].paid => store[i].id \in settled

\* test_proof_debt.py: "Entries should survive across budget instances."  An
\* acknowledged entry is there for the next process to load, unless a payer is
\* just rewriting the store.
EntriesSurvive == Truncated = {} => incurred \subseteq Recorded(store)

\* A payment that reported success is not undone by a later rewrite.
PaidStaysPaid ==
    \A i \in DOMAIN store :
        store[i] # Torn /\ store[i].id \in settled => store[i].paid

\* Every gate and every pay that is not killed comes to its end.
RunsEnd ==
    /\ \A g \in Gates : gate[g].pc # "idle" ~> gate[g].pc = "idle"
    /\ \A p \in Payers : payer[p].pc = "loaded" ~> payer[p].pc = "done"

Budget == INSTANCE DebtBudget WITH
    Class <- RiskClass,
    Limit <- Threshold,
    owed <- [rc \in RiskClass |-> UnpaidCount(Books, rc)]

\* Callers that run one process at a time keep the budget's promise: a gate adds to a
\* class only while the class, direct incurs included, owes less than its threshold.
BudgetKept == Budget!Spec
=============================================================================
