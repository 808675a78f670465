------------------------------ MODULE ProofDebt ------------------------------
(***************************************************************************)
(* The proof-debt store of shared/scripts/proof_debt.py: a JSONL file with *)
(* one line per unverified claim, and the pure part of ProofDebtBudget,    *)
(* which every process applies to its own snapshot of that file.           *)
(*                                                                         *)
(* A line that does not parse is the value Torn.  Timestamps, namespaces,  *)
(* claim texts and payment methods are left out: no decision reads them.   *)
(***************************************************************************)
EXTENDS Naturals, Sequences, FiniteSets

CONSTANTS
    Threshold,  \* the unpaid debt at which a risk class is blocked
    Torn        \* a line of the store that is not valid JSON

RiskClass == {"low", "medium", "high", "critical"}

\* A line written for one promotion; id stands for entry_id and claim_id.
Entry == [id : Nat, risk : RiskClass, paid : BOOLEAN]

Line == Entry \union {Torn}

ASSUME ThresholdAssumption == Threshold \in [RiskClass -> Nat \ {0}]

ASSUME TornAssumption == Torn \notin Entry

-----------------------------------------------------------------------------

NewEntry(id, rc) == [id |-> id, risk |-> rc, paid |-> FALSE]

\* Mutant of Load: the paid field of a line is not read back.
LoadForgetsPaid(file) == [i \in DOMAIN file |-> [file[i] EXCEPT !.paid = FALSE]]

\* _load stops at the first line that raises and keeps what it has read: the
\* exception is swallowed, so the entries below a torn line do not exist.
Load(file) ==
    IF \A i \in DOMAIN file : file[i] # Torn
    THEN file
    ELSE LET first == CHOOSE i \in DOMAIN file :
                          file[i] = Torn /\ \A j \in 1 .. i - 1 : file[j] # Torn
         IN  SubSeq(file, 1, first - 1)

Unpaid(entries, rc) ==
    {i \in DOMAIN entries : entries[i] # Torn /\ ~entries[i].paid /\ entries[i].risk = rc}

UnpaidCount(entries, rc) == Cardinality(Unpaid(entries, rc))

\* Mutant of IsBlocked: the threshold itself is still allowed.
IsBlockedAbove(entries, rc) == UnpaidCount(entries, rc) > Threshold[rc]

IsBlocked(entries, rc) == UnpaidCount(entries, rc) >= Threshold[rc]

\* The positions pay may settle: it takes the first that matches.
Payable(entries, id) == {i \in DOMAIN entries : entries[i].id = id /\ ~entries[i].paid}

\* Mutant of MarkPaid: a settled entry leaves the store.
MarkPaidDrops(entries, id) == SelectSeq(entries, LAMBDA e : e.id # id)

\* Mutant of MarkPaid: the first entry is settled, whatever its id.
MarkPaidFirst(entries, id) == [entries EXCEPT ![1].paid = TRUE]

MarkPaid(entries, id) ==
    LET i == CHOOSE i \in Payable(entries, id) :
                 \A j \in Payable(entries, id) : i <= j
    IN  [entries EXCEPT ![i].paid = TRUE]

\* What the file holds once a rewriter flushes entries at offset 0 of a file
\* that others may have written to since it was truncated.  Lines differ in
\* length, so of what was there any proper suffix may stick out, its first
\* line possibly cut in the middle.
Overlays(entries, file) ==
    {entries} \union
    UNION {{entries \o SubSeq(file, k + 1, Len(file)),
            entries \o <<Torn>> \o SubSeq(file, k + 1, Len(file))} : k \in 1 .. Len(file)}

\* Ids with a line that a budget opened now would see.
Recorded(file) == {Load(file)[i].id : i \in DOMAIN Load(file)}
=============================================================================
