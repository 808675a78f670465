-------------------------- MODULE ReleaseGateProofs --------------------------
(***************************************************************************)
(* Proofs about release gates and payers for any number of them, any       *)
(* thresholds and any bounds.                                              *)
(***************************************************************************)
EXTENDS ReleaseGate, TLAPS, SequenceTheorems, FiniteSetTheorems

-----------------------------------------------------------------------------
(* The store's operators. *)

\* A nonempty set of naturals has a smallest element.
LEMMA MinimumExists ==
    ASSUME NEW T \in SUBSET Nat, T # {}
    PROVE  \E x \in T : \A y \in T : x <= y
<1>1. IsWellFoundedOn(OpToRel(<, Nat), Nat)
  BY NatLessThanWellFounded
<1>2. PICK x \in T : \A y \in T : <<y, x>> \notin OpToRel(<, Nat)
  BY <1>1, WFMin, Zenon
<1>2a. \A y \in T : <<y, x>> \in Nat \X Nat
  OBVIOUS
<1>2b. \A y \in T : <<y, x>>[1] = y /\ <<y, x>>[2] = x
  OBVIOUS
<1>2c. \A y \in T : ~(y < x)
  BY <1>2, <1>2a, <1>2b, Zenon DEF OpToRel
<1>3. QED
  BY <1>2c

\* What _load keeps: a prefix of the file, free of torn lines.
LEMMA LoadKeeps ==
    ASSUME NEW file \in Seq(Line)
    PROVE  /\ Load(file) \in Seq(Entry)
           /\ Len(Load(file)) <= Len(file)
           /\ \A i \in 1 .. Len(Load(file)) : Load(file)[i] = file[i]
<1>1. CASE \A i \in DOMAIN file : file[i] # Torn
  <2>1. Load(file) = file
    BY <1>1 DEF Load
  <2>2. \A i \in 1 .. Len(file) : file[i] \in Entry
    BY <1>1 DEF Line
  <2>3. file \in Seq(Entry)
    BY <2>2
  <2>4. QED
    BY <2>1, <2>3
<1>2. CASE ~ \A i \in DOMAIN file : file[i] # Torn
  <2>. DEFINE T == {i \in DOMAIN file : file[i] = Torn}
              IsFirst(i) == file[i] = Torn /\ \A j \in 1 .. i - 1 : file[j] # Torn
              first == CHOOSE i \in DOMAIN file : IsFirst(i)
  <2>1. T \in SUBSET Nat /\ T # {}
    BY <1>2
  <2>2. PICK x \in T : \A y \in T : x <= y
    BY <2>1, MinimumExists, Zenon
  <2>3. x \in DOMAIN file /\ IsFirst(x)
    BY <2>2
  <2>4. first \in DOMAIN file /\ IsFirst(first)
    BY <2>3, Zenon
  <2>5. Load(file) = SubSeq(file, 1, first - 1)
    BY <1>2, Zenon DEF Load
  <2>. HIDE DEF first
  <2>6. \A j \in 1 .. first - 1 : file[j] \in Entry
    BY <2>4 DEF Line
  <2>7. QED
    BY <2>4, <2>5, <2>6, SubSeqProperties
<1>3. QED
  BY <1>1, <1>2

\* Settling an entry changes no id and no length, and pays at most the entry
\* it was asked for.
LEMMA MarkPaidKeeps ==
    ASSUME NEW entries \in Seq(Entry), NEW id, Payable(entries, id) # {}
    PROVE  /\ MarkPaid(entries, id) \in Seq(Entry)
           /\ Len(MarkPaid(entries, id)) = Len(entries)
           /\ \A i \in 1 .. Len(entries) :
                 /\ MarkPaid(entries, id)[i].id = entries[i].id
                 /\ MarkPaid(entries, id)[i].paid =>
                        entries[i].paid \/ entries[i].id = id
<1>. DEFINE IsFirst(i) == \A j \in Payable(entries, id) : i <= j
            k == CHOOSE i \in Payable(entries, id) : IsFirst(i)
<1>1. Payable(entries, id) \in SUBSET Nat
  BY DEF Payable
<1>2. PICK x \in Payable(entries, id) : IsFirst(x)
  BY <1>1, MinimumExists, Zenon
<1>3. k \in Payable(entries, id)
  BY <1>2, Zenon
<1>4. MarkPaid(entries, id) = [entries EXCEPT ![k].paid = TRUE]
  BY DEF MarkPaid
<1>. HIDE DEF k
<1>5. k \in 1 .. Len(entries) /\ entries[k].id = id /\ entries[k] \in Entry
  BY <1>3 DEF Payable
<1>6. [entries[k] EXCEPT !.paid = TRUE] \in Entry
  BY <1>5 DEF Entry
<1>7. MarkPaid(entries, id) = [entries EXCEPT ![k] = [entries[k] EXCEPT !.paid = TRUE]]
  BY <1>4
<1>8. [entries[k] EXCEPT !.paid = TRUE].id = entries[k].id
  BY <1>5 DEF Entry
<1>9. QED
  BY <1>5, <1>6, <1>7, <1>8, ExceptSeq

\* The result is a list of entries even when there is nothing to settle.
LEMMA MarkPaidType ==
    ASSUME NEW entries \in Seq(Entry), NEW id
    PROVE  MarkPaid(entries, id) \in Seq(Entry)
<1>. DEFINE k == CHOOSE i \in Payable(entries, id) : \A j \in Payable(entries, id) : i <= j
<1>1. MarkPaid(entries, id) = [entries EXCEPT ![k].paid = TRUE]
  BY DEF MarkPaid
<1>. HIDE DEF k
<1>2. CASE k \in 1 .. Len(entries)
  <2>1. [entries[k] EXCEPT !.paid = TRUE] \in Entry
    <3>1. entries[k] \in Entry
      BY <1>2
    <3>2. QED
      BY <3>1 DEF Entry
  <2>2. MarkPaid(entries, id) = [entries EXCEPT ![k] = [entries[k] EXCEPT !.paid = TRUE]]
    BY <1>1
  <2>3. QED
    BY <1>2, <2>1, <2>2, ExceptSeq
<1>3. CASE k \notin 1 .. Len(entries)
  <2>1. entries \in [1 .. Len(entries) -> Entry]
    OBVIOUS
  <2>2. [entries EXCEPT ![k].paid = TRUE] = entries
    BY <1>3, <2>1
  <2>3. QED
    BY <1>1, <2>2
<1>4. QED
  BY <1>2, <1>3

\* A rewrite over what others wrote leaves lines of the rewriter, lines that
\* were there, and torn ones.
LEMMA OverlayKeeps ==
    ASSUME NEW entries \in Seq(Entry), NEW file \in Seq(Line),
           NEW new \in Overlays(entries, file)
    PROVE  /\ new \in Seq(Line)
           /\ \A i \in 1 .. Len(new) :
                 \/ new[i] = Torn
                 \/ \E j \in 1 .. Len(entries) : new[i] = entries[j]
                 \/ \E j \in 1 .. Len(file) : new[i] = file[j]
<1>. DEFINE Rest(k) == SubSeq(file, k + 1, Len(file))
            From(x) == \/ x = Torn
                       \/ \E j \in 1 .. Len(entries) : x = entries[j]
                       \/ \E j \in 1 .. Len(file) : x = file[j]
            Kept(s) == s \in Seq(Line) /\ \A i \in 1 .. Len(s) : From(s[i])
<1>1. entries \in Seq(Line) /\ <<Torn>> \in Seq(Line)
  BY DEF Line
<1>2. ASSUME NEW k \in 1 .. Len(file)
      PROVE  Kept(Rest(k))
  BY SubSeqProperties
<1>3. Kept(entries)
  BY <1>1
<1>4. Kept(<<Torn>>)
  BY <1>1
<1>. HIDE DEF From, Rest
<1>5. ASSUME NEW s, NEW t, Kept(s), Kept(t)
      PROVE  Kept(s \o t)
  <2>1. /\ s \o t \in Seq(Line)
        /\ Len(s \o t) = Len(s) + Len(t)
        /\ \A i \in 1 .. Len(s) + Len(t) :
              (s \o t)[i] = IF i <= Len(s) THEN s[i] ELSE t[i - Len(s)]
    BY <1>5, ConcatProperties
  <2>2. ASSUME NEW i \in 1 .. Len(s) + Len(t)
        PROVE  From((s \o t)[i])
    <3>1. CASE i <= Len(s)
      BY <1>5, <2>1, <3>1
    <3>2. CASE i > Len(s)
      <4>1. i - Len(s) \in 1 .. Len(t)
        BY <1>5, <3>2
      <4>2. QED
        BY <1>5, <2>1, <3>2, <4>1
    <3>3. QED
      BY <1>5, <3>1, <3>2
  <2>3. QED
    BY <2>1, <2>2
<1>. HIDE DEF Kept
<1>6. ASSUME NEW k \in 1 .. Len(file)
      PROVE  Kept(entries \o Rest(k)) /\ Kept(entries \o <<Torn>> \o Rest(k))
  <2>1. Kept(entries \o <<Torn>>)
    BY <1>3, <1>4, <1>5
  <2>2. QED
    BY <1>2, <1>3, <1>5, <2>1
<1>7. Kept(new)
  BY <1>3, <1>6, Zenon DEF Overlays, Rest
<1>8. QED
  BY <1>7 DEF Kept, From

-----------------------------------------------------------------------------
(* Types. *)

LEMMA InitTypeOK == Init => TypeOK
BY GateAssumption DEF Init, TypeOK, IdleGate, IdlePayer, GateState, PayerState, RiskClass,
   Disposition

LEMMA GateStepTypeOK ==
    ASSUME TypeOK, NEW g \in Gates,
           (\E rc \in Classes : StartGate(g, rc)) \/ GateProgress(g) \/ KillGate(g)
    PROVE  TypeOK'
<1>. USE DEF TypeOK
<1>1. gate[g] \in GateState /\ IdleGate \in GateState
  BY DEF GateState, IdleGate, RiskClass, Disposition
<1>2. CASE \E rc \in Classes : StartGate(g, rc)
  <2>1. PICK rc \in Classes : StartGate(g, rc)
    BY <1>2
  <2>2. [IdleGate EXCEPT !.pc = "commands", !.run = runs + 1, !.risk = rc] \in GateState
    <3>1. rc \in RiskClass /\ runs + 1 \in Nat
      BY GateAssumption
    <3>2. QED
      BY <1>1, <3>1 DEF GateState
  <2>3. gate' \in [Gates -> GateState]
    BY <2>1, <2>2 DEF StartGate
  <2>4. /\ runs' = runs + 1
        /\ UNCHANGED <<store, clock, payer, packets, receipt, incurred, settled, direct, crashes>>
    BY <2>1 DEF StartGate
  <2>5. QED
    BY <2>3, <2>4
<1>3. ASSUME NEW outcomes, RunCommands(g, outcomes)
      PROVE  TypeOK'
  <2>1. Adjudicate(outcomes) \in Disposition
    BY DEF Adjudicate, Disposition
  <2>2. [gate[g] EXCEPT !.disposition = Adjudicate(outcomes),
                        !.pc = IF Adjudicate(outcomes) = "promote" THEN "load" ELSE "packet"]
            \in GateState
    BY <1>1, <2>1 DEF GateState
  <2>3. gate' = [gate EXCEPT ![g] =
            [gate[g] EXCEPT !.disposition = Adjudicate(outcomes),
                            !.pc = IF Adjudicate(outcomes) = "promote" THEN "load" ELSE "packet"]]
    BY <1>3 DEF RunCommands
  <2>4. QED
    BY <1>3, <2>2, <2>3 DEF RunCommands
<1>4. CASE LoadBudget(g)
  <2>1. Load(store) \in Seq(Entry)
    BY LoadKeeps
  <2>2. [gate[g] EXCEPT !.snapshot = Load(store), !.pc = "check"] \in GateState
    BY <1>1, <2>1 DEF GateState
  <2>3. gate' = [gate EXCEPT ![g] = [gate[g] EXCEPT !.snapshot = Load(store), !.pc = "check"]]
    BY <1>4 DEF LoadBudget
  <2>4. QED
    BY <1>4, <2>2, <2>3 DEF LoadBudget
<1>5. ASSUME NEW disposition \in Disposition, NEW error \in BOOLEAN, Decide(g, disposition, error)
      PROVE  gate' \in [Gates -> GateState]
  <2>1. [gate[g] EXCEPT !.disposition = disposition, !.error = error, !.pc = "packet",
                        !.snapshot = <<>>] \in GateState
    <3>1. <<>> \in Seq(Entry)
      OBVIOUS
    <3>2. QED
      BY <1>1, <1>5, <3>1 DEF GateState
  <2>2. gate' = [gate EXCEPT ![g] =
            [gate[g] EXCEPT !.disposition = disposition, !.error = error, !.pc = "packet",
                            !.snapshot = <<>>]]
    BY <1>5 DEF Decide
  <2>3. QED
    BY <2>1, <2>2
<1>6. CASE BlockedByDebt(g)
  BY <1>5, <1>6 DEF BlockedByDebt, Disposition
<1>7. CASE IncurDebt(g)
  <2>1. NewEntry(gate[g].run, gate[g].risk) \in Line
    BY <1>1 DEF NewEntry, Line, Entry, GateState
  <2>2. gate[g].run \in Nat
    BY <1>1 DEF GateState
  <2>3. Append(store, NewEntry(gate[g].run, gate[g].risk)) \in Seq(Line)
    BY <2>1
  <2>4. QED
    BY <1>5, <1>7, <2>2, <2>3 DEF IncurDebt, Disposition
<1>8. CASE BudgetError(g)
  BY <1>5, <1>8 DEF BudgetError, Disposition
<1>9. CASE WritePacket(g)
  <2>1. [run |-> gate[g].run, risk |-> gate[g].risk, disposition |-> gate[g].disposition,
         error |-> gate[g].error, at |-> clock] \in Packet
    BY <1>1, GateAssumption DEF Packet, GateState
  <2>2. gate[g].run \in Nat
    BY <1>1 DEF GateState
  <2>3. QED
    BY <1>1, <1>9, <2>1, <2>2 DEF WritePacket
<1>10. CASE KillGate(g)
  BY <1>1, <1>10 DEF KillGate
<1>11. QED
  BY <1>2, <1>3, <1>4, <1>6, <1>7, <1>8, <1>9, <1>10 DEF GateProgress

LEMMA PayerStepTypeOK ==
    ASSUME TypeOK, NEW p \in Payers,
           \/ \E id \in 1 .. runs : PayLoad(p, id)
           \/ PayProgress(p)
           \/ KillPayer(p)
    PROVE  TypeOK'
<1>. USE DEF TypeOK
<1>1. payer[p] \in PayerState
  OBVIOUS
<1>2. <<>> \in Seq(Entry) /\ <<>> \in Seq(Line)
  OBVIOUS
<1>3. CASE \E id \in 1 .. runs : PayLoad(p, id)
  <2>1. PICK id \in 1 .. runs : PayLoad(p, id)
    BY <1>3
  <2>2. Load(store) \in Seq(Entry)
    BY LoadKeeps
  <2>3. [pc |-> IF Payable(Load(store), id) = {} THEN "done" ELSE "loaded",
         id |-> id, snapshot |-> Load(store)] \in PayerState
    BY <2>2 DEF PayerState
  <2>4. QED
    BY <2>1, <2>3 DEF PayLoad
<1>4. CASE PayTruncate(p)
  <2>1. [payer[p] EXCEPT !.pc = "truncated",
                         !.snapshot = MarkPaid(payer[p].snapshot, payer[p].id)] \in PayerState
    <3>1. payer[p].snapshot \in Seq(Entry)
      BY <1>1 DEF PayerState
    <3>2. MarkPaid(payer[p].snapshot, payer[p].id) \in Seq(Entry)
      BY <3>1, MarkPaidType
    <3>3. QED
      BY <1>1, <3>2 DEF PayerState
  <2>2. payer' = [payer EXCEPT ![p] =
            [payer[p] EXCEPT !.pc = "truncated",
                             !.snapshot = MarkPaid(payer[p].snapshot, payer[p].id)]]
    BY <1>4 DEF PayTruncate
  <2>3. QED
    BY <1>2, <1>4, <2>1, <2>2 DEF PayTruncate
<1>5. [payer[p] EXCEPT !.pc = "done", !.snapshot = <<>>] \in PayerState
  BY <1>1, <1>2 DEF PayerState
<1>6. CASE PayWrite(p)
  <2>1. payer[p].snapshot \in Seq(Entry) /\ payer[p].id \in Nat
    BY <1>1 DEF PayerState
  <2>2. store' \in Seq(Line)
    BY <1>6, <2>1, OverlayKeeps DEF PayWrite
  <2>3. payer' = [payer EXCEPT ![p] = [payer[p] EXCEPT !.pc = "done", !.snapshot = <<>>]]
    BY <1>6 DEF PayWrite
  <2>4. QED
    BY <1>5, <1>6, <2>1, <2>2, <2>3 DEF PayWrite
<1>7. CASE KillPayer(p)
  <2>1. payer' = [payer EXCEPT ![p] = [payer[p] EXCEPT !.pc = "done", !.snapshot = <<>>]]
    BY <1>7 DEF KillPayer
  <2>2. QED
    BY <1>5, <1>7, <2>1 DEF KillPayer
<1>8. QED
  BY <1>3, <1>4, <1>6, <1>7 DEF PayProgress

LEMMA DirectIncurTypeOK ==
    ASSUME TypeOK, NEW rc \in Classes, DirectIncur(rc)
    PROVE  TypeOK'
<1>. USE DEF TypeOK
<1>1. rc \in RiskClass
  BY GateAssumption
<1>2. NewEntry(runs + 1, rc) \in Line
  BY <1>1 DEF NewEntry, Line, Entry
<1>3. Append(store, NewEntry(runs + 1, rc)) \in Seq(Line)
  BY <1>2
<1>4. direct' \in [RiskClass -> Nat]
  BY <1>1 DEF DirectIncur
<1>5. QED
  BY <1>3, <1>4 DEF DirectIncur

LEMMA NextTypeOK == TypeOK /\ [Next]_vars => TypeOK'
<1>. SUFFICES ASSUME TypeOK, [Next]_vars
              PROVE  TypeOK'
  OBVIOUS
<1>1. CASE UNCHANGED vars
  BY <1>1 DEF TypeOK, vars
<1>2. CASE Tick
  BY <1>2, GateAssumption DEF TypeOK, Tick
<1>3. CASE \E g \in Gates : \/ \E rc \in Classes : StartGate(g, rc)
                           \/ GateProgress(g)
                           \/ KillGate(g)
  BY <1>3, GateStepTypeOK
<1>4. CASE \E rc \in Classes : DirectIncur(rc)
  BY <1>4, DirectIncurTypeOK
<1>5. CASE \E p \in Payers : \/ \E id \in 1 .. runs : PayLoad(p, id)
                            \/ PayProgress(p)
                            \/ KillPayer(p)
  BY <1>5, PayerStepTypeOK
<1>6. QED
  BY <1>1, <1>2, <1>3, <1>4, <1>5 DEF Next

\* Every variable keeps its type, whatever gates, payers and kills do to the
\* store: in particular a snapshot never holds a torn line.
THEOREM TypeCorrect == Spec => []TypeOK
BY InitTypeOK, NextTypeOK, PTL DEF Spec

-----------------------------------------------------------------------------
(* Every line of the store is accounted for. *)

\* The lines a payer holds are accounted for as those of the store are, except
\* that while it rewrites the store it has already marked its own entry.
SnapshotsAccountable ==
    \A p \in Payers :
        /\ \A i \in 1 .. Len(payer[p].snapshot) :
              /\ payer[p].snapshot[i].id \in incurred
              /\ payer[p].snapshot[i].paid =>
                     \/ payer[p].snapshot[i].id \in settled
                     \/ payer[p].pc = "truncated" /\ payer[p].snapshot[i].id = payer[p].id
        /\ payer[p].pc = "loaded" => Payable(payer[p].snapshot, payer[p].id) # {}

AccountInv == StoreIsAccountable /\ SnapshotsAccountable

LEMMA InitAccountInv == Init => AccountInv
BY DEF Init, AccountInv, StoreIsAccountable, SnapshotsAccountable, IdlePayer

\* Steps that add an unpaid line for an id they count as incurred.
LEMMA AppendAccountInv ==
    ASSUME TypeOK, AccountInv, NEW id \in Nat, NEW rc \in RiskClass,
           store' = Append(store, NewEntry(id, rc)),
           incurred' = incurred \union {id},
           UNCHANGED <<settled, payer>>
    PROVE  AccountInv'
<1>1. NewEntry(id, rc) \in Line
  BY DEF NewEntry, Line, Entry
<1>2. /\ DOMAIN store = 1 .. Len(store)
      /\ DOMAIN store' = 1 .. Len(store) + 1
      /\ \A i \in 1 .. Len(store) : store'[i] = store[i]
      /\ store'[Len(store) + 1] = NewEntry(id, rc)
  BY <1>1 DEF TypeOK
<1>3. StoreIsAccountable'
  <2>1. ASSUME NEW i \in 1 .. Len(store)
        PROVE  store'[i] # Torn =>
                  /\ store'[i].id \in incurred'
                  /\ store'[i].paid => store'[i].id \in settled'
    BY <1>2 DEF AccountInv, StoreIsAccountable
  <2>2. /\ NewEntry(id, rc).id \in incurred'
        /\ ~NewEntry(id, rc).paid
    BY DEF NewEntry
  <2>3. Len(store) \in Nat
    BY DEF TypeOK
  <2>4. QED
    BY <1>2, <2>1, <2>2, <2>3 DEF StoreIsAccountable
<1>4. SnapshotsAccountable'
  BY DEF AccountInv, SnapshotsAccountable
<1>5. QED
  BY <1>3, <1>4 DEF AccountInv

\* Steps that leave the store and the payers alone.
LEMMA QuietAccountInv ==
    ASSUME AccountInv, UNCHANGED <<store, payer, incurred, settled>>
    PROVE  AccountInv'
BY DEF AccountInv, StoreIsAccountable, SnapshotsAccountable

LEMMA PayerAccountInv ==
    ASSUME TypeOK, AccountInv, NEW p \in Payers,
           \/ \E id \in 1 .. runs : PayLoad(p, id)
           \/ PayProgress(p)
           \/ KillPayer(p)
    PROVE  AccountInv'
<1>1. payer \in [Payers -> PayerState] /\ payer[p] \in PayerState
  BY DEF TypeOK
<1>2. payer[p].snapshot \in Seq(Entry)
  BY <1>1 DEF PayerState
<1>3. CASE \E id \in 1 .. runs : PayLoad(p, id)
  <2>1. PICK id \in 1 .. runs : PayLoad(p, id)
    BY <1>3
  <2>2. /\ Load(store) \in Seq(Entry)
        /\ Len(Load(store)) <= Len(store)
        /\ \A i \in 1 .. Len(Load(store)) : Load(store)[i] = store[i]
    BY LoadKeeps DEF TypeOK
  <2>3. \A i \in 1 .. Len(Load(store)) :
            /\ Load(store)[i].id \in incurred
            /\ Load(store)[i].paid => Load(store)[i].id \in settled
    <3>1. TAKE i \in 1 .. Len(Load(store))
    <3>2. Load(store)[i] \in Entry /\ i \in DOMAIN store
      BY <2>2 DEF TypeOK
    <3>3. store[i] # Torn
      BY <2>2, <3>2, TornAssumption
    <3>4. QED
      BY <2>2, <3>2, <3>3 DEF AccountInv, StoreIsAccountable
  <2>4. /\ payer'[p].snapshot = Load(store)
        /\ payer'[p].pc = "loaded" => Payable(payer'[p].snapshot, payer'[p].id) # {}
        /\ \A q \in Payers \ {p} : payer'[q] = payer[q]
        /\ UNCHANGED <<store, incurred, settled>>
    BY <1>1, <2>1 DEF PayLoad
  <2>5. StoreIsAccountable'
    BY <2>4 DEF AccountInv, StoreIsAccountable
  <2>6. ASSUME NEW q \in Payers
        PROVE  /\ \A i \in 1 .. Len(payer'[q].snapshot) :
                     /\ payer'[q].snapshot[i].id \in incurred'
                     /\ payer'[q].snapshot[i].paid =>
                            \/ payer'[q].snapshot[i].id \in settled'
                            \/ payer'[q].pc = "truncated" /\ payer'[q].snapshot[i].id = payer'[q].id
               /\ payer'[q].pc = "loaded" => Payable(payer'[q].snapshot, payer'[q].id) # {}
    <3>1. CASE q = p
      BY <2>3, <2>4, <3>1
    <3>2. CASE q # p
      BY <2>4, <3>2 DEF AccountInv, SnapshotsAccountable
    <3>3. QED
      BY <3>1, <3>2
  <2>7. QED
    BY <2>5, <2>6 DEF AccountInv, SnapshotsAccountable
<1>4. CASE PayTruncate(p)
  <2>. DEFINE marked == MarkPaid(payer[p].snapshot, payer[p].id)
  <2>1. Payable(payer[p].snapshot, payer[p].id) # {}
    BY <1>4 DEF PayTruncate, AccountInv, SnapshotsAccountable
  <2>2. /\ Len(marked) = Len(payer[p].snapshot)
        /\ \A i \in 1 .. Len(payer[p].snapshot) :
              /\ marked[i].id = payer[p].snapshot[i].id
              /\ marked[i].paid =>
                    payer[p].snapshot[i].paid \/ payer[p].snapshot[i].id = payer[p].id
    BY <1>2, <2>1, MarkPaidKeeps
  <2>3. /\ payer'[p].snapshot = marked
        /\ payer'[p].pc = "truncated"
        /\ payer'[p].id = payer[p].id
        /\ payer[p].pc = "loaded"
        /\ \A q \in Payers \ {p} : payer'[q] = payer[q]
        /\ store' = <<>>
        /\ UNCHANGED <<incurred, settled>>
    BY <1>1, <1>4 DEF PayTruncate, PayerState
  <2>4. StoreIsAccountable'
    BY <2>3 DEF StoreIsAccountable
  <2>. HIDE DEF marked
  <2>5. \A i \in 1 .. Len(marked) :
            /\ marked[i].id \in incurred
            /\ marked[i].paid => marked[i].id \in settled \/ marked[i].id = payer[p].id
    BY <2>2, <2>3 DEF AccountInv, SnapshotsAccountable
  <2>6. QED
    BY <2>3, <2>4, <2>5 DEF AccountInv, SnapshotsAccountable
<1>5. ASSUME payer' = [payer EXCEPT ![p].pc = "done", ![p].snapshot = <<>>],
             UNCHANGED incurred, settled \subseteq settled'
      PROVE  SnapshotsAccountable'
  <2>1. /\ payer'[p].snapshot = <<>>
        /\ payer'[p].pc = "done"
        /\ \A q \in Payers \ {p} : payer'[q] = payer[q]
    BY <1>1, <1>5 DEF PayerState
  <2>2. ASSUME NEW q \in Payers, NEW i \in 1 .. Len(payer'[q].snapshot)
        PROVE  /\ payer'[q].snapshot[i].id \in incurred'
               /\ payer'[q].snapshot[i].paid =>
                      \/ payer'[q].snapshot[i].id \in settled'
                      \/ payer'[q].pc = "truncated" /\ payer'[q].snapshot[i].id = payer'[q].id
    <3>1. q # p
      BY <2>1, <2>2
    <3>2. payer'[q] = payer[q]
      BY <2>1, <3>1
    <3>3. QED
      BY <1>5, <2>2, <3>2 DEF AccountInv, SnapshotsAccountable
  <2>3. ASSUME NEW q \in Payers, payer'[q].pc = "loaded"
        PROVE  Payable(payer'[q].snapshot, payer'[q].id) # {}
    <3>1. q # p
      BY <2>1, <2>3
    <3>2. QED
      BY <2>1, <2>3, <3>1 DEF AccountInv, SnapshotsAccountable
  <2>4. QED
    BY <2>2, <2>3 DEF SnapshotsAccountable
<1>6. CASE PayWrite(p)
  <2>1. PICK new \in Overlays(payer[p].snapshot, store) : store' = new
    BY <1>6 DEF PayWrite
  <2>2. /\ new \in Seq(Line)
        /\ \A i \in 1 .. Len(new) :
              \/ new[i] = Torn
              \/ \E j \in 1 .. Len(payer[p].snapshot) : new[i] = payer[p].snapshot[j]
              \/ \E j \in 1 .. Len(store) : new[i] = store[j]
    BY <1>2, OverlayKeeps DEF TypeOK
  <2>3. /\ incurred' = incurred
        /\ settled' = settled \union {payer[p].id}
        /\ payer' = [payer EXCEPT ![p].pc = "done", ![p].snapshot = <<>>]
    BY <1>6 DEF PayWrite
  <2>4. ASSUME NEW i \in 1 .. Len(new), new[i] # Torn
        PROVE  /\ new[i].id \in incurred'
               /\ new[i].paid => new[i].id \in settled'
    <3>1. CASE \E j \in 1 .. Len(payer[p].snapshot) : new[i] = payer[p].snapshot[j]
      BY <2>3, <3>1 DEF AccountInv, SnapshotsAccountable
    <3>2. CASE \E j \in 1 .. Len(store) : new[i] = store[j]
      BY <2>3, <2>4, <3>2 DEF AccountInv, StoreIsAccountable, TypeOK
    <3>3. QED
      BY <2>2, <2>4, <3>1, <3>2
  <2>5. StoreIsAccountable'
    BY <2>1, <2>2, <2>4 DEF StoreIsAccountable
  <2>6. QED
    BY <1>5, <2>3, <2>5 DEF AccountInv
<1>7. CASE KillPayer(p)
  BY <1>5, <1>7 DEF KillPayer, AccountInv, StoreIsAccountable
<1>8. QED
  BY <1>3, <1>4, <1>6, <1>7 DEF PayProgress

LEMMA NextAccountInv == TypeOK /\ AccountInv /\ [Next]_vars => AccountInv'
<1>. SUFFICES ASSUME TypeOK, AccountInv, [Next]_vars
              PROVE  AccountInv'
  OBVIOUS
<1>1. CASE UNCHANGED vars \/ Tick
  BY <1>1, QuietAccountInv DEF vars, Tick
<1>2. ASSUME NEW g \in Gates,
             \/ \E rc \in Classes : StartGate(g, rc)
             \/ GateProgress(g)
             \/ KillGate(g)
      PROVE  AccountInv'
  <2>1. CASE IncurDebt(g)
    <3>1. gate[g].run \in Nat /\ gate[g].risk \in RiskClass
      BY DEF TypeOK, GateState
    <3>2. QED
      BY <2>1, <3>1, AppendAccountInv DEF IncurDebt
  <2>2. CASE ~IncurDebt(g)
    BY <1>2, <2>2, QuietAccountInv
       DEF StartGate, GateProgress, RunCommands, LoadBudget, BlockedByDebt, BudgetError,
           WritePacket, KillGate
  <2>3. QED
    BY <2>1, <2>2
<1>3. ASSUME NEW rc \in Classes, DirectIncur(rc)
      PROVE  AccountInv'
  <2>1. runs + 1 \in Nat /\ rc \in RiskClass
    BY GateAssumption DEF TypeOK
  <2>2. QED
    BY <1>3, <2>1, AppendAccountInv DEF DirectIncur
<1>4. CASE \E p \in Payers : \/ \E id \in 1 .. runs : PayLoad(p, id)
                            \/ PayProgress(p)
                            \/ KillPayer(p)
  BY <1>4, PayerAccountInv
<1>5. QED
  BY <1>1, <1>2, <1>3, <1>4 DEF Next

\* Lost lines and torn lines are all that races and kills can do to the store:
\* a line that parses was incurred, and is paid only if its payment succeeded.
THEOREM Accountable == Spec => []StoreIsAccountable
<1>1. AccountInv => StoreIsAccountable
  BY DEF AccountInv
<1>2. QED
  BY <1>1, InitAccountInv, NextAccountInv, TypeCorrect, PTL DEF Spec

-----------------------------------------------------------------------------
(* Verdict and debt agree. *)

Active(g) == gate[g].pc # "idle"

\* A run's id belongs to one slot or to one packet, and was handed out.
RunsDistinct ==
    /\ incurred \subseteq 1 .. runs
    /\ \A g \in Gates : Active(g) => gate[g].run \in 1 .. runs
    /\ \A g, h \in Gates : Active(g) /\ Active(h) /\ gate[g].run = gate[h].run => g = h
    /\ \A p \in packets :
          /\ p.run \in 1 .. runs
          /\ \A g \in Gates : Active(g) => gate[g].run # p.run

\* No debt before the check is over, and the agreed verdict after it.
VerdictsAgree ==
    \A g \in Gates :
        /\ gate[g].pc \in {"commands", "load", "check"} => gate[g].run \notin incurred
        /\ gate[g].pc = "packet" =>
              /\ gate[g].disposition = "promote" =>
                     \/ gate[g].run \in incurred
                     \/ gate[g].error /\ gate[g].risk \notin FailClosed
              /\ gate[g].run \in incurred => gate[g].disposition = "promote"

PacketInv == RunsDistinct /\ VerdictsAgree /\ PacketsMatchDebt

LEMMA InitPacketInv == Init => PacketInv
BY DEF Init, PacketInv, RunsDistinct, VerdictsAgree, PacketsMatchDebt, Active, IdleGate

\* A slot that goes on with its run, leaving debt and packets alone.
LEMMA StepPacketInv ==
    ASSUME TypeOK, PacketInv, NEW g \in Gates, NEW new \in GateState,
           Active(g), new.pc # "idle", new.run = gate[g].run,
           gate' = [gate EXCEPT ![g] = new],
           UNCHANGED <<runs, packets, incurred>>,
           /\ new.pc \in {"commands", "load", "check"} => new.run \notin incurred
           /\ new.pc = "packet" =>
                 /\ new.disposition = "promote" => new.error /\ new.risk \notin FailClosed
                 /\ new.run \notin incurred
    PROVE  PacketInv'
<1>1. /\ gate'[g] = new
      /\ \A h \in Gates : h # g => gate'[h] = gate[h]
  BY DEF TypeOK
<1>2. RunsDistinct'
  BY <1>1 DEF PacketInv, RunsDistinct, Active
<1>3. VerdictsAgree'
  BY <1>1 DEF PacketInv, VerdictsAgree
<1>4. PacketsMatchDebt'
  BY DEF PacketInv, PacketsMatchDebt
<1>5. QED
  BY <1>2, <1>3, <1>4 DEF PacketInv

\* A slot whose gate is gone.
LEMMA ExitPacketInv ==
    ASSUME TypeOK, RunsDistinct, VerdictsAgree, NEW g \in Gates,
           gate' = [gate EXCEPT ![g] = IdleGate],
           UNCHANGED <<runs, incurred>>
    PROVE  /\ VerdictsAgree'
           /\ UNCHANGED packets => RunsDistinct'
<1>1. /\ gate'[g].pc = "idle"
      /\ \A h \in Gates : h # g => gate'[h] = gate[h]
  BY DEF TypeOK, IdleGate
<1>2. VerdictsAgree'
  BY <1>1 DEF VerdictsAgree
<1>3. ASSUME UNCHANGED packets
      PROVE  RunsDistinct'
  BY <1>1, <1>3 DEF RunsDistinct, Active
<1>4. QED
  BY <1>2, <1>3

LEMMA GatePacketInv ==
    ASSUME TypeOK, PacketInv, NEW g \in Gates,
           (\E rc \in Classes : StartGate(g, rc)) \/ GateProgress(g) \/ KillGate(g)
    PROVE  PacketInv'
<1>1. gate[g] \in GateState /\ gate \in [Gates -> GateState] /\ runs \in Nat
  BY DEF TypeOK
<1>2. CASE \E rc \in Classes : StartGate(g, rc)
  <2>1. PICK rc \in Classes : StartGate(g, rc)
    BY <1>2
  <2>2. /\ gate'[g].pc = "commands"
        /\ gate'[g].run = runs + 1
        /\ \A h \in Gates : h # g => gate'[h] = gate[h]
        /\ runs' = runs + 1
        /\ UNCHANGED <<packets, incurred>>
    BY <1>1, <2>1 DEF StartGate, IdleGate
  <2>3. runs + 1 \notin 1 .. runs /\ 1 .. runs \subseteq 1 .. runs + 1
    BY <1>1
  <2>4. RunsDistinct'
    BY <1>1, <2>2, <2>3 DEF PacketInv, RunsDistinct, Active
  <2>5. VerdictsAgree'
    BY <2>2, <2>3 DEF PacketInv, VerdictsAgree, RunsDistinct
  <2>6. PacketsMatchDebt'
    BY <2>2 DEF PacketInv, PacketsMatchDebt
  <2>7. QED
    BY <2>4, <2>5, <2>6 DEF PacketInv
<1>3. ASSUME NEW outcomes, RunCommands(g, outcomes)
      PROVE  PacketInv'
  <2>. DEFINE new == [gate[g] EXCEPT
                        !.disposition = Adjudicate(outcomes),
                        !.pc = IF Adjudicate(outcomes) = "promote" THEN "load" ELSE "packet"]
  <2>1. Adjudicate(outcomes) \in Disposition
    BY DEF Adjudicate, Disposition
  <2>2. /\ new \in GateState
        /\ new.disposition = Adjudicate(outcomes)
        /\ new.pc = IF Adjudicate(outcomes) = "promote" THEN "load" ELSE "packet"
        /\ new.run = gate[g].run
    BY <1>1, <2>1 DEF GateState
  <2>3. gate[g].pc = "commands" /\ gate' = [gate EXCEPT ![g] = new]
    BY <1>3 DEF RunCommands
  <2>4. gate[g].run \notin incurred
    BY <2>3 DEF PacketInv, VerdictsAgree
  <2>. HIDE DEF new
  <2>5. QED
    BY <1>3, <2>2, <2>3, <2>4, StepPacketInv DEF RunCommands, Active
<1>4. CASE LoadBudget(g)
  <2>. DEFINE new == [gate[g] EXCEPT !.snapshot = Load(store), !.pc = "check"]
  <2>1. Load(store) \in Seq(Entry)
    BY LoadKeeps DEF TypeOK
  <2>2. /\ new \in GateState
        /\ new.pc = "check"
        /\ new.run = gate[g].run
    BY <1>1, <2>1 DEF GateState
  <2>3. gate[g].pc = "load" /\ gate' = [gate EXCEPT ![g] = new]
    BY <1>4 DEF LoadBudget
  <2>4. gate[g].run \notin incurred
    BY <2>3 DEF PacketInv, VerdictsAgree
  <2>. HIDE DEF new
  <2>5. QED
    BY <1>4, <2>2, <2>3, <2>4, StepPacketInv DEF LoadBudget, Active
<1>5. ASSUME NEW disposition \in Disposition, NEW error \in BOOLEAN, Decide(g, disposition, error),
             gate[g].pc \in {"load", "check"}
      PROVE  \E new \in GateState :
                /\ gate' = [gate EXCEPT ![g] = new]
                /\ new.pc = "packet"
                /\ new.disposition = disposition
                /\ new.error = error
                /\ new.risk = gate[g].risk
                /\ new.run = gate[g].run
                /\ new.run \notin incurred
  <2>. DEFINE new == [gate[g] EXCEPT !.disposition = disposition, !.error = error,
                                     !.pc = "packet", !.snapshot = <<>>]
  <2>1. <<>> \in Seq(Entry)
    OBVIOUS
  <2>2. /\ new \in GateState
        /\ new.pc = "packet"
        /\ new.disposition = disposition
        /\ new.error = error
        /\ new.risk = gate[g].risk
        /\ new.run = gate[g].run
    BY <1>1, <1>5, <2>1 DEF GateState
  <2>3. gate' = [gate EXCEPT ![g] = new]
    BY <1>5 DEF Decide
  <2>4. gate[g].run \notin incurred
    BY <1>5 DEF PacketInv, VerdictsAgree
  <2>. HIDE DEF new
  <2>5. QED
    BY <2>2, <2>3, <2>4
<1>6. CASE BlockedByDebt(g)
  <2>1. Decide(g, "quarantine", FALSE) /\ gate[g].pc = "check"
    BY <1>6 DEF BlockedByDebt
  <2>2. PICK new \in GateState :
            /\ gate' = [gate EXCEPT ![g] = new]
            /\ new.pc = "packet"
            /\ new.disposition = "quarantine"
            /\ new.run = gate[g].run
            /\ new.run \notin incurred
    BY <1>5, <2>1 DEF Disposition
  <2>3. QED
    BY <1>6, <2>1, <2>2, StepPacketInv DEF BlockedByDebt, Active
<1>7. CASE IncurDebt(g)
  <2>1. Decide(g, "promote", FALSE) /\ gate[g].pc = "check"
    BY <1>7 DEF IncurDebt
  <2>2. PICK new \in GateState :
            /\ gate' = [gate EXCEPT ![g] = new]
            /\ new.pc = "packet"
            /\ new.disposition = "promote"
            /\ new.run = gate[g].run
            /\ new.run \notin incurred
    BY <1>5, <2>1 DEF Disposition
  <2>3. /\ gate'[g] = new
        /\ \A h \in Gates : h # g => gate'[h] = gate[h]
        /\ incurred' = incurred \union {gate[g].run}
        /\ UNCHANGED <<runs, packets>>
    BY <1>1, <1>7, <2>2 DEF IncurDebt
  <2>4. Active(g)
    BY <2>1 DEF Active
  <2>5. RunsDistinct'
    <3>1. \A h \in Gates : gate'[h].run = gate[h].run /\ (Active(h)' => Active(h))
      BY <2>2, <2>3, <2>4 DEF Active
    <3>2. incurred' \subseteq 1 .. runs'
      BY <2>3, <2>4 DEF PacketInv, RunsDistinct
    <3>3. QED
      BY <2>3, <3>1, <3>2 DEF PacketInv, RunsDistinct
  <2>6. \A h \in Gates : h # g /\ Active(h) => gate[h].run # gate[g].run
    BY <2>4 DEF PacketInv, RunsDistinct
  <2>7. VerdictsAgree'
    BY <2>2, <2>3, <2>6 DEF PacketInv, VerdictsAgree, Active
  <2>8. PacketsMatchDebt'
    BY <2>3, <2>4 DEF PacketInv, PacketsMatchDebt, RunsDistinct
  <2>9. QED
    BY <2>5, <2>7, <2>8 DEF PacketInv
<1>8. CASE BudgetError(g)
  <2>. DEFINE verdict == IF gate[g].risk \in FailClosed THEN "quarantine" ELSE "promote"
  <2>1. Decide(g, verdict, TRUE) /\ gate[g].pc \in {"load", "check"} /\ verdict \in Disposition
    BY <1>8 DEF BudgetError, Disposition
  <2>2. PICK new \in GateState :
            /\ gate' = [gate EXCEPT ![g] = new]
            /\ new.pc = "packet"
            /\ new.disposition = verdict
            /\ new.error = TRUE
            /\ new.risk = gate[g].risk
            /\ new.run = gate[g].run
            /\ new.run \notin incurred
    BY <1>5, <2>1
  <2>3. QED
    BY <1>8, <2>1, <2>2, StepPacketInv DEF BudgetError, Active
<1>9. CASE WritePacket(g)
  <2>. DEFINE packet == [run |-> gate[g].run, risk |-> gate[g].risk,
                         disposition |-> gate[g].disposition, error |-> gate[g].error, at |-> clock]
  <2>1. /\ gate[g].pc = "packet"
        /\ packets' = packets \union {packet}
        /\ gate' = [gate EXCEPT ![g] = IdleGate]
        /\ UNCHANGED <<runs, incurred>>
    BY <1>9 DEF WritePacket
  <2>2. /\ gate'[g].pc = "idle"
        /\ \A h \in Gates : h # g => gate'[h] = gate[h]
    BY <1>1, <2>1 DEF IdleGate
  <2>3. Active(g)
    BY <2>1 DEF Active
  <2>4. RunsDistinct'
    <3>1. ASSUME NEW p \in packets'
          PROVE  /\ p.run \in 1 .. runs'
                 /\ \A h \in Gates : Active(h)' => gate'[h].run # p.run
      BY <2>1, <2>2, <2>3 DEF PacketInv, RunsDistinct, Active
    <3>2. QED
      BY <2>1, <2>2, <3>1 DEF PacketInv, RunsDistinct, Active
  <2>5. VerdictsAgree'
    BY <2>1, ExitPacketInv DEF PacketInv
  <2>6. PacketsMatchDebt'
    BY <2>1 DEF PacketInv, PacketsMatchDebt, VerdictsAgree
  <2>7. QED
    BY <2>4, <2>5, <2>6 DEF PacketInv
<1>10. CASE KillGate(g)
  BY <1>10, ExitPacketInv DEF KillGate, PacketInv, PacketsMatchDebt
<1>11. QED
  BY <1>2, <1>3, <1>4, <1>6, <1>7, <1>8, <1>9, <1>10 DEF GateProgress

LEMMA NextPacketInv == TypeOK /\ PacketInv /\ [Next]_vars => PacketInv'
<1>. SUFFICES ASSUME TypeOK, PacketInv, [Next]_vars
              PROVE  PacketInv'
  OBVIOUS
<1>1. ASSUME UNCHANGED <<runs, gate, packets, incurred>>
      PROVE  PacketInv'
  BY <1>1 DEF PacketInv, RunsDistinct, VerdictsAgree, PacketsMatchDebt, Active
<1>2. CASE UNCHANGED vars \/ Tick
  BY <1>1, <1>2 DEF vars, Tick
<1>3. CASE \E g \in Gates : \/ \E rc \in Classes : StartGate(g, rc)
                           \/ GateProgress(g)
                           \/ KillGate(g)
  BY <1>3, GatePacketInv
<1>4. ASSUME NEW rc \in Classes, DirectIncur(rc)
      PROVE  PacketInv'
  <2>1. /\ runs' = runs + 1
        /\ incurred' = incurred \union {runs + 1}
        /\ UNCHANGED <<gate, packets>>
    BY <1>4 DEF DirectIncur
  <2>2. runs + 1 \notin 1 .. runs /\ 1 .. runs \subseteq 1 .. runs + 1 /\ runs + 1 \in 1 .. runs + 1
    BY DEF TypeOK
  <2>3. RunsDistinct'
    BY <2>1, <2>2 DEF PacketInv, RunsDistinct, Active
  <2>4. VerdictsAgree'
    BY <2>1, <2>2 DEF PacketInv, RunsDistinct, VerdictsAgree, Active
  <2>5. PacketsMatchDebt'
    BY <2>1, <2>2 DEF PacketInv, RunsDistinct, PacketsMatchDebt
  <2>6. QED
    BY <2>3, <2>4, <2>5 DEF PacketInv
<1>5. CASE \E p \in Payers : \/ \E id \in 1 .. runs : PayLoad(p, id)
                            \/ PayProgress(p)
                            \/ KillPayer(p)
  BY <1>1, <1>5 DEF PayLoad, PayProgress, PayTruncate, PayWrite, KillPayer
<1>6. QED
  BY <1>2, <1>3, <1>4, <1>5 DEF Next

\* A promoted high or critical run always has its debt on record, and a run that
\* was turned down never does, under every interleaving, error and kill.
THEOREM VerdictMatchesDebt == Spec => []PacketsMatchDebt
<1>1. PacketInv => PacketsMatchDebt
  BY DEF PacketInv
<1>2. QED
  BY <1>1, InitPacketInv, NextPacketInv, TypeCorrect, PTL DEF Spec

-----------------------------------------------------------------------------
(* Racing gates exceed a threshold by less than their number. *)

LEMMA UnpaidFinite ==
    ASSUME NEW file \in Seq(Line), NEW rc
    PROVE  IsFiniteSet(Unpaid(file, rc)) /\ UnpaidCount(file, rc) \in Nat
<1>1. Unpaid(file, rc) \subseteq 1 .. Len(file)
  BY DEF Unpaid
<1>2. IsFiniteSet(1 .. Len(file))
  BY FS_Interval
<1>3. IsFiniteSet(Unpaid(file, rc))
  BY <1>1, <1>2, FS_Subset
<1>4. QED
  BY <1>3, FS_CardinalityType DEF UnpaidCount

LEMMA UnpaidAppend ==
    ASSUME NEW file \in Seq(Line), NEW id \in Nat, NEW rc \in RiskClass, NEW other \in RiskClass
    PROVE  UnpaidCount(Append(file, NewEntry(id, rc)), other) =
               IF other = rc THEN UnpaidCount(file, other) + 1 ELSE UnpaidCount(file, other)
<1>. DEFINE new == Append(file, NewEntry(id, rc))
            last == Len(file) + 1
<1>1. NewEntry(id, rc) \in Entry
  BY DEF NewEntry, Entry
<1>2. /\ new \in Seq(Line)
      /\ DOMAIN new = 1 .. last
      /\ DOMAIN file = 1 .. Len(file)
      /\ \A i \in 1 .. Len(file) : new[i] = file[i]
      /\ new[last] = NewEntry(id, rc)
  BY <1>1 DEF Line
<1>3. 1 .. last = (1 .. Len(file)) \union {last} /\ last \notin 1 .. Len(file)
  OBVIOUS
<1>4. ~NewEntry(id, rc).paid /\ NewEntry(id, rc).risk = rc /\ NewEntry(id, rc) # Torn
  BY <1>1, TornAssumption DEF NewEntry
<1>. HIDE DEF new, last
<1>5. CASE other = rc
  <2>1. Unpaid(new, other) = Unpaid(file, other) \union {last}
    BY <1>2, <1>3, <1>4, <1>5 DEF Unpaid
  <2>2. last \notin Unpaid(file, other)
    BY <1>2, <1>3 DEF Unpaid
  <2>3. QED
    BY <1>5, <2>1, <2>2, UnpaidFinite, FS_AddElement DEF UnpaidCount, new
<1>6. CASE other # rc
  <2>1. Unpaid(new, other) = Unpaid(file, other)
    BY <1>2, <1>3, <1>4, <1>6 DEF Unpaid
  <2>2. QED
    BY <1>6, <2>1 DEF UnpaidCount, new
<1>7. QED
  BY <1>5, <1>6

\* The gates that have decided to append and not done it yet.
Pending(rc) ==
    {g \in Gates : gate[g].pc = "check" /\ gate[g].risk = rc /\ ~IsBlocked(gate[g].snapshot, rc)}

\* No invocation of pay has started yet.
NobodyPays == \A p \in Payers : payer[p].pc = "idle"

\* Debt on record and debt decided on, together, stay below the bound.
OvershootInv ==
    NobodyPays =>
        /\ \A i \in DOMAIN store : store[i] # Torn
        /\ \A rc \in RiskClass :
              UnpaidCount(store, rc) + Cardinality(Pending(rc))
                  < Threshold[rc] + Cardinality(Gates) + direct[rc]

LEMMA PendingFinite ==
    ASSUME NEW rc
    PROVE  /\ IsFiniteSet(Pending(rc))
           /\ Cardinality(Pending(rc)) \in Nat
           /\ Cardinality(Gates) \in Nat
           /\ Cardinality(Pending(rc)) <= Cardinality(Gates)
<1>1. Pending(rc) \subseteq Gates
  BY DEF Pending
<1>2. QED
  BY <1>1, GateAssumption, FS_Subset, FS_CardinalityType

LEMMA InitOvershootInv == Init => OvershootInv
<1>. SUFFICES ASSUME Init, NEW rc \in RiskClass
              PROVE  UnpaidCount(store, rc) + Cardinality(Pending(rc))
                         < Threshold[rc] + Cardinality(Gates) + direct[rc]
  BY DEF Init, OvershootInv
<1>1. Unpaid(store, rc) = {} /\ Pending(rc) = {}
  BY DEF Init, Unpaid, Pending, IdleGate
<1>2. UnpaidCount(store, rc) = 0 /\ Cardinality(Pending(rc)) = 0
  BY <1>1, FS_EmptySet DEF UnpaidCount
<1>3. Threshold[rc] \in Nat \ {0} /\ direct[rc] = 0 /\ Cardinality(Gates) \in Nat
  BY ThresholdAssumption, PendingFinite DEF Init
<1>4. QED
  BY <1>2, <1>3

\* Steps after which no more gates are about to append than before.
LEMMA FewerPending ==
    ASSUME TypeOK, OvershootInv, NobodyPays,
           UNCHANGED <<store, direct>>,
           \A rc \in RiskClass : Pending(rc)' \subseteq Pending(rc)
    PROVE  OvershootInv'
<1>1. \A i \in DOMAIN store' : store'[i] # Torn
  BY DEF OvershootInv
<1>2. ASSUME NEW rc \in RiskClass
      PROVE  UnpaidCount(store', rc) + Cardinality(Pending(rc)')
                 < Threshold[rc] + Cardinality(Gates) + direct'[rc]
  <2>1. Cardinality(Pending(rc)') \in Nat /\ Cardinality(Pending(rc)') <= Cardinality(Pending(rc))
    BY PendingFinite, FS_Subset, FS_CardinalityType
  <2>2. UnpaidCount(store, rc) \in Nat
    BY UnpaidFinite DEF TypeOK
  <2>3. UnpaidCount(store, rc) + Cardinality(Pending(rc))
            < Threshold[rc] + Cardinality(Gates) + direct[rc]
    BY DEF OvershootInv
  <2>4. /\ Cardinality(Pending(rc)) \in Nat
        /\ Cardinality(Gates) \in Nat
        /\ Threshold[rc] \in Nat
        /\ direct[rc] \in Nat
    BY PendingFinite, ThresholdAssumption DEF TypeOK
  <2>5. QED
    BY <2>1, <2>2, <2>3, <2>4
<1>3. QED
  BY <1>1, <1>2 DEF OvershootInv

\* A gate loads: if that makes it pending, the store is below the threshold.
LEMMA LoadOvershootInv ==
    ASSUME TypeOK, OvershootInv, NobodyPays, NEW g \in Gates, LoadBudget(g)
    PROVE  OvershootInv'
<1>1. /\ gate \in [Gates -> GateState]
      /\ gate[g] \in GateState
      /\ store \in Seq(Line)
  BY DEF TypeOK
<1>2. \A i \in DOMAIN store : store[i] # Torn
  BY DEF OvershootInv
<1>3. Load(store) = store
  BY <1>2 DEF Load
<1>4. /\ gate'[g].risk = gate[g].risk
      /\ gate'[g].pc = "check"
      /\ gate'[g].snapshot = store
      /\ \A h \in Gates : h # g => gate'[h] = gate[h]
      /\ UNCHANGED <<store, direct>>
  BY <1>1, <1>3 DEF LoadBudget, GateState
<1>5. ASSUME NEW rc \in RiskClass
      PROVE  UnpaidCount(store', rc) + Cardinality(Pending(rc)')
                 < Threshold[rc] + Cardinality(Gates) + direct'[rc]
  <2>1. UnpaidCount(store, rc) \in Nat
    BY <1>1, UnpaidFinite
  <2>2. Threshold[rc] \in Nat /\ direct[rc] \in Nat
    BY ThresholdAssumption DEF TypeOK
  <2>3. Pending(rc)' \subseteq Gates
    BY DEF Pending
  <2>4. /\ IsFiniteSet(Pending(rc)')
        /\ Cardinality(Pending(rc)') \in Nat
        /\ Cardinality(Gates) \in Nat
        /\ Cardinality(Pending(rc)') <= Cardinality(Gates)
    BY <2>3, GateAssumption, FS_Subset, FS_CardinalityType
  <2>5. CASE g \in Pending(rc)'
    <3>1. ~IsBlocked(store, rc)
      BY <1>4, <2>5 DEF Pending
    <3>2. UnpaidCount(store, rc) < Threshold[rc]
      BY <2>1, <2>2, <3>1 DEF IsBlocked
    <3>3. QED
      BY <1>4, <2>1, <2>2, <2>4, <3>2
  <2>6. CASE g \notin Pending(rc)'
    <3>1. Pending(rc)' \subseteq Pending(rc)
      BY <1>4, <2>6 DEF Pending
    <3>2. Cardinality(Pending(rc)') <= Cardinality(Pending(rc)) /\ Cardinality(Pending(rc)) \in Nat
      BY <3>1, PendingFinite, FS_Subset
    <3>3. UnpaidCount(store, rc) + Cardinality(Pending(rc))
              < Threshold[rc] + Cardinality(Gates) + direct[rc]
      BY DEF OvershootInv
    <3>4. QED
      BY <1>4, <2>1, <2>2, <2>4, <3>2, <3>3
  <2>7. QED
    BY <2>5, <2>6
<1>6. QED
  BY <1>2, <1>4, <1>5 DEF OvershootInv

\* A gate appends: it leaves the pending ones as the store gains its entry.
LEMMA IncurOvershootInv ==
    ASSUME TypeOK, OvershootInv, NobodyPays, NEW g \in Gates, IncurDebt(g)
    PROVE  OvershootInv'
<1>. DEFINE entry == NewEntry(gate[g].run, gate[g].risk)
<1>1. /\ gate \in [Gates -> GateState]
      /\ gate[g].run \in Nat
      /\ gate[g].risk \in RiskClass
      /\ store \in Seq(Line)
  BY DEF TypeOK, GateState
<1>2. entry \in Line /\ entry # Torn
  <2>1. entry \in Entry
    BY <1>1 DEF NewEntry, Entry
  <2>2. QED
    BY <2>1, TornAssumption DEF Line
<1>3. /\ gate'[g].pc = "packet"
      /\ \A h \in Gates : h # g => gate'[h] = gate[h]
      /\ store' = Append(store, entry)
      /\ UNCHANGED direct
  BY <1>1 DEF IncurDebt, Decide, GateState, TypeOK
<1>4. gate[g].pc = "check" /\ ~IsBlocked(gate[g].snapshot, gate[g].risk)
  BY DEF IncurDebt
<1>5. \A i \in DOMAIN store' : store'[i] # Torn
  <2>1. \A i \in 1 .. Len(store) : store[i] # Torn
    BY <1>1 DEF OvershootInv
  <2>. HIDE DEF entry
  <2>2. QED
    BY <1>1, <1>2, <1>3, <2>1
<1>6. ASSUME NEW rc \in RiskClass
      PROVE  UnpaidCount(store', rc) + Cardinality(Pending(rc)')
                 < Threshold[rc] + Cardinality(Gates) + direct'[rc]
  <2>1. UnpaidCount(store, rc) \in Nat
    BY <1>1, UnpaidFinite
  <2>2. /\ Threshold[rc] \in Nat
        /\ direct[rc] \in Nat
        /\ Cardinality(Gates) \in Nat
        /\ IsFiniteSet(Pending(rc))
        /\ Cardinality(Pending(rc)) \in Nat
    BY ThresholdAssumption, PendingFinite DEF TypeOK
  <2>3. UnpaidCount(store, rc) + Cardinality(Pending(rc))
            < Threshold[rc] + Cardinality(Gates) + direct[rc]
    BY DEF OvershootInv
  <2>4. Pending(rc)' = Pending(rc) \ {g}
    BY <1>3 DEF Pending
  <2>5. CASE rc = gate[g].risk
    <3>1. g \in Pending(rc)
      BY <1>4, <2>5 DEF Pending
    <3>2. Cardinality(Pending(rc)') = Cardinality(Pending(rc)) - 1
      BY <2>2, <2>4, <3>1, FS_RemoveElement
    <3>3. UnpaidCount(store', rc) = UnpaidCount(store, rc) + 1
      BY <1>1, <1>3, <2>5, UnpaidAppend
    <3>4. QED
      BY <1>3, <2>1, <2>2, <2>3, <3>2, <3>3
  <2>6. CASE rc # gate[g].risk
    <3>1. Pending(rc)' = Pending(rc)
      BY <2>4, <2>6 DEF Pending
    <3>2. UnpaidCount(store', rc) = UnpaidCount(store, rc)
      BY <1>1, <1>3, <2>6, UnpaidAppend
    <3>3. QED
      BY <1>3, <2>1, <2>2, <2>3, <3>1, <3>2
  <2>7. QED
    BY <2>5, <2>6
<1>7. QED
  BY <1>5, <1>6 DEF OvershootInv

LEMMA DirectOvershootInv ==
    ASSUME TypeOK, OvershootInv, NobodyPays, NEW rc \in RiskClass, DirectIncur(rc)
    PROVE  OvershootInv'
<1>. DEFINE entry == NewEntry(runs + 1, rc)
<1>1. store \in Seq(Line) /\ runs + 1 \in Nat /\ direct \in [RiskClass -> Nat]
  BY DEF TypeOK
<1>2. entry \in Line /\ entry # Torn
  <2>1. entry \in Entry
    BY <1>1 DEF NewEntry, Entry
  <2>2. QED
    BY <2>1, TornAssumption DEF Line
<1>3. /\ store' = Append(store, entry)
      /\ direct' = [direct EXCEPT ![rc] = @ + 1]
      /\ UNCHANGED gate
  BY DEF DirectIncur
<1>4. \A i \in DOMAIN store' : store'[i] # Torn
  <2>1. \A i \in 1 .. Len(store) : store[i] # Torn
    BY <1>1 DEF OvershootInv
  <2>. HIDE DEF entry
  <2>2. QED
    BY <1>1, <1>2, <1>3, <2>1
<1>5. ASSUME NEW other \in RiskClass
      PROVE  UnpaidCount(store', other) + Cardinality(Pending(other)')
                 < Threshold[other] + Cardinality(Gates) + direct'[other]
  <2>1. UnpaidCount(store, other) \in Nat
    BY <1>1, UnpaidFinite
  <2>2. /\ Threshold[other] \in Nat
        /\ direct[other] \in Nat
        /\ Cardinality(Gates) \in Nat
        /\ Cardinality(Pending(other)) \in Nat
    BY ThresholdAssumption, PendingFinite DEF TypeOK
  <2>3. UnpaidCount(store, other) + Cardinality(Pending(other))
            < Threshold[other] + Cardinality(Gates) + direct[other]
    BY DEF OvershootInv
  <2>4. Pending(other)' = Pending(other)
    BY <1>3 DEF Pending
  <2>5. /\ UnpaidCount(store', other) =
               IF other = rc THEN UnpaidCount(store, other) + 1 ELSE UnpaidCount(store, other)
        /\ direct'[other] = IF other = rc THEN direct[other] + 1 ELSE direct[other]
    BY <1>1, <1>3, UnpaidAppend
  <2>6. QED
    BY <2>1, <2>2, <2>3, <2>4, <2>5
<1>6. QED
  BY <1>4, <1>5 DEF OvershootInv

\* A step of a payer leaves it started, and no other step touches it.
LEMMA PayerStarts ==
    ASSUME TypeOK, NEW p \in Payers,
           \/ \E id \in 1 .. runs : PayLoad(p, id)
           \/ PayProgress(p)
           \/ KillPayer(p)
    PROVE  /\ payer'[p].pc # "idle"
           /\ \A q \in Payers : q # p => payer'[q] = payer[q]
<1>1. payer \in [Payers -> PayerState] /\ payer[p] \in PayerState
  BY DEF TypeOK
<1>2. CASE \E id \in 1 .. runs : PayLoad(p, id)
  BY <1>1, <1>2 DEF PayLoad
<1>3. CASE PayProgress(p)
  BY <1>1, <1>3 DEF PayProgress, PayTruncate, PayWrite, PayerState
<1>4. CASE KillPayer(p)
  BY <1>1, <1>4 DEF KillPayer, PayerState
<1>5. QED
  BY <1>2, <1>3, <1>4

LEMMA StartedStays ==
    ASSUME TypeOK, [Next]_vars, NEW q \in Payers, payer'[q].pc = "idle"
    PROVE  payer[q].pc = "idle"
<1>1. CASE payer' = payer
  BY <1>1
<1>2. ASSUME NEW p \in Payers,
             \/ \E id \in 1 .. runs : PayLoad(p, id)
             \/ PayProgress(p)
             \/ KillPayer(p)
      PROVE  payer[q].pc = "idle"
  BY <1>2, PayerStarts
<1>3. QED
  BY <1>1, <1>2
     DEF Next, vars, Tick, StartGate, GateProgress, RunCommands, LoadBudget, BlockedByDebt, IncurDebt,
         BudgetError, WritePacket, KillGate, DirectIncur

LEMMA NextOvershootInv == TypeOK /\ OvershootInv /\ [Next]_vars => OvershootInv'
<1>. SUFFICES ASSUME TypeOK, OvershootInv, [Next]_vars, NobodyPays'
              PROVE  OvershootInv'
  BY DEF OvershootInv
<1>0. NobodyPays
  <2>1. ASSUME NEW p \in Payers
        PROVE  payer[p].pc = "idle"
    BY <2>1, StartedStays DEF NobodyPays
  <2>2. QED
    BY <2>1 DEF NobodyPays
<1>. USE <1>0
<1>1. CASE UNCHANGED vars \/ Tick
  BY <1>1, FewerPending DEF vars, Tick, Pending
<1>2. ASSUME NEW g \in Gates,
             \/ \E rc \in Classes : StartGate(g, rc)
             \/ GateProgress(g)
             \/ KillGate(g)
      PROVE  OvershootInv'
  <2>1. CASE LoadBudget(g)
    BY <2>1, LoadOvershootInv
  <2>2. CASE IncurDebt(g)
    BY <2>2, IncurOvershootInv
  <2>3. CASE ~LoadBudget(g) /\ ~IncurDebt(g)
    <3>1. gate \in [Gates -> GateState] /\ gate[g] \in GateState
      BY DEF TypeOK
    <3>2. CASE \E rc \in Classes : StartGate(g, rc)
      <4>1. PICK rc \in Classes : StartGate(g, rc)
        BY <3>2
      <4>2. /\ gate' = [gate EXCEPT ![g] = [IdleGate EXCEPT !.pc = "commands", !.run = runs + 1,
                                                            !.risk = rc]]
            /\ UNCHANGED <<store, direct>>
        BY <4>1 DEF StartGate
      <4>3. gate'[g].pc = "commands"
        BY <3>1, <4>2 DEF IdleGate
      <4>4. QED
        BY <3>1, <4>2, <4>3, FewerPending DEF Pending
    <3>3. CASE \E outcomes \in (SUBSET Outcome) \ {{}} : RunCommands(g, outcomes)
      <4>1. PICK outcomes \in (SUBSET Outcome) \ {{}} : RunCommands(g, outcomes)
        BY <3>3
      <4>2. gate'[g].pc \in {"load", "packet"} /\ UNCHANGED <<store, direct>>
        BY <3>1, <4>1 DEF RunCommands, GateState
      <4>3. \A h \in Gates : h # g => gate'[h] = gate[h]
        BY <3>1, <4>1 DEF RunCommands
      <4>4. QED
        BY <4>2, <4>3, FewerPending DEF Pending
    <3>4. CASE BlockedByDebt(g) \/ BudgetError(g)
      <4>1. gate'[g].pc = "packet" /\ UNCHANGED <<store, direct>>
        BY <3>1, <3>4 DEF BlockedByDebt, BudgetError, Decide, GateState
      <4>2. \A h \in Gates : h # g => gate'[h] = gate[h]
        BY <3>1, <3>4 DEF BlockedByDebt, BudgetError, Decide
      <4>3. QED
        BY <4>1, <4>2, FewerPending DEF Pending
    <3>5. CASE WritePacket(g) \/ KillGate(g)
      <4>1. gate' = [gate EXCEPT ![g] = IdleGate] /\ UNCHANGED <<store, direct>>
        BY <3>5 DEF WritePacket, KillGate
      <4>2. QED
        BY <3>1, <4>1, FewerPending DEF Pending, IdleGate
    <3>6. QED
      BY <1>2, <2>3, <3>2, <3>3, <3>4, <3>5 DEF GateProgress
  <2>4. QED
    BY <2>1, <2>2, <2>3
<1>3. ASSUME NEW rc \in Classes, DirectIncur(rc)
      PROVE  OvershootInv'
  BY <1>3, DirectOvershootInv, GateAssumption
<1>4. ASSUME NEW p \in Payers,
             \/ \E id \in 1 .. runs : PayLoad(p, id)
             \/ PayProgress(p)
             \/ KillPayer(p)
      PROVE  FALSE
  BY <1>4, PayerStarts DEF NobodyPays
<1>5. QED
  BY <1>1, <1>2, <1>3, <1>4 DEF Next

\* However many gates race, and however long they go on, a class never owes as
\* much as its threshold plus their number, until somebody pays.
THEOREM RacingGatesOvershootLittle == Spec => []OvershootBounded
<1>1. TypeOK /\ OvershootInv => OvershootBounded
  <2>. SUFFICES ASSUME TypeOK, OvershootInv, NobodyPays, NEW rc \in RiskClass
                PROVE  UnpaidCount(store, rc) < Threshold[rc] + Cardinality(Gates) + direct[rc]
    BY DEF OvershootBounded, NobodyPays
  <2>1. UnpaidCount(store, rc) \in Nat
    BY UnpaidFinite DEF TypeOK
  <2>2. /\ Threshold[rc] \in Nat
        /\ direct[rc] \in Nat
        /\ Cardinality(Gates) \in Nat
        /\ Cardinality(Pending(rc)) \in Nat
    BY ThresholdAssumption, PendingFinite DEF TypeOK
  <2>3. UnpaidCount(store, rc) + Cardinality(Pending(rc))
            < Threshold[rc] + Cardinality(Gates) + direct[rc]
    BY DEF OvershootInv
  <2>4. QED
    BY <2>1, <2>2, <2>3
<1>2. QED
  BY <1>1, InitOvershootInv, NextOvershootInv, TypeCorrect, PTL DEF Spec

-----------------------------------------------------------------------------
(* One invocation at a time: no entry is lost and no payment undone. *)

\* A store without torn lines is loaded as it is.
LEMMA LoadWhole ==
    ASSUME NEW file \in Seq(Entry)
    PROVE  Load(file) = file
<1>1. \A i \in DOMAIN file : file[i] \in Entry
  OBVIOUS
<1>2. QED
  BY <1>1, TornAssumption DEF Load

OneMarked(new, entries, id, k) ==
    /\ k \in 1 .. Len(entries)
    /\ entries[k].id = id
    /\ ~entries[k].paid
    /\ new = [entries EXCEPT ![k] = [entries[k] EXCEPT !.paid = TRUE]]

\* Settling marks one entry that has the id and was not paid.
LEMMA MarkPaidOne ==
    ASSUME NEW entries \in Seq(Entry), NEW id, Payable(entries, id) # {}
    PROVE  \E k : OneMarked(MarkPaid(entries, id), entries, id, k)
<1>. DEFINE IsFirst(i) == \A j \in Payable(entries, id) : i <= j
            k == CHOOSE i \in Payable(entries, id) : IsFirst(i)
<1>1. Payable(entries, id) \in SUBSET Nat
  BY DEF Payable
<1>2. PICK x \in Payable(entries, id) : IsFirst(x)
  BY <1>1, MinimumExists, Zenon
<1>3. k \in Payable(entries, id)
  BY <1>2, Zenon
<1>4. MarkPaid(entries, id) = [entries EXCEPT ![k].paid = TRUE]
  BY DEF MarkPaid
<1>. HIDE DEF k
<1>5. k \in 1 .. Len(entries) /\ entries[k].id = id /\ ~entries[k].paid
  BY <1>3 DEF Payable
<1>6. MarkPaid(entries, id) = [entries EXCEPT ![k] = [entries[k] EXCEPT !.paid = TRUE]]
  BY <1>4
<1>7. OneMarked(MarkPaid(entries, id), entries, id, k)
  BY <1>5, <1>6 DEF OneMarked
<1>8. QED
  BY <1>7

Paying(p) == payer[p].pc \in {"loaded", "truncated"}

OneAtATime ==
    /\ \A g, h \in Gates : Active(g) /\ Active(h) => g = h
    /\ \A p, q \in Payers : Paying(p) /\ Paying(q) => p = q
    /\ \A g \in Gates, p \in Payers : ~(Active(g) /\ Paying(p))

\* What a process remembers of the store is what it still holds, and nothing is
\* in the store while it is rewritten.
SnapshotsCurrent ==
    /\ \A g \in Gates : gate[g].pc = "check" => gate[g].snapshot = store
    /\ \A p \in Payers : payer[p].pc = "loaded" => payer[p].snapshot = store
    /\ \A p \in Payers : payer[p].pc = "truncated" => store = <<>>

Ids(entries) == {entries[i].id : i \in DOMAIN entries}

\* A list of claims as it should be: no torn line, no id twice, those that were
\* settled are paid, and unless a process was killed none is missing.
LedgerTrue(entries, paidFor) ==
    /\ entries \in Seq(Entry)
    /\ \A i, j \in DOMAIN entries : entries[i].id = entries[j].id => i = j
    /\ \A i \in DOMAIN entries : entries[i].id \in paidFor => entries[i].paid

\* So is the store, and what a payer is about to write in its place.
LedgersTrue ==
    /\ settled \subseteq incurred
    /\ LedgerTrue(store, settled)
    /\ crashes = 0 /\ Truncated = {} => incurred \subseteq Ids(store)
    /\ \A p \in Payers : payer[p].pc = "truncated" =>
          /\ payer[p].id \in incurred
          /\ LedgerTrue(payer[p].snapshot, settled \union {payer[p].id})
          /\ crashes = 0 => incurred \subseteq Ids(payer[p].snapshot)

ExclusiveInv == Exclusive => OneAtATime /\ SnapshotsCurrent /\ LedgersTrue

LEMMA InitExclusiveInv == Init => ExclusiveInv
BY DEF Init, ExclusiveInv, OneAtATime, SnapshotsCurrent, LedgersTrue, LedgerTrue, Active, Paying,
   IdleGate, IdlePayer

\* Nobody new at work.
LEMMA FewerAtWork ==
    ASSUME OneAtATime,
           \A g \in Gates : Active(g)' => Active(g),
           \A p \in Payers : Paying(p)' => Paying(p)
    PROVE  OneAtATime'
BY DEF OneAtATime

\* What neither changes the claims nor starts or ends a payer.
LEMMA QuietLedgers ==
    ASSUME LedgersTrue, UNCHANGED <<store, payer, incurred, settled>>, crashes' = 0 => crashes = 0
    PROVE  LedgersTrue'
BY DEF LedgersTrue, LedgerTrue, Truncated

\* A new claim, while nobody pays.
LEMMA AppendLedgers ==
    ASSUME TypeOK, AccountInv, LedgersTrue, \A p \in Payers : ~Paying(p),
           NEW id \in Nat \ incurred, NEW rc \in RiskClass,
           store' = Append(store, NewEntry(id, rc)),
           incurred' = incurred \union {id},
           UNCHANGED <<payer, settled, crashes>>
    PROVE  LedgersTrue'
<1>1. NewEntry(id, rc) \in Entry /\ NewEntry(id, rc).id = id
  BY DEF NewEntry, Entry
<1>2. store \in Seq(Entry)
  BY DEF LedgersTrue, LedgerTrue
<1>3. /\ store' \in Seq(Entry)
      /\ DOMAIN store = 1 .. Len(store)
      /\ DOMAIN store' = 1 .. Len(store) + 1
      /\ \A i \in 1 .. Len(store) : store'[i] = store[i]
      /\ store'[Len(store) + 1] = NewEntry(id, rc)
      /\ Len(store) \in Nat
  BY <1>1, <1>2
<1>4. ASSUME NEW i \in 1 .. Len(store)
      PROVE  store[i].id \in incurred
  <2>1. store[i] # Torn
    BY <1>2, TornAssumption
  <2>2. QED
    BY <1>3, <2>1 DEF AccountInv, StoreIsAccountable
<1>5. id \notin settled
  BY DEF LedgersTrue
<1>6. LedgerTrue(store, settled)'
  <2>1. ASSUME NEW i \in 1 .. Len(store) + 1, NEW j \in 1 .. Len(store) + 1,
               store'[i].id = store'[j].id
        PROVE  i = j
    <3>1. CASE i \in 1 .. Len(store) /\ j \in 1 .. Len(store)
      BY <1>3, <2>1, <3>1 DEF LedgersTrue, LedgerTrue
    <3>2. CASE i = Len(store) + 1 /\ j = Len(store) + 1
      BY <3>2
    <3>3. CASE \/ i \in 1 .. Len(store) /\ j = Len(store) + 1
               \/ j \in 1 .. Len(store) /\ i = Len(store) + 1
      BY <1>1, <1>3, <1>4, <2>1, <3>3
    <3>4. QED
      BY <1>3, <3>1, <3>2, <3>3
  <2>2. ASSUME NEW i \in 1 .. Len(store) + 1, store'[i].id \in settled
        PROVE  store'[i].paid
    <3>1. i \in 1 .. Len(store)
      BY <1>1, <1>3, <1>5, <2>2
    <3>2. QED
      BY <1>3, <2>2, <3>1 DEF LedgersTrue, LedgerTrue
  <2>3. QED
    BY <1>3, <2>1, <2>2 DEF LedgerTrue
<1>7. ASSUME crashes = 0
      PROVE  incurred' \subseteq Ids(store')
  <2>1. Truncated = {}
    BY DEF Truncated, Paying
  <2>2. incurred \subseteq Ids(store)
    BY <1>7, <2>1 DEF LedgersTrue
  <2>3. Ids(store) \subseteq Ids(store')
    BY <1>3 DEF Ids
  <2>4. id \in Ids(store')
    BY <1>1, <1>3 DEF Ids
  <2>5. QED
    BY <2>2, <2>3, <2>4
<1>8. \A p \in Payers : payer'[p].pc # "truncated"
  BY DEF Paying
<1>9. QED
  BY <1>6, <1>7, <1>8 DEF LedgersTrue

LEMMA GateExclusiveInv ==
    ASSUME TypeOK, AccountInv, PacketInv, Exclusive, ExclusiveInv, NEW g \in Gates,
           (\E rc \in Classes : StartGate(g, rc)) \/ GateProgress(g) \/ KillGate(g)
    PROVE  ExclusiveInv'
<1>1. OneAtATime /\ SnapshotsCurrent /\ LedgersTrue
  BY DEF ExclusiveInv
<1>2. gate \in [Gates -> GateState] /\ gate[g] \in GateState /\ crashes \in Nat
  BY DEF TypeOK
<1>3. CASE \E rc \in Classes : StartGate(g, rc)
  <2>1. PICK rc \in Classes : StartGate(g, rc)
    BY <1>3
  <2>2. /\ gate'[g].pc = "commands"
        /\ \A h \in Gates : h # g => gate'[h] = gate[h]
        /\ UNCHANGED <<store, payer, incurred, settled, crashes>>
    BY <1>2, <2>1 DEF StartGate, IdleGate
  <2>3. (\A h \in Gates : ~Active(h)) /\ (\A p \in Payers : ~Paying(p))
    BY <2>1 DEF StartGate, MayStart, Active, Paying
  <2>4. OneAtATime'
    BY <2>2, <2>3 DEF OneAtATime, Active, Paying
  <2>5. SnapshotsCurrent'
    BY <1>1, <2>2 DEF SnapshotsCurrent
  <2>6. LedgersTrue'
    BY <1>1, <2>2, QuietLedgers
  <2>7. QED
    BY <2>4, <2>5, <2>6 DEF ExclusiveInv
<1>4. ASSUME Active(g),
             \A h \in Gates : h # g => gate'[h] = gate[h],
             gate'[g].pc = "check" => gate'[g].snapshot = store,
             UNCHANGED <<store, payer, incurred, settled>>,
             crashes' = 0 => crashes = 0
      PROVE  ExclusiveInv'
  <2>1. OneAtATime'
    <3>1. \A h \in Gates : Active(h)' => Active(h)
      BY <1>4 DEF Active
    <3>2. \A p \in Payers : Paying(p)' => Paying(p)
      BY <1>4 DEF Paying
    <3>3. QED
      BY <1>1, <3>1, <3>2, FewerAtWork
  <2>2. SnapshotsCurrent'
    BY <1>1, <1>4 DEF SnapshotsCurrent
  <2>3. LedgersTrue'
    BY <1>1, <1>4, QuietLedgers
  <2>4. QED
    BY <2>1, <2>2, <2>3 DEF ExclusiveInv
<1>5. ASSUME NEW outcomes, RunCommands(g, outcomes)
      PROVE  ExclusiveInv'
  <2>1. /\ gate'[g].pc # "check"
        /\ \A h \in Gates : h # g => gate'[h] = gate[h]
        /\ UNCHANGED <<store, payer, incurred, settled, crashes>>
    BY <1>2, <1>5 DEF RunCommands, GateState
  <2>2. Active(g)
    BY <1>5 DEF RunCommands, Active
  <2>3. QED
    BY <1>4, <2>1, <2>2
<1>6. CASE LoadBudget(g)
  <2>1. Load(store) = store
    BY <1>1, LoadWhole DEF LedgersTrue, LedgerTrue
  <2>2. /\ gate'[g].snapshot = store
        /\ \A h \in Gates : h # g => gate'[h] = gate[h]
        /\ UNCHANGED <<store, payer, incurred, settled, crashes>>
    BY <1>2, <1>6, <2>1 DEF LoadBudget, GateState
  <2>3. Active(g)
    BY <1>6 DEF LoadBudget, Active
  <2>4. QED
    BY <1>4, <2>2, <2>3
<1>7. CASE BlockedByDebt(g) \/ BudgetError(g)
  <2>1. /\ gate'[g].pc = "packet"
        /\ \A h \in Gates : h # g => gate'[h] = gate[h]
        /\ UNCHANGED <<store, payer, incurred, settled, crashes>>
    BY <1>2, <1>7 DEF BlockedByDebt, BudgetError, Decide, GateState
  <2>2. Active(g)
    BY <1>7 DEF BlockedByDebt, BudgetError, Active
  <2>3. QED
    BY <1>4, <2>1, <2>2
<1>8. CASE IncurDebt(g)
  <2>1. /\ gate'[g].pc = "packet"
        /\ \A h \in Gates : h # g => gate'[h] = gate[h]
        /\ store' = Append(store, NewEntry(gate[g].run, gate[g].risk))
        /\ incurred' = incurred \union {gate[g].run}
        /\ UNCHANGED <<payer, settled, crashes>>
    BY <1>2, <1>8 DEF IncurDebt, Decide, GateState
  <2>2. Active(g) /\ gate[g].run \notin incurred
    BY <1>8 DEF IncurDebt, Active, PacketInv, VerdictsAgree
  <2>3. (\A p \in Payers : ~Paying(p)) /\ (\A h \in Gates : Active(h) => h = g)
    BY <1>1, <2>2 DEF OneAtATime
  <2>4. gate[g].run \in Nat \ incurred /\ gate[g].risk \in RiskClass
    BY <1>2, <2>2 DEF GateState
  <2>5. OneAtATime'
    BY <1>1, <2>1, <2>2, FewerAtWork DEF Active, Paying
  <2>6. SnapshotsCurrent'
    <3>1. \A h \in Gates : gate'[h].pc # "check"
      BY <2>1, <2>3 DEF Active
    <3>2. \A p \in Payers : payer'[p].pc \notin {"loaded", "truncated"}
      BY <2>1, <2>3 DEF Paying
    <3>3. QED
      BY <3>1, <3>2 DEF SnapshotsCurrent
  <2>7. LedgersTrue'
    BY <1>1, <2>1, <2>3, <2>4, AppendLedgers
  <2>8. QED
    BY <2>5, <2>6, <2>7 DEF ExclusiveInv
<1>9. CASE WritePacket(g) \/ KillGate(g)
  <2>1. /\ gate' = [gate EXCEPT ![g] = IdleGate]
        /\ UNCHANGED <<store, payer, incurred, settled>>
        /\ crashes' = 0 => crashes = 0
    BY <1>2, <1>9 DEF WritePacket, KillGate
  <2>2. gate'[g].pc = "idle" /\ \A h \in Gates : h # g => gate'[h] = gate[h]
    BY <1>2, <2>1 DEF IdleGate
  <2>3. Active(g)
    BY <1>9 DEF WritePacket, KillGate, Active
  <2>4. QED
    BY <1>4, <2>1, <2>2, <2>3
<1>10. QED
  BY <1>3, <1>5, <1>6, <1>7, <1>8, <1>9 DEF GateProgress

LEMMA DirectExclusiveInv ==
    ASSUME TypeOK, AccountInv, PacketInv, Exclusive, ExclusiveInv, NEW rc \in Classes, DirectIncur(rc)
    PROVE  ExclusiveInv'
<1>1. OneAtATime /\ SnapshotsCurrent /\ LedgersTrue
  BY DEF ExclusiveInv
<1>2. /\ store' = Append(store, NewEntry(runs + 1, rc))
      /\ incurred' = incurred \union {runs + 1}
      /\ UNCHANGED <<gate, payer, settled, crashes>>
  BY DEF DirectIncur
<1>3. (\A h \in Gates : ~Active(h)) /\ (\A p \in Payers : ~Paying(p))
  BY DEF DirectIncur, MayStart, Active, Paying
<1>4. runs + 1 \in Nat \ incurred /\ rc \in RiskClass
  <2>1. runs \in Nat /\ incurred \subseteq 1 .. runs
    BY DEF TypeOK, PacketInv, RunsDistinct
  <2>2. QED
    BY <2>1, GateAssumption
<1>5. OneAtATime'
  BY <1>2, <1>3 DEF OneAtATime, Active, Paying
<1>6. SnapshotsCurrent'
  BY <1>2, <1>3 DEF SnapshotsCurrent, Active, Paying
<1>7. LedgersTrue'
  BY <1>1, <1>2, <1>3, <1>4, AppendLedgers
<1>8. QED
  BY <1>5, <1>6, <1>7 DEF ExclusiveInv

\* What a payer is about to write is as true as what it loaded, and has its entry paid.
LEMMA MarkPaidLedger ==
    ASSUME NEW entries \in Seq(Entry), NEW id, NEW paidFor, LedgerTrue(entries, paidFor),
           Payable(entries, id) # {}
    PROVE  /\ LedgerTrue(MarkPaid(entries, id), paidFor \union {id})
           /\ Ids(MarkPaid(entries, id)) = Ids(entries)
<1>0. PICK k : OneMarked(MarkPaid(entries, id), entries, id, k)
  BY MarkPaidOne, Zenon
<1>1. /\ k \in 1 .. Len(entries)
      /\ entries[k].id = id
      /\ ~entries[k].paid
      /\ MarkPaid(entries, id) = [entries EXCEPT ![k] = [entries[k] EXCEPT !.paid = TRUE]]
  BY <1>0 DEF OneMarked
<1>. DEFINE new == MarkPaid(entries, id)
<1>2. /\ new \in Seq(Entry)
      /\ DOMAIN new = 1 .. Len(entries)
      /\ DOMAIN entries = 1 .. Len(entries)
      /\ \A i \in 1 .. Len(entries) : new[i].id = entries[i].id
  BY MarkPaidKeeps
<1>3. entries[k] \in Entry
  BY <1>1
<1>4. /\ new[k].paid
      /\ \A i \in 1 .. Len(entries) : i # k => new[i] = entries[i]
  BY <1>1, <1>3 DEF Entry
<1>. HIDE DEF new
<1>5. \A i, j \in 1 .. Len(entries) : new[i].id = new[j].id => i = j
  BY <1>2 DEF LedgerTrue
<1>6. ASSUME NEW i \in 1 .. Len(entries), new[i].id \in paidFor \union {id}
      PROVE  new[i].paid
  <2>1. CASE i = k
    BY <1>4, <2>1
  <2>2. CASE i # k
    <3>1. entries[i].id # id
      BY <1>1, <1>2, <2>2 DEF LedgerTrue
    <3>2. QED
      BY <1>2, <1>4, <1>6, <2>2, <3>1 DEF LedgerTrue
  <2>3. QED
    BY <2>1, <2>2
<1>7. Ids(new) = Ids(entries)
  BY <1>2 DEF Ids
<1>8. LedgerTrue(new, paidFor \union {id})
  BY <1>2, <1>5, <1>6 DEF LedgerTrue
<1>9. QED
  BY <1>7, <1>8 DEF new

LEMMA PayerExclusiveInv ==
    ASSUME TypeOK, AccountInv, Exclusive, ExclusiveInv, NEW p \in Payers,
           \/ \E id \in 1 .. runs : PayLoad(p, id)
           \/ PayProgress(p)
           \/ KillPayer(p)
    PROVE  ExclusiveInv'
<1>1. OneAtATime /\ SnapshotsCurrent /\ LedgersTrue
  BY DEF ExclusiveInv
<1>2. payer \in [Payers -> PayerState] /\ payer[p] \in PayerState /\ crashes \in Nat
  BY DEF TypeOK
<1>3. store \in Seq(Entry) /\ LedgerTrue(store, settled) /\ Load(store) = store
  BY <1>1, LoadWhole DEF LedgersTrue, LedgerTrue
<1>4. CASE \E id \in 1 .. runs : PayLoad(p, id)
  <2>1. PICK id \in 1 .. runs : PayLoad(p, id)
    BY <1>4
  <2>2. /\ payer'[p].pc \in {"done", "loaded"}
        /\ payer'[p].snapshot = store
        /\ \A q \in Payers : q # p => payer'[q] = payer[q]
        /\ UNCHANGED <<store, gate, incurred, settled, crashes>>
    BY <1>2, <1>3, <2>1 DEF PayLoad
  <2>3. (\A h \in Gates : ~Active(h)) /\ (\A q \in Payers : ~Paying(q))
    BY <2>1 DEF PayLoad, MayStart, Active, Paying
  <2>4. OneAtATime'
    <3>1. \A h \in Gates : ~Active(h)'
      BY <2>2, <2>3 DEF Active
    <3>2. \A q \in Payers : Paying(q)' => q = p
      BY <2>2, <2>3 DEF Paying
    <3>3. QED
      BY <3>1, <3>2 DEF OneAtATime
  <2>5. SnapshotsCurrent'
    BY <1>1, <2>2, <2>3 DEF SnapshotsCurrent, Paying
  <2>6. LedgersTrue'
    <3>1. \A q \in Payers : payer'[q].pc # "truncated"
      BY <2>2, <2>3 DEF Paying
    <3>2. Truncated = {}
      BY <2>3 DEF Truncated, Paying
    <3>3. QED
      BY <1>1, <2>2, <3>1, <3>2 DEF LedgersTrue, LedgerTrue
  <2>7. QED
    BY <2>4, <2>5, <2>6 DEF ExclusiveInv
<1>5. CASE PayTruncate(p)
  <2>. DEFINE marked == MarkPaid(store, payer[p].id)
  <2>1. payer[p].pc = "loaded" /\ payer[p].snapshot = store /\ Payable(store, payer[p].id) # {}
    BY <1>1, <1>5 DEF PayTruncate, SnapshotsCurrent, AccountInv, SnapshotsAccountable
  <2>2. /\ payer'[p].pc = "truncated"
        /\ payer'[p].id = payer[p].id
        /\ payer'[p].snapshot = marked
        /\ \A q \in Payers : q # p => payer'[q] = payer[q]
        /\ store' = <<>>
        /\ UNCHANGED <<gate, incurred, settled, crashes>>
    BY <1>2, <1>5, <2>1 DEF PayTruncate, PayerState
  <2>3. /\ LedgerTrue(marked, settled \union {payer[p].id})
        /\ Ids(marked) = Ids(store)
    BY <1>3, <2>1, MarkPaidLedger
  <2>. HIDE DEF marked
  <2>4. Paying(p)
    BY <2>1 DEF Paying
  <2>5. (\A h \in Gates : ~Active(h)) /\ (\A q \in Payers : Paying(q) => q = p)
    BY <1>1, <2>4 DEF OneAtATime
  <2>6. OneAtATime'
    BY <1>1, <2>2, <2>4, FewerAtWork DEF Active, Paying
  <2>7. SnapshotsCurrent'
    BY <2>2, <2>5 DEF SnapshotsCurrent, Active, Paying
  <2>8. payer[p].id \in incurred
    <3>1. PICK i \in 1 .. Len(store) : store[i].id = payer[p].id
      BY <1>3, <2>1 DEF Payable
    <3>2. store[i] # Torn
      BY <1>3, TornAssumption
    <3>3. QED
      BY <1>3, <3>1, <3>2 DEF AccountInv, StoreIsAccountable
  <2>9. crashes = 0 => incurred \subseteq Ids(marked)
    <3>1. Truncated = {}
      BY <2>1, <2>5 DEF Truncated, Paying
    <3>2. QED
      BY <1>1, <2>3, <3>1 DEF LedgersTrue
  <2>10. LedgerTrue(<<>>, settled)
    BY DEF LedgerTrue
  <2>11. \A q \in Payers : payer'[q].pc = "truncated" => q = p
    BY <2>2, <2>5 DEF Paying
  <2>12. Truncated' # {}
    BY <2>2 DEF Truncated
  <2>13. LedgersTrue'
    BY <1>1, <2>2, <2>3, <2>8, <2>9, <2>10, <2>11, <2>12 DEF LedgersTrue, LedgerTrue
  <2>14. QED
    BY <2>6, <2>7, <2>13 DEF ExclusiveInv
<1>6. ASSUME Paying(p), payer' = [payer EXCEPT ![p].pc = "done", ![p].snapshot = <<>>], UNCHANGED gate
      PROVE  /\ OneAtATime' /\ SnapshotsCurrent'
             /\ \A q \in Payers : ~Paying(q)'
             /\ \A q \in Payers : Paying(q) => q = p
  <2>1. /\ payer'[p].pc = "done"
        /\ \A q \in Payers : q # p => payer'[q] = payer[q]
    BY <1>2, <1>6 DEF PayerState
  <2>2. (\A h \in Gates : ~Active(h)) /\ (\A q \in Payers : Paying(q) => q = p)
    BY <1>1, <1>6 DEF OneAtATime
  <2>3. \A q \in Payers : ~Paying(q)'
    BY <2>1, <2>2 DEF Paying
  <2>4. OneAtATime'
    BY <1>1, <1>6, <2>3, FewerAtWork DEF Active
  <2>5. SnapshotsCurrent'
    BY <1>6, <2>2, <2>3 DEF SnapshotsCurrent, Active, Paying
  <2>6. QED
    BY <2>2, <2>3, <2>4, <2>5
<1>7. CASE PayWrite(p)
  <2>1. /\ payer[p].pc = "truncated"
        /\ payer' = [payer EXCEPT ![p].pc = "done", ![p].snapshot = <<>>]
        /\ store' \in Overlays(payer[p].snapshot, store)
        /\ settled' = settled \union {payer[p].id}
        /\ UNCHANGED <<gate, incurred, crashes>>
    BY <1>7 DEF PayWrite
  <2>2. store = <<>>
    BY <1>1, <2>1 DEF SnapshotsCurrent
  <2>3. store' = payer[p].snapshot
    BY <2>1, <2>2 DEF Overlays
  <2>4. Paying(p)
    BY <2>1 DEF Paying
  <2>5. \A q \in Payers : payer'[q].pc # "truncated"
    BY <1>6, <2>1, <2>4 DEF Paying
  <2>6. LedgersTrue'
    BY <1>1, <2>1, <2>3, <2>5 DEF LedgersTrue, LedgerTrue
  <2>7. QED
    BY <1>6, <2>1, <2>4, <2>6 DEF ExclusiveInv
<1>8. CASE KillPayer(p)
  <2>1. /\ payer' = [payer EXCEPT ![p].pc = "done", ![p].snapshot = <<>>]
        /\ crashes' # 0
        /\ UNCHANGED <<store, gate, incurred, settled>>
    BY <1>2, <1>8 DEF KillPayer
  <2>2. Paying(p)
    BY <1>8 DEF KillPayer, Paying
  <2>3. \A q \in Payers : payer'[q].pc # "truncated"
    BY <1>6, <2>1, <2>2 DEF Paying
  <2>4. LedgersTrue'
    BY <1>1, <2>1, <2>3 DEF LedgersTrue, LedgerTrue
  <2>5. QED
    BY <1>6, <2>1, <2>2, <2>4 DEF ExclusiveInv
<1>9. QED
  BY <1>4, <1>5, <1>7, <1>8 DEF PayProgress

LEMMA NextExclusiveInv == TypeOK /\ AccountInv /\ PacketInv /\ ExclusiveInv /\ [Next]_vars => ExclusiveInv'
<1>. SUFFICES ASSUME TypeOK, AccountInv, PacketInv, ExclusiveInv, [Next]_vars, Exclusive
              PROVE  ExclusiveInv'
  BY DEF ExclusiveInv
<1>1. CASE UNCHANGED vars \/ Tick
  <2>1. UNCHANGED <<store, gate, payer, incurred, settled, crashes>>
    BY <1>1 DEF vars, Tick
  <2>2. LedgersTrue'
    BY <2>1, QuietLedgers DEF ExclusiveInv
  <2>3. QED
    BY <2>1, <2>2 DEF ExclusiveInv, OneAtATime, SnapshotsCurrent, Active, Paying
<1>2. CASE \E g \in Gates : \/ \E rc \in Classes : StartGate(g, rc)
                           \/ GateProgress(g)
                           \/ KillGate(g)
  BY <1>2, GateExclusiveInv
<1>3. CASE \E rc \in Classes : DirectIncur(rc)
  BY <1>3, DirectExclusiveInv
<1>4. CASE \E p \in Payers : \/ \E id \in 1 .. runs : PayLoad(p, id)
                            \/ PayProgress(p)
                            \/ KillPayer(p)
  BY <1>4, PayerExclusiveInv
<1>5. QED
  BY <1>1, <1>2, <1>3, <1>4 DEF Next

\* Everything the theorems of one invocation at a time rest on.
LEMMA AllInvariants == Spec => [](TypeOK /\ AccountInv /\ PacketInv /\ ExclusiveInv)
BY InitTypeOK, NextTypeOK, InitAccountInv, NextAccountInv, InitPacketInv, NextPacketInv,
   InitExclusiveInv, NextExclusiveInv, PTL DEF Spec

\* Callers that run one process at a time lose no acknowledged entry, as long as
\* none of them is killed: a payer that dies between opening the file and closing
\* it takes the store with it.
THEOREM ExclusiveEntriesSurvive ==
    ASSUME Exclusive
    PROVE  Spec => [](crashes = 0 => EntriesSurvive)
<1>1. ExclusiveInv => (crashes = 0 => EntriesSurvive)
  <2>. SUFFICES ASSUME ExclusiveInv, crashes = 0, Truncated = {}
                PROVE  incurred \subseteq Recorded(store)
    BY DEF EntriesSurvive
  <2>1. LedgersTrue
    BY DEF ExclusiveInv
  <2>2. Load(store) = store
    BY <2>1, LoadWhole DEF LedgersTrue, LedgerTrue
  <2>3. QED
    BY <2>1, <2>2 DEF LedgersTrue, Recorded, Ids
<1>2. QED
  BY <1>1, AllInvariants, PTL

\* Under the same callers no payment that reported success is undone, whoever is
\* killed.
THEOREM ExclusivePaymentsStay ==
    ASSUME Exclusive
    PROVE  Spec => []PaidStaysPaid
<1>1. ExclusiveInv => PaidStaysPaid
  BY DEF ExclusiveInv, LedgersTrue, LedgerTrue, PaidStaysPaid
<1>2. QED
  BY <1>1, AllInvariants, PTL

-----------------------------------------------------------------------------
(* The gates implement the budget. *)

\* What the budget's counters are in terms of the store.
Owed == [rc \in RiskClass |-> UnpaidCount(Books, rc)]

\* Every claim of a list of entries can be counted.
LEMMA UnpaidEntries ==
    ASSUME NEW entries \in Seq(Entry), NEW rc
    PROVE  IsFiniteSet(Unpaid(entries, rc)) /\ UnpaidCount(entries, rc) \in Nat
<1>1. entries \in Seq(Line)
  BY DEF Line
<1>2. QED
  BY <1>1, UnpaidFinite

\* A payment lowers what is owed in one class by one.
LEMMA UnpaidMarked ==
    ASSUME NEW entries \in Seq(Entry), NEW new, NEW id, NEW k, OneMarked(new, entries, id, k),
           NEW rc \in RiskClass
    PROVE  /\ rc = entries[k].risk => UnpaidCount(entries, rc) > 0
           /\ UnpaidCount(new, rc) = IF rc = entries[k].risk THEN UnpaidCount(entries, rc) - 1
                                     ELSE UnpaidCount(entries, rc)
<1>1. k \in 1 .. Len(entries) /\ ~entries[k].paid /\ entries[k] \in Entry
  BY DEF OneMarked
<1>. DEFINE marked == [entries[k] EXCEPT !.paid = TRUE]
<1>2. marked \in Entry /\ marked.paid
  BY <1>1 DEF Entry
<1>. HIDE DEF marked
<1>3. /\ DOMAIN new = 1 .. Len(entries)
      /\ DOMAIN entries = 1 .. Len(entries)
      /\ new[k] = marked
      /\ \A i \in 1 .. Len(entries) : i # k => new[i] = entries[i]
  <2>1. new = [entries EXCEPT ![k] = marked]
    BY DEF OneMarked, marked
  <2>2. QED
    BY <1>1, <1>2, <2>1
<1>4. \A i \in 1 .. Len(entries) : entries[i] # Torn
  BY TornAssumption
<1>5. Unpaid(new, rc) = Unpaid(entries, rc) \ {k}
  BY <1>2, <1>3 DEF Unpaid
<1>6. rc = entries[k].risk <=> k \in Unpaid(entries, rc)
  BY <1>1, <1>3, <1>4 DEF Unpaid
<1>7. IsFiniteSet(Unpaid(entries, rc)) /\ UnpaidCount(entries, rc) \in Nat
  BY UnpaidEntries
<1>8. CASE rc = entries[k].risk
  <2>1. UnpaidCount(new, rc) = UnpaidCount(entries, rc) - 1
    BY <1>5, <1>6, <1>7, <1>8, FS_RemoveElement DEF UnpaidCount
  <2>2. UnpaidCount(entries, rc) # 0
    BY <1>6, <1>7, <1>8, FS_EmptySet DEF UnpaidCount
  <2>3. QED
    BY <1>7, <1>8, <2>1, <2>2
<1>9. CASE rc # entries[k].risk
  BY <1>5, <1>6, <1>9 DEF UnpaidCount
<1>10. QED
  BY <1>8, <1>9

LEMMA BudgetPromotes ==
    ASSUME TypeOK, NEW rc \in RiskClass,
           Owed[rc] < Threshold[rc],
           Owed' = [Owed EXCEPT ![rc] = Owed[rc] + 1],
           UNCHANGED direct
    PROVE  Budget!Next
<1>1. Budget!Promote(rc)
  BY DEF Budget!Promote, Owed
<1>2. QED
  BY <1>1 DEF Budget!Next

\* An entry is written for a gate that was allowed to, and nobody is paying.
LEMMA IncurKeepsBudget ==
    ASSUME TypeOK, Exclusive, ExclusiveInv,
           NEW g \in Gates, IncurDebt(g)
    PROVE  Budget!Next
<1>. DEFINE rc == gate[g].risk
<1>1. /\ gate \in [Gates -> GateState]
      /\ rc \in RiskClass
      /\ gate[g].run \in Nat
      /\ store \in Seq(Line)
      /\ direct \in [RiskClass -> Nat]
  BY DEF TypeOK, GateState
<1>2. /\ gate[g].pc = "check"
      /\ ~IsBlocked(gate[g].snapshot, rc)
      /\ store' = Append(store, NewEntry(gate[g].run, rc))
      /\ UNCHANGED <<payer, direct>>
  BY DEF IncurDebt
<1>3. Truncated = {}
  BY <1>2 DEF ExclusiveInv, OneAtATime, Active, Paying, Truncated
<1>4. Books = store /\ Books' = store'
  BY <1>2, <1>3 DEF Books, Truncated
<1>5. Owed' = [Owed EXCEPT ![rc] = Owed[rc] + 1]
  <2>1. \A other \in RiskClass :
            UnpaidCount(Books', other) = IF other = rc THEN UnpaidCount(Books, other) + 1
                                         ELSE UnpaidCount(Books, other)
    BY <1>1, <1>2, <1>4, UnpaidAppend
  <2>2. QED
    BY <1>1, <2>1 DEF Owed
<1>6. Owed[rc] < Threshold[rc]
  <2>1. Owed[rc] = UnpaidCount(store, rc) /\ UnpaidCount(store, rc) \in Nat
    BY <1>1, <1>4, UnpaidFinite DEF Owed
  <2>2. gate[g].snapshot = store
    BY <1>2 DEF ExclusiveInv, SnapshotsCurrent
  <2>3. Threshold[rc] \in Nat
    BY <1>1, ThresholdAssumption
  <2>4. QED
    BY <1>2, <2>1, <2>2, <2>3 DEF IsBlocked
<1>. HIDE DEF rc
<1>7. QED
  BY <1>1, <1>2, <1>5, <1>6, BudgetPromotes

LEMMA DirectKeepsBudget ==
    ASSUME TypeOK, Exclusive, NEW rc \in Classes, DirectIncur(rc)
    PROVE  Budget!Next
<1>1. /\ rc \in RiskClass
      /\ runs + 1 \in Nat
      /\ store \in Seq(Line)
      /\ direct \in [RiskClass -> Nat]
  BY GateAssumption DEF TypeOK
<1>2. /\ store' = Append(store, NewEntry(runs + 1, rc))
      /\ direct' = [direct EXCEPT ![rc] = direct[rc] + 1]
      /\ UNCHANGED payer
  BY DEF DirectIncur
<1>3. Truncated = {}
  BY DEF DirectIncur, MayStart, Truncated
<1>4. Books = store /\ Books' = store'
  BY <1>2, <1>3 DEF Books, Truncated
<1>5. Owed' = [Owed EXCEPT ![rc] = Owed[rc] + 1]
  <2>1. \A other \in RiskClass :
            UnpaidCount(Books', other) = IF other = rc THEN UnpaidCount(Books, other) + 1
                                         ELSE UnpaidCount(Books, other)
    BY <1>1, <1>2, <1>4, UnpaidAppend
  <2>2. QED
    BY <1>1, <2>1 DEF Owed
<1>6. Budget!Incur(rc)
  BY <1>2, <1>5 DEF Budget!Incur, Owed
<1>7. QED
  BY <1>1, <1>6 DEF Budget!Next

\* A payer that is at work alone: what it loads and writes is what is owed, and the
\* one change between the two is a settlement.
LEMMA PayerKeepsBudget ==
    ASSUME TypeOK, AccountInv, Exclusive, ExclusiveInv, MaxCrashes = 0, NEW p \in Payers,
           \/ \E id \in 1 .. runs : PayLoad(p, id)
           \/ PayProgress(p)
           \/ KillPayer(p)
    PROVE  [Budget!Next]_(Budget!vars)
<1>1. OneAtATime /\ SnapshotsCurrent /\ LedgersTrue
  BY DEF ExclusiveInv
<1>2. payer \in [Payers -> PayerState] /\ payer[p] \in PayerState /\ store \in Seq(Entry)
  BY <1>1 DEF TypeOK, LedgersTrue, LedgerTrue
<1>3. ASSUME Books' = Books, UNCHANGED direct
      PROVE  [Budget!Next]_(Budget!vars)
  BY <1>3 DEF Budget!vars
<1>4. CASE \E id \in 1 .. runs : PayLoad(p, id)
  <2>1. PICK id \in 1 .. runs : PayLoad(p, id)
    BY <1>4
  <2>2. /\ payer'[p].pc \in {"done", "loaded"}
        /\ \A q \in Payers : q # p => payer'[q] = payer[q]
        /\ UNCHANGED <<store, direct>>
    BY <1>2, <2>1 DEF PayLoad
  <2>3. \A q \in Payers : payer[q].pc # "truncated"
    BY <2>1 DEF PayLoad, MayStart
  <2>4. Truncated = {} /\ Truncated' = {}
    BY <2>2, <2>3 DEF Truncated
  <2>5. QED
    BY <1>3, <2>2, <2>4 DEF Books
<1>5. CASE PayTruncate(p)
  <2>. DEFINE marked == MarkPaid(store, payer[p].id)
  <2>1. payer[p].pc = "loaded" /\ payer[p].snapshot = store /\ Payable(store, payer[p].id) # {}
    BY <1>1, <1>5 DEF PayTruncate, SnapshotsCurrent, AccountInv, SnapshotsAccountable
  <2>2. /\ payer'[p].pc = "truncated"
        /\ payer'[p].snapshot = marked
        /\ \A q \in Payers : q # p => payer'[q] = payer[q]
        /\ UNCHANGED direct
    BY <1>2, <1>5, <2>1 DEF PayTruncate, PayerState
  <2>. HIDE DEF marked
  <2>3. \A q \in Payers : payer[q].pc # "truncated"
    BY <1>1, <2>1 DEF OneAtATime, Paying
  <2>4. Truncated = {} /\ Truncated' = {p}
    BY <2>2, <2>3 DEF Truncated
  <2>5. Books = store /\ Books' = marked
    BY <2>2, <2>4 DEF Books
  <2>6. PICK k : OneMarked(marked, store, payer[p].id, k)
    BY <1>2, <2>1, MarkPaidOne, Zenon DEF marked
  <2>7. store[k].risk \in RiskClass
    <3>1. k \in 1 .. Len(store)
      BY <2>6 DEF OneMarked
    <3>2. store[k] \in Entry
      BY <1>2, <3>1
    <3>3. QED
      BY <3>2 DEF Entry
  <2>8. \A rc \in RiskClass :
            /\ UnpaidCount(store, rc) \in Nat
            /\ rc = store[k].risk => UnpaidCount(store, rc) > 0
            /\ UnpaidCount(marked, rc) = IF rc = store[k].risk THEN UnpaidCount(store, rc) - 1
                                         ELSE UnpaidCount(store, rc)
    BY <1>2, <2>6, UnpaidMarked, UnpaidEntries
  <2>9. Owed' = [Owed EXCEPT ![store[k].risk] = Owed[store[k].risk] - 1]
    BY <2>5, <2>7, <2>8 DEF Owed
  <2>10. Owed[store[k].risk] > 0
    BY <2>5, <2>7, <2>8 DEF Owed
  <2>11. Budget!Settle(store[k].risk)
    BY <2>2, <2>9, <2>10 DEF Budget!Settle, Owed
  <2>12. QED
    BY <2>7, <2>11 DEF Budget!Next
<1>6. CASE PayWrite(p)
  <2>1. /\ payer[p].pc = "truncated"
        /\ payer' = [payer EXCEPT ![p].pc = "done", ![p].snapshot = <<>>]
        /\ store' \in Overlays(payer[p].snapshot, store)
        /\ UNCHANGED direct
    BY <1>6 DEF PayWrite
  <2>2. store = <<>>
    BY <1>1, <2>1 DEF SnapshotsCurrent
  <2>3. store' = payer[p].snapshot
    BY <2>1, <2>2 DEF Overlays
  <2>4. \A q \in Payers : payer[q].pc = "truncated" => q = p
    BY <1>1, <2>1 DEF OneAtATime, Paying
  <2>5. payer'[p].pc = "done" /\ \A q \in Payers : q # p => payer'[q] = payer[q]
    BY <1>2, <2>1 DEF PayerState
  <2>6. Truncated = {p} /\ Truncated' = {}
    BY <2>1, <2>4, <2>5 DEF Truncated
  <2>7. Books = payer[p].snapshot /\ Books' = store'
    BY <2>6 DEF Books
  <2>8. QED
    BY <1>3, <2>1, <2>3, <2>7
<1>7. CASE KillPayer(p)
  BY <1>7 DEF KillPayer, TypeOK
<1>8. QED
  BY <1>4, <1>5, <1>6, <1>7 DEF PayProgress

LEMMA StepKeepsBudget ==
    ASSUME Exclusive, MaxCrashes = 0,
           TypeOK, AccountInv, ExclusiveInv, [Next]_vars
    PROVE  [Budget!Next]_(Budget!vars)
<1>1. ASSUME UNCHANGED <<store, payer, direct>>
      PROVE  [Budget!Next]_(Budget!vars)
  <2>1. Books' = Books
    BY <1>1 DEF Books, Truncated
  <2>2. QED
    BY <1>1, <2>1 DEF Budget!vars
<1>2. CASE UNCHANGED vars \/ Tick
  BY <1>1, <1>2 DEF vars, Tick
<1>3. ASSUME NEW g \in Gates,
             \/ \E rc \in Classes : StartGate(g, rc)
             \/ GateProgress(g)
             \/ KillGate(g)
      PROVE  [Budget!Next]_(Budget!vars)
  <2>1. CASE IncurDebt(g)
    BY <2>1, IncurKeepsBudget
  <2>2. CASE ~IncurDebt(g)
    BY <1>1, <1>3, <2>2
       DEF StartGate, GateProgress, RunCommands, LoadBudget, BlockedByDebt, BudgetError,
           WritePacket, KillGate
  <2>3. QED
    BY <2>1, <2>2
<1>4. ASSUME NEW rc \in Classes, DirectIncur(rc)
      PROVE  [Budget!Next]_(Budget!vars)
  BY <1>4, DirectKeepsBudget
<1>5. ASSUME NEW p \in Payers,
             \/ \E id \in 1 .. runs : PayLoad(p, id)
             \/ PayProgress(p)
             \/ KillPayer(p)
      PROVE  [Budget!Next]_(Budget!vars)
  BY <1>5, PayerKeepsBudget
<1>6. QED
  BY <1>2, <1>3, <1>4, <1>5 DEF Next

LEMMA InitKeepsBudget == Init => Budget!Init
<1>. SUFFICES ASSUME Init
              PROVE  Budget!Init
  OBVIOUS
<1>1. Truncated = {}
  BY DEF Init, Truncated, IdlePayer
<1>2. Books = <<>>
  BY <1>1 DEF Init, Books
<1>3. \A rc \in RiskClass : UnpaidCount(Books, rc) = 0
  <2>1. \A rc \in RiskClass : Unpaid(<<>>, rc) = {}
    BY DEF Unpaid
  <2>2. QED
    BY <1>2, <2>1, FS_EmptySet DEF UnpaidCount
<1>4. QED
  BY <1>3 DEF Init, Budget!Init

\* The gates implement the budget of DebtBudget, when callers run one process at a
\* time and none is killed: whatever was incurred directly, rejected, paid or failed
\* before, a gate adds to a class only while it owes less than its threshold.
THEOREM GatesKeepTheBudget ==
    ASSUME Exclusive, MaxCrashes = 0
    PROVE  Spec => BudgetKept
<1>1. TypeOK /\ AccountInv /\ ExclusiveInv /\ [Next]_vars => [Budget!Next]_(Budget!vars)
  BY StepKeepsBudget
<1>2. Spec => [](TypeOK /\ AccountInv /\ ExclusiveInv)
  BY AllInvariants, PTL
<1>3. QED
  BY <1>1, <1>2, InitKeepsBudget, PTL DEF Spec, BudgetKept, Budget!Spec
=============================================================================
