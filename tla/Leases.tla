------------------------------- MODULE Leases -------------------------------
(***************************************************************************)
(* authority-delegation.py: leases are appended to a JSONL store and looked up *)
(* there.  Creators and verifiers are processes of their own.                *)
(*                                                                          *)
(* Time passes in halves of a second: what is finer than a second is cut off.  *)
(***************************************************************************)
EXTENDS Integers, Sequences, FiniteSets

CONSTANTS
    Delegates, Capabilities,
    Durations,      \* --duration-mins, in half seconds
    MaxTime,
    MaxLeases,      \* creators, and of them
    MaxTorn         \* those that die before they print

ASSUME LeaseAssumption ==
    /\ "garbage" \notin Delegates   \* see Garbage
    /\ Durations \subseteq Nat
    /\ {MaxTime, MaxLeases, MaxTorn} \subseteq Nat

VARIABLES time, leases, verifier

leaseVars == <<time, leases, verifier>>

\* `store` holds the lines of the file, `ended` unless the newline is missing, which only
\* the last one's can.  `granted` is history: the leases written, `kept` when the creator
\* printed it and its line is its own.
Garbage == [delegate |-> "garbage"]
NotReading == [pc |-> "idle"]

LeasesInit ==
    /\ time = 0
    /\ leases = [store |-> <<>>, granted |-> {}, asked |-> 0, torn |-> 0]
    /\ verifier = NotReading

Tick ==
    /\ time < MaxTime
    /\ time' = time + 1
    /\ UNCHANGED <<leases, verifier>>

-----------------------------------------------------------------------------
(* Leases.                                                                  *)

\* _iso: the whole seconds of a time.
Iso(t) == 2 * (t \div 2)

Unended(store) == store /= <<>> /\ ~store[Len(store)].ended

\* Mutant of Appended: a line is begun on a line of its own, whatever is before it.
AppendedBelow(store, line) == Append(store, line)

\* What an append makes of the file: a line without its end swallows the next one.
Appended(store, line) ==
    IF Unended(store)
    THEN [store EXCEPT ![Len(store)] = [lease |-> Garbage, ended |-> line.ended]]
    ELSE Append(store, line)

\* How far a creator comes: it prints what it wrote, or dies with the whole line
\* "written", with all of it but the newline ("unended"), or with a "piece" of it; a disk
\* that is full does the same.
WriteLease(d, caps, mins, end) ==
    LET lease == [delegate |-> d, capabilities |-> caps, expires |-> Iso(time + mins)]
        line == [lease |-> IF end = "piece" THEN Garbage ELSE lease,
                 ended |-> end \in {"printed", "written"}]
        grant == [lease |-> lease, from |-> time, until |-> time + mins,
                  kept |-> end = "printed" /\ ~Unended(leases.store)]
    IN leases' = [store |-> Appended(leases.store, line),
                  granted |-> leases.granted \union (IF end = "piece" THEN {} ELSE {grant}),
                  asked |-> leases.asked + 1,
                  torn |-> leases.torn + (IF end = "printed" THEN 0 ELSE 1)]

\* A license check that blocks ends the program before anything is written.
CreateLease ==
    /\ leases.asked < MaxLeases
    /\ \E d \in Delegates, caps \in SUBSET Capabilities, mins \in Durations :
          WriteLease(d, caps, mins, "printed")
    /\ UNCHANGED <<time, verifier>>

CutLease ==
    /\ leases.asked < MaxLeases /\ leases.torn < MaxTorn
    /\ \E d \in Delegates, caps \in SUBSET Capabilities, mins \in Durations,
          end \in {"written", "unended", "piece"} : WriteLease(d, caps, mins, end)
    /\ UNCHANGED <<time, verifier>>

\* Lines that do not parse are skipped.
ReadLeases ==
    /\ verifier.pc = "idle"
    /\ \E d \in Delegates, c \in Capabilities :
         verifier' = [pc |-> "decide", delegate |-> d, capability |-> c, at |-> time,
                      read |-> {l \in {leases.store[n].lease : n \in DOMAIN leases.store} :
                                    l.delegate = d}]
    /\ UNCHANGED <<time, leases>>

\* Mutant of IsExpired: the second in which a lease ends still belongs to it.
IsExpiredLate(lease) == Iso(time) > lease.expires

IsExpired(lease) == time >= lease.expires

\* Any lease of the delegate for the capability that is not expired will do; the
\* order by creation decides only which is found first.
VerifyLease ==
    /\ verifier.pc = "decide"
    /\ verifier' = [pc |-> "told", delegate |-> verifier.delegate, at |-> verifier.at,
                    capability |-> verifier.capability, now |-> time,
                    valid |-> \E l \in verifier.read :
                                 verifier.capability \in l.capabilities /\ ~IsExpired(l)]
    /\ UNCHANGED <<time, leases>>

Forget ==
    /\ verifier.pc = "told"
    /\ verifier' = NotReading
    /\ UNCHANGED <<time, leases>>

LeasesNext ==
    \/ Tick \/ CreateLease \/ CutLease \/ ReadLeases \/ VerifyLease \/ Forget

LeasesSpec == LeasesInit /\ [][LeasesNext]_leaseVars

-----------------------------------------------------------------------------
LeasesTypeOK ==
    /\ time \in 0..MaxTime
    /\ verifier.pc \in {"idle", "decide", "told"}
    /\ \A n \in 1..(Len(leases.store) - 1) : leases.store[n].ended

\* A lease holds for its duration and, times being cut to the second, up to a second
\* less, never longer: a verdict of "valid" is covered by a lease granted for that
\* capability, and a refusal means that none with a second left had been granted
\* before the store was read, unless its creator died before it said so or its line was
\* lost to one without an end.
VerdictsAreRight ==
    verifier.pc = "told" =>
        LET mine == {g \in leases.granted : /\ g.lease.delegate = verifier.delegate
                                            /\ verifier.capability \in g.lease.capabilities}
        IN IF verifier.valid
           THEN \E g \in mine : g.from <= verifier.now /\ verifier.now < g.until
           ELSE \A g \in mine :
                   g.kept /\ g.from < verifier.at => verifier.now > g.until - 2
=============================================================================
