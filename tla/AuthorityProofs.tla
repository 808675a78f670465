--------------------------- MODULE AuthorityProofs ---------------------------
(***************************************************************************)
(* Proofs about who may do what, for all their constants: PatchGate, whose   *)
(* promotions rest on checks that were made, and Leases, whose verdicts are    *)
(* covered by what was granted.                                             *)
(***************************************************************************)
EXTENDS PatchGate, Leases, SequenceTheorems, TLAPS

-----------------------------------------------------------------------------
(* Leases: the file.                                                        *)

LeaseRecords == [delegate : Delegates, capabilities : SUBSET Capabilities, expires : Nat]

LedgerLines == [lease : LeaseRecords \union {Garbage}, ended : BOOLEAN]

\* Only the last line may be without its end.
EndedLines(store) == \A n \in 1 .. (Len(store) - 1) : store[n].ended

LeasesTyped ==
    /\ time \in 0 .. MaxTime
    /\ leases.store \in Seq(LedgerLines)
    /\ verifier.pc \in {"idle", "decide", "told"}
    /\ EndedLines(leases.store)

\* What was granted is a lease that ends when it should, cut to the second.
GrantsAreLeases ==
    \A g \in leases.granted :
        /\ g.lease \in LeaseRecords
        /\ g.until \in Nat /\ g.lease.expires = Iso(g.until)
        /\ g.from \in Nat /\ g.from <= time

\* A lease in the file was granted ...
LinesWereGranted ==
    \A n \in DOMAIN leases.store :
        leases.store[n].lease # Garbage =>
            \E g \in leases.granted : g.lease = leases.store[n].lease

\* ... and what was granted and kept is in the file, on a line that has its end.
GrantsAreStored ==
    \A g \in leases.granted :
        g.kept => \E n \in DOMAIN leases.store :
                      leases.store[n].lease = g.lease /\ leases.store[n].ended

\* What a verifier has read is what had been granted before, and nothing else.
ReadWhatWasThere ==
    verifier.pc = "decide" =>
        /\ verifier.delegate \in Delegates
        /\ verifier.at \in Nat /\ verifier.at <= time
        /\ \A l \in verifier.read :
              \E g \in leases.granted : g.lease = l /\ l.delegate = verifier.delegate
        /\ \A g \in leases.granted :
              g.kept /\ g.lease.delegate = verifier.delegate /\ g.from < verifier.at
                  => g.lease \in verifier.read

ToldInTime ==
    verifier.pc = "told" =>
        verifier.at \in Nat /\ verifier.now \in Nat /\ verifier.at <= verifier.now
            /\ verifier.now <= time

LeasesInv ==
    /\ LeasesTyped /\ GrantsAreLeases /\ LinesWereGranted /\ GrantsAreStored
    /\ ReadWhatWasThere /\ ToldInTime /\ VerdictsAreRight

LEMMA IsoBounds ==
    ASSUME NEW t \in Nat
    PROVE  Iso(t) \in Nat /\ Iso(t) <= t /\ Iso(t) > t - 2
BY DEF Iso

\* A line that is no lease belongs to no delegate.
LEMMA GarbageIsNobodys ==
    /\ Garbage.delegate \notin Delegates
    /\ Garbage \notin LeaseRecords
<1>1. Garbage.delegate = "garbage"
  BY DEF Garbage
<1>2. QED
  BY <1>1, LeaseAssumption DEF LeaseRecords

\* Appending a line keeps the lines that have their end, and adds it or makes of it, and
\* of the line without one, one that is no lease.
KeepsLines(store, line, after) ==
    /\ \A n \in DOMAIN after :
          \/ n \in DOMAIN store /\ after[n] = store[n]
          \/ after[n] = line
          \/ after[n].lease = Garbage
    /\ \A n \in DOMAIN store : store[n].ended => n \in DOMAIN after /\ after[n] = store[n]
    /\ ~Unended(store) => \E n \in DOMAIN after : after[n] = line

LEMMA AppendedLines ==
    ASSUME NEW store \in Seq(LedgerLines), EndedLines(store), NEW line \in LedgerLines,
           NEW after, after = Appended(store, line)
    PROVE  after \in Seq(LedgerLines) /\ EndedLines(after) /\ KeepsLines(store, line, after)
<1>. USE DEF EndedLines, KeepsLines
<1>1. DOMAIN store = 1 .. Len(store) /\ Len(store) \in Nat
  OBVIOUS
<1>2. CASE Unended(store)
  <2>. DEFINE broken == [lease |-> Garbage, ended |-> line.ended]
  <2>1. after = [store EXCEPT ![Len(store)] = broken]
    BY <1>2 DEF Appended
  <2>2. broken \in LedgerLines /\ broken.lease = Garbage
    BY DEF LedgerLines
  <2>. HIDE DEF broken
  <2>3. after \in Seq(LedgerLines) /\ Len(after) = Len(store)
    <3>1. Len(store) \in 1 .. Len(store)
      <4>1. store # <<>>
        BY <1>2 DEF Unended
      <4>2. Len(store) # 0
        BY <4>1, EmptySeq
      <4>3. QED
        BY <1>1, <4>2
    <3>2. QED
      BY <2>1, <2>2, <3>1, ExceptSeq
  <2>4. \A n \in DOMAIN store : n \in DOMAIN after
            /\ after[n] = IF n = Len(store) THEN broken ELSE store[n]
    BY <1>1, <2>1
  <2>5. DOMAIN after = DOMAIN store
    BY <2>1
  <2>6. ~store[Len(store)].ended
    BY <1>2 DEF Unended
  <2>7. QED
    BY <1>1, <1>2, <2>2, <2>3, <2>4, <2>5, <2>6
<1>3. CASE ~Unended(store)
  <2>1. after = Append(store, line)
    BY <1>3 DEF Appended
  <2>2. after \in Seq(LedgerLines) /\ Len(after) = Len(store) + 1 /\ DOMAIN after = 1 .. Len(store) + 1
    BY <2>1
  <2>3. \A n \in 1 .. Len(store) : after[n] = store[n]
    BY <1>1, <2>1
  <2>4. after[Len(store) + 1] = line
    BY <1>1, <2>1
  <2>5. \A n \in 1 .. Len(store) : store[n].ended
    <3>1. store # <<>> => store[Len(store)].ended
      BY <1>3 DEF Unended
    <3>2. ASSUME NEW n \in 1 .. Len(store)
          PROVE  n \in 1 .. (Len(store) - 1) \/ (n = Len(store) /\ store # <<>>)
      <4>1. store # <<>>
        OBVIOUS
      <4>. DEFINE N == Len(store)
      <4>2. N \in Nat /\ n \in 1 .. N
        BY <1>1
      <4>. HIDE DEF N
      <4>3. n \in 1 .. (N - 1) \/ n = N
        BY <4>2
      <4>4. QED
        BY <4>1, <4>3 DEF N
    <3>3. QED
      BY <3>1, <3>2
  <2>6. QED
    BY <1>1, <1>3, <2>2, <2>3, <2>4, <2>5
<1>4. QED
  BY <1>2, <1>3

-----------------------------------------------------------------------------
(* Leases: the steps.                                                       *)

LEMMA InitLeasesInv == LeasesInit => LeasesInv
<1>. SUFFICES ASSUME LeasesInit
              PROVE  LeasesInv
  OBVIOUS
<1>1. /\ time = 0 /\ leases.store = <<>> /\ leases.granted = {} /\ verifier.pc = "idle"
  BY DEF LeasesInit, NotReading
<1>2. LeasesTyped
  <2>1. leases.store \in Seq(LedgerLines) /\ Len(leases.store) = 0 /\ DOMAIN leases.store = {}
    BY <1>1, EmptySeq
  <2>2. 0 \in 0 .. MaxTime
    BY LeaseAssumption
  <2>3. QED
    BY <1>1, <2>1, <2>2 DEF LeasesTyped, EndedLines
<1>3. DOMAIN leases.store = {}
  BY <1>1
<1>4. QED
  BY <1>1, <1>2, <1>3 DEF LeasesInv, GrantsAreLeases, LinesWereGranted, GrantsAreStored,
     ReadWhatWasThere, ToldInTime, VerdictsAreRight

LEMMA TickInv == LeasesInv /\ Tick => LeasesInv'
<1>. SUFFICES ASSUME LeasesInv, Tick
              PROVE  LeasesInv'
  OBVIOUS
<1>1. time' = time + 1 /\ leases' = leases /\ verifier' = verifier /\ time < MaxTime
  BY DEF Tick
<1>2. time \in 0 .. MaxTime /\ time \in Nat /\ MaxTime \in Nat
  BY LeaseAssumption DEF LeasesInv, LeasesTyped
<1>3. time' \in 0 .. MaxTime /\ \A t \in Nat : t <= time => t <= time'
  BY <1>1, <1>2
<1>4. LeasesTyped' /\ GrantsAreLeases' /\ LinesWereGranted' /\ GrantsAreStored'
  BY <1>1, <1>3 DEF LeasesInv, LeasesTyped, GrantsAreLeases, LinesWereGranted, GrantsAreStored
<1>5. ReadWhatWasThere' /\ ToldInTime' /\ VerdictsAreRight'
  BY <1>1, <1>3 DEF LeasesInv, ReadWhatWasThere, ToldInTime, VerdictsAreRight
<1>6. QED
  BY <1>4, <1>5 DEF LeasesInv

\* A creator keeps the invariant, however far it comes.
LEMMA WriteInv ==
    ASSUME LeasesInv, UNCHANGED <<time, verifier>>,
           NEW d \in Delegates, NEW caps \in SUBSET Capabilities, NEW mins \in Durations,
           NEW end \in {"printed", "written", "unended", "piece"}, WriteLease(d, caps, mins, end)
    PROVE  LeasesInv'
<1>. DEFINE lease == [delegate |-> d, capabilities |-> caps, expires |-> Iso(time + mins)]
            line == [lease |-> IF end = "piece" THEN Garbage ELSE lease,
                     ended |-> end \in {"printed", "written"}]
            grant == [lease |-> lease, from |-> time, until |-> time + mins,
                      kept |-> end = "printed" /\ ~Unended(leases.store)]
            store == leases.store
            after == Appended(store, line)
            grants == leases.granted \union (IF end = "piece" THEN {} ELSE {grant})
<1>1. leases'.store = after /\ leases'.granted = grants
  BY DEF WriteLease
<1>2. /\ LeasesTyped /\ GrantsAreLeases /\ LinesWereGranted /\ GrantsAreStored
      /\ ReadWhatWasThere /\ ToldInTime /\ VerdictsAreRight
      /\ time \in Nat /\ store \in Seq(LedgerLines) /\ EndedLines(store)
  BY LeaseAssumption DEF LeasesInv, LeasesTyped
<1>3. time + mins \in Nat
  BY <1>2, LeaseAssumption
<1>4. lease \in LeaseRecords /\ lease.expires = Iso(time + mins)
  BY <1>3, IsoBounds DEF LeaseRecords
<1>5. /\ grant.lease = lease /\ grant.from = time /\ grant.until = time + mins
      /\ grant.kept = (end = "printed" /\ ~Unended(store))
  OBVIOUS
<1>. HIDE DEF lease
<1>6. /\ line \in LedgerLines
      /\ line.lease = (IF end = "piece" THEN Garbage ELSE lease)
      /\ end = "printed" => line.lease = lease /\ line.ended
  <2>1. (end \in {"printed", "written"}) \in BOOLEAN
    OBVIOUS
  <2>2. (IF end = "piece" THEN Garbage ELSE lease) \in LeaseRecords \union {Garbage}
    BY <1>4
  <2>3. /\ line.lease = (IF end = "piece" THEN Garbage ELSE lease)
        /\ line.ended = (end \in {"printed", "written"})
    OBVIOUS
  <2>4. line \in LedgerLines
    BY <2>1, <2>2 DEF LedgerLines
  <2>5. QED
    BY <2>3, <2>4
<1>. HIDE DEF grant, line
<1>7. after \in Seq(LedgerLines) /\ EndedLines(after) /\ KeepsLines(store, line, after)
  <2>1. after = Appended(store, line)
    OBVIOUS
  <2>. HIDE DEF after, store
  <2>2. QED
    BY <1>2, <1>6, <2>1, AppendedLines
<1>8. \A g \in grants : g \in leases.granted \/ (g = grant /\ end # "piece")
  OBVIOUS
<1>9. /\ \A g \in leases.granted : g \in grants
      /\ end # "piece" => grant \in grants
  OBVIOUS
<1>. HIDE DEF after, store, grants
<1>10. LeasesTyped'
  BY <1>1, <1>2, <1>7 DEF LeasesTyped
<1>11. GrantsAreLeases'
  BY <1>1, <1>2, <1>3, <1>4, <1>5, <1>8 DEF GrantsAreLeases
<1>12. LinesWereGranted'
  <2>1. ASSUME NEW n \in DOMAIN after, after[n].lease # Garbage
        PROVE  \E g \in grants : g.lease = after[n].lease
    <3>1. CASE n \in DOMAIN store /\ after[n] = store[n]
      BY <1>2, <1>9, <2>1, <3>1 DEF LinesWereGranted, store
    <3>2. CASE after[n] = line
      BY <1>5, <1>6, <1>9, <2>1, <3>2
    <3>3. QED
      BY <1>7, <2>1, <3>1, <3>2 DEF KeepsLines
  <2>2. QED
    BY <1>1, <2>1 DEF LinesWereGranted
<1>13. GrantsAreStored'
  <2>1. ASSUME NEW g \in leases.granted, g.kept
        PROVE  \E n \in DOMAIN after : after[n].lease = g.lease /\ after[n].ended
    <3>1. PICK n \in DOMAIN store : store[n].lease = g.lease /\ store[n].ended
      BY <1>2, <2>1 DEF GrantsAreStored, store
    <3>2. QED
      BY <1>7, <3>1 DEF KeepsLines
  <2>2. grant.kept => \E n \in DOMAIN after : after[n].lease = grant.lease /\ after[n].ended
    BY <1>5, <1>6, <1>7 DEF KeepsLines
  <2>3. QED
    BY <1>1, <1>8, <2>1, <2>2 DEF GrantsAreStored
<1>14. ReadWhatWasThere'
  <2>. SUFFICES ASSUME verifier.pc = "decide"
                PROVE  /\ verifier.delegate \in Delegates
                       /\ verifier.at \in Nat /\ verifier.at <= time
                       /\ \A l \in verifier.read :
                             \E g \in grants : g.lease = l /\ l.delegate = verifier.delegate
                       /\ \A g \in grants :
                             g.kept /\ g.lease.delegate = verifier.delegate
                                    /\ g.from < verifier.at
                                 => g.lease \in verifier.read
    BY <1>1 DEF ReadWhatWasThere
  <2>1. verifier.at \in Nat /\ verifier.at <= time
    BY <1>2 DEF ReadWhatWasThere
  <2>2. ~(grant.from < verifier.at)
    BY <1>2, <1>5, <2>1
  <2>3. QED
    BY <1>2, <1>8, <1>9, <2>1, <2>2 DEF ReadWhatWasThere
<1>15. ToldInTime'
  BY <1>2 DEF ToldInTime
<1>16. VerdictsAreRight'
  <2>. DEFINE Mine(g) == /\ g.lease.delegate = verifier.delegate
                         /\ verifier.capability \in g.lease.capabilities
  <2>. SUFFICES ASSUME verifier.pc = "told"
                PROVE  IF verifier.valid
                       THEN \E g \in grants :
                               Mine(g) /\ g.from <= verifier.now /\ verifier.now < g.until
                       ELSE \A g \in grants :
                               Mine(g) /\ g.kept /\ g.from < verifier.at
                                   => verifier.now > g.until - 2
    BY <1>1 DEF VerdictsAreRight
  <2>1. /\ verifier.at \in Nat /\ verifier.now \in Nat /\ verifier.at <= verifier.now
        /\ verifier.now <= time
    BY <1>2 DEF ToldInTime
  <2>2. ~(grant.from < verifier.at)
    BY <1>2, <1>5, <2>1
  <2>3. IF verifier.valid
        THEN \E g \in leases.granted :
                Mine(g) /\ g.from <= verifier.now /\ verifier.now < g.until
        ELSE \A g \in leases.granted :
                Mine(g) /\ g.kept /\ g.from < verifier.at => verifier.now > g.until - 2
    BY <1>2 DEF VerdictsAreRight
  <2>. HIDE DEF Mine
  <2>4. QED
    BY <1>8, <1>9, <2>2, <2>3
<1>17. QED
  BY <1>10, <1>11, <1>12, <1>13, <1>14, <1>15, <1>16 DEF LeasesInv

LEMMA CreateLeaseInv == LeasesInv /\ CreateLease => LeasesInv'
BY WriteInv DEF CreateLease

LEMMA CutLeaseInv == LeasesInv /\ CutLease => LeasesInv'
BY WriteInv DEF CutLease

LEMMA ReadLeasesInv == LeasesInv /\ ReadLeases => LeasesInv'
<1>. SUFFICES ASSUME LeasesInv, ReadLeases
              PROVE  LeasesInv'
  OBVIOUS
<1>1. PICK d \in Delegates, c \in Capabilities :
        verifier' = [pc |-> "decide", delegate |-> d, capability |-> c, at |-> time,
                     read |-> {l \in {leases.store[n].lease : n \in DOMAIN leases.store} :
                                  l.delegate = d}]
  BY DEF ReadLeases
<1>. DEFINE read == {l \in {leases.store[n].lease : n \in DOMAIN leases.store} : l.delegate = d}
<1>2. \A l : l \in read <=> \E n \in DOMAIN leases.store :
                  leases.store[n].lease = l /\ l.delegate = d
  OBVIOUS
<1>. HIDE DEF read
<1>3. /\ verifier'.pc = "decide" /\ verifier'.delegate = d /\ verifier'.at = time
      /\ verifier'.read = read
  BY <1>1 DEF read
<1>4. /\ leases' = leases /\ time' = time
      /\ LeasesTyped /\ GrantsAreLeases /\ LinesWereGranted /\ GrantsAreStored
  BY DEF ReadLeases, LeasesInv
<1>5. time \in Nat /\ time <= time
  BY <1>4, LeaseAssumption DEF LeasesTyped
<1>6. \A l \in read : \E g \in leases.granted : g.lease = l /\ l.delegate = d
  BY <1>2, <1>4, GarbageIsNobodys DEF LinesWereGranted
<1>7. \A g \in leases.granted : g.kept /\ g.lease.delegate = d => g.lease \in read
  BY <1>2, <1>4 DEF GrantsAreStored
<1>8. ReadWhatWasThere'
  BY <1>3, <1>4, <1>5, <1>6, <1>7 DEF ReadWhatWasThere
<1>9. LeasesTyped' /\ GrantsAreLeases' /\ LinesWereGranted' /\ GrantsAreStored'
  BY <1>3, <1>4 DEF LeasesTyped, GrantsAreLeases, LinesWereGranted, GrantsAreStored
<1>10. ToldInTime' /\ VerdictsAreRight'
  BY <1>3 DEF ToldInTime, VerdictsAreRight
<1>11. QED
  BY <1>8, <1>9, <1>10 DEF LeasesInv

LEMMA VerifyLeaseInv == LeasesInv /\ VerifyLease => LeasesInv'
<1>. SUFFICES ASSUME LeasesInv, VerifyLease
              PROVE  LeasesInv'
  OBVIOUS
<1>. DEFINE covers(l) == verifier.capability \in l.capabilities /\ ~IsExpired(l)
<1>1. /\ verifier'.pc = "told" /\ verifier'.delegate = verifier.delegate
      /\ verifier'.at = verifier.at /\ verifier'.capability = verifier.capability
      /\ verifier'.now = time /\ verifier'.valid = \E l \in verifier.read : covers(l)
      /\ leases' = leases /\ time' = time
  BY DEF VerifyLease
<1>2. /\ LeasesTyped /\ GrantsAreLeases /\ LinesWereGranted /\ GrantsAreStored
      /\ ReadWhatWasThere /\ verifier.pc = "decide" /\ time \in Nat
  BY LeaseAssumption DEF VerifyLease, LeasesInv, LeasesTyped
<1>3. /\ verifier.at \in Nat /\ verifier.at <= time
      /\ \A l \in verifier.read :
            \E g \in leases.granted : g.lease = l /\ l.delegate = verifier.delegate
      /\ \A g \in leases.granted :
            g.kept /\ g.lease.delegate = verifier.delegate /\ g.from < verifier.at
                => g.lease \in verifier.read
  BY <1>2 DEF ReadWhatWasThere
<1>4. \A g \in leases.granted :
          /\ g.from <= time /\ g.until \in Nat
          /\ IsExpired(g.lease) <=> time >= Iso(g.until)
          /\ Iso(g.until) \in Nat /\ Iso(g.until) <= g.until /\ Iso(g.until) > g.until - 2
  BY <1>2, IsoBounds DEF GrantsAreLeases, IsExpired
<1>5. CASE \E l \in verifier.read : covers(l)
  <2>1. PICK l \in verifier.read : covers(l)
    BY <1>5
  <2>2. PICK g \in leases.granted : g.lease = l /\ l.delegate = verifier.delegate
    BY <1>3
  <2>3. time < g.until
    BY <1>2, <1>4, <2>1, <2>2
  <2>4. VerdictsAreRight'
    BY <1>1, <1>4, <1>5, <2>1, <2>2, <2>3 DEF VerdictsAreRight
  <2>5. QED
    BY <1>1, <1>2, <1>3, <2>4 DEF LeasesInv, LeasesTyped, GrantsAreLeases, LinesWereGranted,
       GrantsAreStored, ReadWhatWasThere, ToldInTime
<1>6. CASE ~\E l \in verifier.read : covers(l)
  <2>1. ASSUME NEW g \in leases.granted, g.lease.delegate = verifier.delegate,
               verifier.capability \in g.lease.capabilities, g.kept, g.from < verifier.at
        PROVE  time > g.until - 2
    <3>1. g.lease \in verifier.read
      BY <1>3, <2>1
    <3>2. time >= Iso(g.until)
      BY <1>4, <1>6, <2>1, <3>1
    <3>3. QED
      BY <1>2, <1>4, <3>2
  <2>2. VerdictsAreRight'
    BY <1>1, <1>6, <2>1 DEF VerdictsAreRight
  <2>3. QED
    BY <1>1, <1>2, <1>3, <2>2 DEF LeasesInv, LeasesTyped, GrantsAreLeases, LinesWereGranted,
       GrantsAreStored, ReadWhatWasThere, ToldInTime
<1>7. QED
  BY <1>5, <1>6

LEMMA NextLeasesInv == LeasesInv /\ [LeasesNext]_leaseVars => LeasesInv'
<1>. SUFFICES ASSUME LeasesInv, [LeasesNext]_leaseVars
              PROVE  LeasesInv'
  OBVIOUS
<1>1. CASE Forget \/ UNCHANGED leaseVars
  <2>1. time' = time /\ leases' = leases /\ (verifier' = verifier \/ verifier'.pc = "idle")
    BY <1>1 DEF Forget, leaseVars, NotReading
  <2>2. LeasesTyped' /\ GrantsAreLeases' /\ LinesWereGranted' /\ GrantsAreStored'
    BY <2>1 DEF LeasesInv, LeasesTyped, GrantsAreLeases, LinesWereGranted, GrantsAreStored
  <2>3. ReadWhatWasThere' /\ ToldInTime' /\ VerdictsAreRight'
    BY <2>1 DEF LeasesInv, ReadWhatWasThere, ToldInTime, VerdictsAreRight
  <2>4. QED
    BY <2>2, <2>3 DEF LeasesInv
<1>2. QED
  BY <1>1, TickInv, CreateLeaseInv, CutLeaseInv, ReadLeasesInv, VerifyLeaseInv DEF LeasesNext

LEMMA LeasesInvariant == LeasesSpec => []LeasesInv
BY InitLeasesInv, NextLeasesInv, PTL DEF LeasesSpec

\* A line without its end is the last one of the file: nothing begins behind it.
THEOREM LeasesTypeCorrect == LeasesSpec => []LeasesTypeOK
<1>1. LeasesInv => LeasesTypeOK
  BY DEF LeasesInv, LeasesTyped, LeasesTypeOK, EndedLines
<1>2. QED
  BY <1>1, LeasesInvariant, PTL

\* However leases are written, cut short and read while time passes, a verdict of
\* "valid" is covered by a grant, and a refusal overlooks no grant with a second left
\* but one whose creator died before it said so, or whose line was swallowed.
THEOREM VerdictsAreCovered == LeasesSpec => []VerdictsAreRight
<1>1. LeasesInv => VerdictsAreRight
  BY DEF LeasesInv
<1>2. QED
  BY <1>1, LeasesInvariant, PTL

-----------------------------------------------------------------------------
(* Patches: the inductive invariant.                                        *)

\* What a file says is so.
FileTrue(f) ==
    /\ f.kind \in {"ci", "verify", "bench"}
    /\ f.kind = "ci" => \E code : f.codes = <<code>>
    /\ f.kind # "ci" /\ f.disposition = "promote" => \A n \in DOMAIN f.codes : f.codes[n] = 0
    /\ f.kind = "verify" /\ f.disposition = "promote" /\ ~f.raced /\ f.commit # <<>>
           => Works(f.commit)

\* What has been copied is the tree and the commit, and what has been checked was that,
\* as long as nothing has changed.
CheckTrue(w) ==
    /\ w.pc = "copy" /\ ~w.raced =>
          /\ repo.tree = repo.head
          /\ w.sandbox = [i \in DOMAIN w.sandbox |-> repo.tree[i]]
    /\ w.pc = "receipt" /\ ~w.raced =>
          /\ repo.tree = repo.head
          /\ \E code : w.codes = <<code>> /\ (code = 0 => Works(repo.tree))

WorkTyped(w) ==
    /\ w = [pc |-> w.pc, mcp |-> w.mcp, sandbox |-> w.sandbox, codes |-> w.codes,
            timedOut |-> w.timedOut, receipt |-> w.receipt, raced |-> w.raced]
    /\ w.pc \in {"idle", "copy", "receipt", "bench"}
    /\ w.raced \in BOOLEAN

PatchTyped ==
    /\ repo = [tree |-> repo.tree, head |-> repo.head, edits |-> repo.edits]
    /\ repo.tree \in Trees /\ repo.head \in Trees
    /\ DOMAIN work = Runs
    /\ disk = [files |-> disk.files, sandboxes |-> disk.sandboxes, killed |-> disk.killed]
    /\ disk.sandboxes \subseteq Runs
    /\ packet = [pc |-> packet.pc, todo |-> packet.todo, commands |-> packet.commands,
                 disposition |-> packet.disposition]
    /\ packet.pc \in {"idle", "read", "joined"}

PacketTrue ==
    /\ \A c \in packet.commands : FileTrue(c)
    /\ packet.pc = "read" => packet.todo \subseteq DOMAIN disk.files
    /\ packet.pc = "joined" => FileTrue(packet.disposition)

PatchInv ==
    /\ PatchTyped
    /\ \A r \in Runs : WorkTyped(work[r]) /\ CheckTrue(work[r])
    /\ work = [r \in Runs |-> work[r]]
    /\ \A name \in DOMAIN disk.files : FileTrue(disk.files[name])
    /\ PacketTrue
    /\ SandboxesRemoved

LEMMA WaitingTrue == WorkTyped(Waiting) /\ CheckTrue(Waiting)
BY DEF Waiting, WorkTyped, CheckTrue

LEMMA WaitingFields ==
    /\ Waiting = [pc |-> Waiting.pc, mcp |-> Waiting.mcp, sandbox |-> Waiting.sandbox,
                  codes |-> Waiting.codes, timedOut |-> Waiting.timedOut,
                  receipt |-> Waiting.receipt, raced |-> Waiting.raced]
    /\ Waiting.pc = "idle" /\ Waiting.sandbox = <<>> /\ Waiting.raced = FALSE
BY DEF Waiting

LEMMA InitPatchInv == PatchInit => PatchInv
<1>. SUFFICES ASSUME PatchInit
              PROVE  PatchInv
  OBVIOUS
<1>1. PICK t \in Trees : repo = [tree |-> t, head |-> t, edits |-> 0]
  BY DEF PatchInit
<1>2. /\ disk.files = <<>> /\ disk.sandboxes = {} /\ disk.killed = {}
      /\ disk = [files |-> disk.files, sandboxes |-> disk.sandboxes, killed |-> disk.killed]
  BY DEF PatchInit
<1>3. /\ packet.pc = "idle" /\ packet.commands = {}
      /\ packet = [pc |-> packet.pc, todo |-> packet.todo, commands |-> packet.commands,
                   disposition |-> packet.disposition]
  BY DEF PatchInit, NoPacket
<1>4. /\ work = [r \in Runs |-> work[r]] /\ DOMAIN work = Runs
      /\ \A r \in Runs : work[r] = Waiting
  BY DEF PatchInit
<1>5. DOMAIN disk.files = {}
  BY <1>2
<1>6. PatchTyped
  BY <1>1, <1>2, <1>3, <1>4 DEF PatchTyped
<1>7. \A r \in Runs : WorkTyped(work[r]) /\ CheckTrue(work[r])
  BY <1>4, WaitingTrue
<1>8. PacketTrue /\ SandboxesRemoved
  BY <1>2, <1>3 DEF PacketTrue, SandboxesRemoved
<1>9. QED
  BY <1>4, <1>5, <1>6, <1>7, <1>8 DEF PatchInv

-----------------------------------------------------------------------------
(* Patches: the steps.                                                      *)

\* A step of one process, with what it does to the disk.
LEMMA WorkStep ==
    ASSUME PatchInv, NEW r \in Runs, NEW next, WorkTyped(next), CheckTrue(next),
           work' = [work EXCEPT ![r] = next], repo' = repo, packet' = packet,
           disk' = [files |-> disk'.files, sandboxes |-> disk'.sandboxes,
                    killed |-> disk'.killed],
           DOMAIN disk.files \subseteq DOMAIN disk'.files,
           \A name \in DOMAIN disk'.files : FileTrue(disk'.files[name]),
           disk'.sandboxes \subseteq disk.sandboxes \union {r},
           disk.killed \subseteq disk'.killed,
           r \in disk'.sandboxes => next.pc # "idle" \/ r \in disk'.killed
    PROVE  PatchInv'
<1>1. /\ PatchTyped /\ PacketTrue /\ SandboxesRemoved
      /\ \A s \in Runs : WorkTyped(work[s]) /\ CheckTrue(work[s])
      /\ work = [s \in Runs |-> work[s]]
      /\ DOMAIN work = Runs
  BY DEF PatchInv, PatchTyped
<1>2. \A s \in Runs : work'[s] = IF s = r THEN next ELSE work[s]
  BY <1>1
<1>3. DOMAIN work' = Runs /\ work' = [s \in Runs |-> work'[s]]
  BY <1>1
<1>4. \A s \in Runs : WorkTyped(work'[s]) /\ CheckTrue(work'[s])
  BY <1>1, <1>2
<1>5. \A s \in Runs : (WorkTyped(work[s]) /\ CheckTrue(work[s]))'
  BY <1>4 DEF WorkTyped, CheckTrue
<1>6. PatchTyped'
  BY <1>1, <1>3 DEF PatchTyped
<1>7. PacketTrue'
  BY <1>1 DEF PacketTrue, FileTrue
<1>8. SandboxesRemoved'
  <2>1. ASSUME NEW s \in disk'.sandboxes
        PROVE  work'[s].pc # "idle" \/ s \in disk'.killed
    <3>1. CASE s = r
      BY <1>2, <2>1, <3>1
    <3>2. CASE s # r
      <4>1. s \in disk.sandboxes /\ s \in Runs
        BY <1>1, <2>1, <3>2 DEF PatchTyped
      <4>2. QED
        BY <1>1, <1>2, <3>2, <4>1 DEF SandboxesRemoved
    <3>3. QED
      BY <3>1, <3>2
  <2>2. QED
    BY <2>1 DEF SandboxesRemoved
<1>9. (\A name \in DOMAIN disk.files : FileTrue(disk.files[name]))'
  BY DEF FileTrue
<1>10. QED
  BY <1>3, <1>5, <1>6, <1>7, <1>8, <1>9 DEF PatchInv

\* The user's steps: whatever was being copied or checked is out of date from now on.
LEMMA RepositoryMoves ==
    ASSUME PatchInv, work' = Raced, disk' = disk, packet' = packet,
           repo' = [tree |-> repo'.tree, head |-> repo'.head, edits |-> repo'.edits],
           repo'.tree \in Trees, repo'.head \in Trees
    PROVE  PatchInv'
<1>1. /\ PatchTyped /\ PacketTrue /\ SandboxesRemoved
      /\ \A s \in Runs : WorkTyped(work[s]) /\ CheckTrue(work[s])
  BY DEF PatchInv
<1>2. work' = [s \in Runs |-> work'[s]] /\ DOMAIN work' = Runs
  BY DEF Raced
<1>3. ASSUME NEW s \in Runs
      PROVE  /\ (WorkTyped(work[s]) /\ CheckTrue(work[s]))'
             /\ work'[s].pc = work[s].pc
  <2>. DEFINE w == work[s]
              gone == w.raced \/ w.pc \in {"copy", "receipt"}
  <2>1. w = [pc |-> w.pc, mcp |-> w.mcp, sandbox |-> w.sandbox, codes |-> w.codes,
             timedOut |-> w.timedOut, receipt |-> w.receipt, raced |-> w.raced]
        /\ w.pc \in {"idle", "copy", "receipt", "bench"}
    BY <1>1 DEF WorkTyped
  <2>2. work'[s] = [w EXCEPT !.raced = gone]
    BY DEF Raced
  <2>3. gone \in BOOLEAN
    BY <1>1 DEF WorkTyped
  <2>4. work'[s] = [pc |-> w.pc, mcp |-> w.mcp, sandbox |-> w.sandbox, codes |-> w.codes,
                    timedOut |-> w.timedOut, receipt |-> w.receipt, raced |-> gone]
    <3>. HIDE DEF gone
    <3>1. QED
      BY <2>1, <2>2
  <2>5. (w.pc = "copy" \/ w.pc = "receipt") => gone
    OBVIOUS
  <2>. HIDE DEF gone
  <2>6. WorkTyped(work[s])'
    BY <2>1, <2>3, <2>4 DEF WorkTyped
  <2>7. CheckTrue(work[s])'
    BY <2>4, <2>5 DEF CheckTrue
  <2>8. work'[s].pc = work[s].pc
    BY <2>4
  <2>9. QED
    BY <2>6, <2>7, <2>8
<1>4. PatchTyped'
  BY <1>1, <1>2 DEF PatchTyped
<1>5. PacketTrue'
  BY <1>1 DEF PacketTrue, FileTrue
<1>6. SandboxesRemoved'
  BY <1>1, <1>3 DEF SandboxesRemoved, PatchTyped
<1>7. (\A name \in DOMAIN disk.files : FileTrue(disk.files[name]))'
  BY DEF PatchInv, FileTrue
<1>8. QED
  BY <1>2, <1>3, <1>4, <1>5, <1>6, <1>7 DEF PatchInv

LEMMA UserInv == PatchInv /\ (Edit \/ Commit) => PatchInv'
<1>. SUFFICES ASSUME PatchInv, Edit \/ Commit
              PROVE  PatchInv'
  OBVIOUS
<1>1. /\ repo = [tree |-> repo.tree, head |-> repo.head, edits |-> repo.edits]
      /\ repo.tree \in Trees /\ repo.head \in Trees
  BY DEF PatchInv, PatchTyped
<1>2. CASE Edit
  <2>1. PICK i \in Items : repo' = [repo EXCEPT !.tree[i] = 1 - @, !.edits = @ + 1]
    BY <1>2 DEF Edit
  <2>. DEFINE tree == [repo.tree EXCEPT ![i] = 1 - repo.tree[i]]
  <2>2. tree \in Trees
    BY <1>1 DEF Trees
  <2>3. repo' = [repo EXCEPT !.tree = tree, !.edits = repo.edits + 1]
    BY <2>1
  <2>. HIDE DEF tree
  <2>4. repo' = [tree |-> tree, head |-> repo.head, edits |-> repo.edits + 1]
    BY <1>1, <2>3
  <2>5. /\ repo' = [tree |-> repo'.tree, head |-> repo'.head, edits |-> repo'.edits]
        /\ repo'.tree \in Trees /\ repo'.head \in Trees
    BY <1>1, <2>2, <2>4
  <2>6. work' = Raced /\ disk' = disk /\ packet' = packet
    BY <1>2 DEF Edit
  <2>7. QED
    BY <2>5, <2>6, RepositoryMoves
<1>3. CASE Commit
  <2>1. repo' = [tree |-> repo.tree, head |-> repo.tree, edits |-> repo.edits]
    BY <1>1, <1>3 DEF Commit
  <2>2. /\ repo' = [tree |-> repo'.tree, head |-> repo'.head, edits |-> repo'.edits]
        /\ repo'.tree \in Trees /\ repo'.head \in Trees
    BY <1>1, <2>1
  <2>3. work' = Raced /\ disk' = disk /\ packet' = packet
    BY <1>3 DEF Commit
  <2>4. QED
    BY <2>2, <2>3, RepositoryMoves
<1>4. QED
  BY <1>2, <1>3

\* A file that is written says what is so, and takes nothing from the others.
LEMMA FilesWritten ==
    ASSUME PatchInv, NEW name, NEW file, FileTrue(file), NEW files,
           files = With(disk.files, name, file)
    PROVE  /\ DOMAIN disk.files \subseteq DOMAIN files
           /\ \A n \in DOMAIN files : FileTrue(files[n])
BY DEF PatchInv, With

LEMMA CiReportsInv == PatchInv /\ CiReports => PatchInv'
<1>. SUFFICES ASSUME PatchInv, CiReports
              PROVE  PatchInv'
  OBVIOUS
<1>1. PICK code \in {0, 1} :
        disk' = [disk EXCEPT !.files = With(disk.files, <<"ci", 0>>,
                                            [kind |-> "ci", codes |-> <<code>>])]
  BY DEF CiReports
<1>. DEFINE file == [kind |-> "ci", codes |-> <<code>>]
            files == With(disk.files, <<"ci", 0>>, file)
<1>2. FileTrue(file)
  BY DEF FileTrue
<1>. HIDE DEF file
<1>3. /\ DOMAIN disk.files \subseteq DOMAIN files
      /\ \A n \in DOMAIN files : FileTrue(files[n])
  <2>. DEFINE all == files
  <2>1. all = With(disk.files, <<"ci", 0>>, file)
    OBVIOUS
  <2>. HIDE DEF all
  <2>2. /\ DOMAIN disk.files \subseteq DOMAIN all
        /\ \A n \in DOMAIN all : FileTrue(all[n])
    BY <1>2, <2>1, FilesWritten
  <2>3. QED
    BY <2>2 DEF all
<1>4. disk' = [disk EXCEPT !.files = files]
  BY <1>1 DEF file
<1>. HIDE DEF files
<1>5. disk = [files |-> disk.files, sandboxes |-> disk.sandboxes, killed |-> disk.killed]
  BY DEF PatchInv, PatchTyped
<1>6. disk' = [files |-> files, sandboxes |-> disk.sandboxes, killed |-> disk.killed]
  BY <1>4, <1>5
<1>7. disk'.files = files /\ disk'.sandboxes = disk.sandboxes /\ disk'.killed = disk.killed
  BY <1>6
<1>8. repo' = repo /\ work' = work /\ packet' = packet
  BY DEF CiReports
<1>9. PatchTyped'
  BY <1>6, <1>7, <1>8 DEF PatchInv, PatchTyped
<1>10. PacketTrue'
  BY <1>3, <1>7, <1>8 DEF PatchInv, PacketTrue, FileTrue
<1>11. SandboxesRemoved'
  BY <1>7, <1>8 DEF PatchInv, SandboxesRemoved
<1>12. (\A r \in Runs : WorkTyped(work[r]) /\ CheckTrue(work[r]))'
  BY <1>8 DEF PatchInv, WorkTyped, CheckTrue
<1>13. (\A n \in DOMAIN disk.files : FileTrue(disk.files[n]))'
  BY <1>3, <1>7 DEF FileTrue
<1>14. (work = [r \in Runs |-> work[r]])'
  BY <1>8 DEF PatchInv
<1>15. QED
  BY <1>9, <1>10, <1>11, <1>12, <1>13, <1>14 DEF PatchInv

\* The end of a program, with a receipt or without.
LEMMA LeaveInv ==
    ASSUME PatchInv, NEW r \in Runs, NEW receipt, Leave(r, receipt),
           receipt.kind = "none" \/ FileTrue(receipt),
           repo' = repo, packet' = packet
    PROVE  PatchInv'
<1>. DEFINE next == [Waiting EXCEPT !.receipt = receipt]
            files == IF receipt.kind = "none" THEN disk.files
                     ELSE With(disk.files, receipt.name, receipt)
<1>1. work' = [work EXCEPT ![r] = next]
  BY DEF Leave
<1>2. WorkTyped(next) /\ CheckTrue(next)
  <2>1. next = [pc |-> Waiting.pc, mcp |-> Waiting.mcp, sandbox |-> Waiting.sandbox,
                codes |-> Waiting.codes, timedOut |-> Waiting.timedOut,
                receipt |-> receipt, raced |-> Waiting.raced]
    BY WaitingFields
  <2>. HIDE DEF next
  <2>2. next.pc = "idle" /\ next.raced = FALSE
    BY <2>1, WaitingFields
  <2>3. QED
    BY <2>1, <2>2 DEF WorkTyped, CheckTrue
<1>3. disk = [files |-> disk.files, sandboxes |-> disk.sandboxes, killed |-> disk.killed]
  BY DEF PatchInv, PatchTyped
<1>4. /\ DOMAIN disk.files \subseteq DOMAIN files
      /\ \A n \in DOMAIN files : FileTrue(files[n])
  <2>1. CASE receipt.kind = "none"
    BY <2>1 DEF PatchInv
  <2>2. CASE receipt.kind # "none"
    <3>. DEFINE all == files
                name == receipt.name
    <3>1. all = With(disk.files, name, receipt)
      BY <2>2
    <3>. HIDE DEF all, name
    <3>2. /\ DOMAIN disk.files \subseteq DOMAIN all
          /\ \A n \in DOMAIN all : FileTrue(all[n])
      BY <2>2, <3>1, FilesWritten
    <3>3. QED
      BY <3>2 DEF all
  <2>3. QED
    BY <2>1, <2>2
<1>5. disk' = [disk EXCEPT !.sandboxes = disk.sandboxes \ {r}, !.files = files]
  BY DEF Leave
<1>. HIDE DEF files
<1>6. disk' = [files |-> files, sandboxes |-> disk.sandboxes \ {r}, killed |-> disk.killed]
  BY <1>3, <1>5
<1>7. /\ disk'.files = files /\ disk'.sandboxes = disk.sandboxes \ {r}
      /\ disk'.killed = disk.killed
      /\ disk' = [files |-> disk'.files, sandboxes |-> disk'.sandboxes,
                  killed |-> disk'.killed]
  BY <1>6
<1>. HIDE DEF next
<1>8. QED
  BY <1>1, <1>2, <1>4, <1>7, WorkStep

LEMMA StartVerifyInv ==
    ASSUME PatchInv, NEW r \in Runs, NEW mcp, StartVerify(r, mcp)
    PROVE  PatchInv'
<1>. DEFINE raced == repo.tree # repo.head
            next == [Waiting EXCEPT !.pc = "copy", !.mcp = mcp, !.raced = raced]
<1>1. work' = [work EXCEPT ![r] = next] /\ repo' = repo /\ packet' = packet
  BY DEF StartVerify
<1>2. raced \in BOOLEAN /\ (~raced => repo.tree = repo.head)
  OBVIOUS
<1>. HIDE DEF raced
<1>3. next = [pc |-> "copy", mcp |-> mcp, sandbox |-> Waiting.sandbox,
              codes |-> Waiting.codes, timedOut |-> Waiting.timedOut,
              receipt |-> Waiting.receipt, raced |-> raced]
  <2>. DEFINE first == [Waiting EXCEPT !.pc = "copy"]
              second == [first EXCEPT !.mcp = mcp]
  <2>1. first = [pc |-> "copy", mcp |-> Waiting.mcp, sandbox |-> Waiting.sandbox,
                 codes |-> Waiting.codes, timedOut |-> Waiting.timedOut,
                 receipt |-> Waiting.receipt, raced |-> Waiting.raced]
    BY WaitingFields
  <2>. HIDE DEF first
  <2>2. second = [pc |-> "copy", mcp |-> mcp, sandbox |-> Waiting.sandbox,
                  codes |-> Waiting.codes, timedOut |-> Waiting.timedOut,
                  receipt |-> Waiting.receipt, raced |-> Waiting.raced]
    BY <2>1
  <2>. HIDE DEF second
  <2>3. [second EXCEPT !.raced = raced]
            = [pc |-> "copy", mcp |-> mcp, sandbox |-> Waiting.sandbox,
               codes |-> Waiting.codes, timedOut |-> Waiting.timedOut,
               receipt |-> Waiting.receipt, raced |-> raced]
    BY <2>2
  <2>4. QED
    BY <2>3 DEF first, second
<1>. HIDE DEF next
<1>4. next.pc = "copy" /\ next.raced = raced /\ next.sandbox = <<>>
  BY <1>3, WaitingFields
<1>5. WorkTyped(next)
  BY <1>2, <1>3, <1>4 DEF WorkTyped
<1>6. CheckTrue(next)
  <2>1. <<>> = [i \in DOMAIN <<>> |-> repo.tree[i]]
    OBVIOUS
  <2>2. QED
    BY <1>2, <1>4, <2>1 DEF CheckTrue
<1>7. disk = [files |-> disk.files, sandboxes |-> disk.sandboxes, killed |-> disk.killed]
  BY DEF PatchInv, PatchTyped
<1>8. disk' = [files |-> disk.files, sandboxes |-> disk.sandboxes \union {r},
               killed |-> disk.killed]
  BY <1>7 DEF StartVerify
<1>9. /\ disk'.files = disk.files /\ disk'.sandboxes = disk.sandboxes \union {r}
      /\ disk'.killed = disk.killed
      /\ disk' = [files |-> disk'.files, sandboxes |-> disk'.sandboxes,
                  killed |-> disk'.killed]
  BY <1>8
<1>10. \A n \in DOMAIN disk'.files : FileTrue(disk'.files[n])
  BY <1>9 DEF PatchInv
<1>11. QED
  BY <1>1, <1>4, <1>5, <1>6, <1>9, <1>10, WorkStep

\* A step that leaves the disk as it is and does not end the program.
LEMMA QuietStep ==
    ASSUME PatchInv, NEW r \in Runs, NEW next, WorkTyped(next), CheckTrue(next),
           work' = [work EXCEPT ![r] = next], repo' = repo, packet' = packet, disk' = disk,
           next.pc # "idle"
    PROVE  PatchInv'
<1>1. /\ disk = [files |-> disk.files, sandboxes |-> disk.sandboxes, killed |-> disk.killed]
      /\ \A n \in DOMAIN disk.files : FileTrue(disk.files[n])
  BY DEF PatchInv, PatchTyped
<1>2. /\ disk' = [files |-> disk'.files, sandboxes |-> disk'.sandboxes, killed |-> disk'.killed]
      /\ DOMAIN disk.files \subseteq DOMAIN disk'.files
      /\ \A n \in DOMAIN disk'.files : FileTrue(disk'.files[n])
      /\ disk'.sandboxes \subseteq disk.sandboxes \union {r}
      /\ disk.killed \subseteq disk'.killed
  BY <1>1
<1>3. QED
  BY <1>2, WorkStep

LEMMA CopyItemInv ==
    ASSUME PatchInv, NEW r \in Runs, CopyItem(r)
    PROVE  PatchInv'
<1>. DEFINE w == work[r]
<1>1. PICK i \in Items \ DOMAIN w.sandbox :
          work' = [work EXCEPT ![r].sandbox = With(@, i, repo.tree[i])]
  BY DEF CopyItem
<1>. DEFINE sandbox == With(w.sandbox, i, repo.tree[i])
            next == [w EXCEPT !.sandbox = sandbox]
<1>2. /\ DOMAIN work = Runs /\ WorkTyped(w) /\ CheckTrue(w) /\ w.pc = "copy"
      /\ repo' = repo /\ disk' = disk /\ packet' = packet
  BY DEF PatchInv, PatchTyped, CopyItem
<1>3. work' = [work EXCEPT ![r] = next]
  BY <1>1
<1>4. ~w.raced => sandbox = [k \in DOMAIN sandbox |-> repo.tree[k]]
  BY <1>2 DEF With, CheckTrue
<1>5. w = [pc |-> w.pc, mcp |-> w.mcp, sandbox |-> w.sandbox, codes |-> w.codes,
           timedOut |-> w.timedOut, receipt |-> w.receipt, raced |-> w.raced]
  BY <1>2 DEF WorkTyped
<1>. HIDE DEF sandbox
<1>6. next = [pc |-> w.pc, mcp |-> w.mcp, sandbox |-> sandbox, codes |-> w.codes,
              timedOut |-> w.timedOut, receipt |-> w.receipt, raced |-> w.raced]
  <2>. HIDE DEF w
  <2>1. QED
    BY <1>5
<1>. HIDE DEF next
<1>7. next.pc = "copy" /\ next.raced = w.raced /\ next.sandbox = sandbox
  BY <1>2, <1>6
<1>8. WorkTyped(next)
  BY <1>2, <1>6, <1>7 DEF WorkTyped
<1>9. CheckTrue(next)
  BY <1>2, <1>4, <1>7 DEF CheckTrue
<1>10. QED
  BY <1>2, <1>3, <1>7, <1>8, <1>9, QuietStep

LEMMA RunCheckInv ==
    ASSUME PatchInv, NEW r \in Runs, RunCheck(r)
    PROVE  PatchInv'
<1>. DEFINE w == work[r]
<1>1. PICK code \in {IF Works(w.sandbox) THEN 0 ELSE 1, -1, -2} :
          work' = [work EXCEPT ![r].pc = "receipt", ![r].codes = <<code>>,
                               ![r].timedOut = code = -1]
  BY DEF RunCheck
<1>. DEFINE late == code = -1
            next == [w EXCEPT !.pc = "receipt", !.codes = <<code>>, !.timedOut = late]
<1>2. /\ DOMAIN work = Runs /\ WorkTyped(w) /\ CheckTrue(w) /\ w.pc = "copy"
      /\ DOMAIN w.sandbox = Items /\ repo.tree \in Trees
      /\ repo' = repo /\ disk' = disk /\ packet' = packet
  BY DEF PatchInv, PatchTyped, RunCheck
<1>3. work' = [work EXCEPT ![r] = next]
  BY <1>1, <1>2
<1>4. ~w.raced => repo.tree = repo.head /\ w.sandbox = repo.tree
  BY <1>2 DEF CheckTrue, Trees
<1>5. code = 0 => Works(w.sandbox)
  BY <1>1
<1>6. ~w.raced /\ code = 0 => Works(repo.tree)
  BY <1>4, <1>5
<1>. HIDE DEF late
<1>7. w = [pc |-> w.pc, mcp |-> w.mcp, sandbox |-> w.sandbox, codes |-> w.codes,
           timedOut |-> w.timedOut, receipt |-> w.receipt, raced |-> w.raced]
  BY <1>2 DEF WorkTyped
<1>8. next = [pc |-> "receipt", mcp |-> w.mcp, sandbox |-> w.sandbox, codes |-> <<code>>,
              timedOut |-> late, receipt |-> w.receipt, raced |-> w.raced]
  <2>. DEFINE first == [w EXCEPT !.pc = "receipt"]
              second == [first EXCEPT !.codes = <<code>>]
  <2>. HIDE DEF w
  <2>1. first = [pc |-> "receipt", mcp |-> w.mcp, sandbox |-> w.sandbox, codes |-> w.codes,
                 timedOut |-> w.timedOut, receipt |-> w.receipt, raced |-> w.raced]
    BY <1>7
  <2>. HIDE DEF first
  <2>2. second = [pc |-> "receipt", mcp |-> w.mcp, sandbox |-> w.sandbox, codes |-> <<code>>,
                  timedOut |-> w.timedOut, receipt |-> w.receipt, raced |-> w.raced]
    BY <2>1
  <2>. HIDE DEF second
  <2>3. [second EXCEPT !.timedOut = late]
            = [pc |-> "receipt", mcp |-> w.mcp, sandbox |-> w.sandbox, codes |-> <<code>>,
               timedOut |-> late, receipt |-> w.receipt, raced |-> w.raced]
    BY <2>2
  <2>4. QED
    BY <2>3 DEF first, second
<1>. HIDE DEF next
<1>9. next.pc = "receipt" /\ next.raced = w.raced /\ next.codes = <<code>>
  BY <1>8
<1>10. WorkTyped(next)
  BY <1>2, <1>8, <1>9 DEF WorkTyped
<1>11. CheckTrue(next)
  BY <1>4, <1>6, <1>9 DEF CheckTrue
<1>12. QED
  BY <1>2, <1>3, <1>9, <1>10, <1>11, QuietStep

LEMMA WriteReceiptInv ==
    ASSUME PatchInv, NEW r \in Runs, WriteReceipt(r)
    PROVE  PatchInv'
<1>. DEFINE w == work[r]
            Receipt(commit) ==
                [kind |-> "verify", name |-> <<"verify", r>>, commit |-> commit,
                 codes |-> w.codes, timedOut |-> w.timedOut, raced |-> w.raced,
                 disposition |-> Disposition(w.codes, w.timedOut)]
<1>1. PICK commit \in {repo.head, <<>>} : Leave(r, Receipt(commit))
  BY DEF WriteReceipt
<1>2. w.pc = "receipt" /\ CheckTrue(w) /\ repo' = repo /\ packet' = packet
  BY DEF WriteReceipt, PatchInv
<1>. DEFINE receipt == Receipt(commit)
<1>3. /\ receipt.kind = "verify" /\ receipt.commit = commit /\ receipt.codes = w.codes
      /\ receipt.raced = w.raced
      /\ receipt.disposition = Disposition(w.codes, w.timedOut)
  OBVIOUS
<1>4. Leave(r, receipt)
  BY <1>1
<1>. HIDE DEF receipt
<1>5. FileTrue(receipt)
  <2>1. receipt.disposition = "promote" => \A n \in DOMAIN w.codes : w.codes[n] = 0
    BY <1>3 DEF Disposition
  <2>2. ASSUME receipt.disposition = "promote", ~w.raced, commit # <<>>
        PROVE  Works(commit)
    <3>1. commit = repo.tree
      BY <1>2, <2>2 DEF CheckTrue
    <3>2. PICK code : w.codes = <<code>> /\ (code = 0 => Works(repo.tree))
      BY <1>2, <2>2 DEF CheckTrue
    <3>3. code = 0
      BY <2>1, <2>2, <3>2
    <3>4. QED
      BY <3>1, <3>2, <3>3
  <2>3. QED
    BY <1>3, <2>1, <2>2 DEF FileTrue
<1>6. QED
  BY <1>2, <1>4, <1>5, LeaveInv

LEMMA VerifyFailsInv ==
    ASSUME PatchInv, NEW r \in Runs, VerifyFails(r)
    PROVE  PatchInv'
<1>1. NoReceipt.kind = "none"
  BY DEF NoReceipt
<1>2. QED
  BY <1>1, LeaveInv DEF VerifyFails

LEMMA OuterTimeoutInv ==
    ASSUME PatchInv, NEW r \in Runs, OuterTimeout(r)
    PROVE  PatchInv'
<1>. DEFINE next == [Waiting EXCEPT !.receipt = NoReceipt]
<1>1. work' = [work EXCEPT ![r] = next] /\ repo' = repo /\ packet' = packet
  BY DEF OuterTimeout
<1>2. WorkTyped(next) /\ CheckTrue(next)
  <2>1. next = [pc |-> Waiting.pc, mcp |-> Waiting.mcp, sandbox |-> Waiting.sandbox,
                codes |-> Waiting.codes, timedOut |-> Waiting.timedOut,
                receipt |-> NoReceipt, raced |-> Waiting.raced]
    BY WaitingFields
  <2>. HIDE DEF next
  <2>2. next.pc = "idle" /\ next.raced = FALSE
    BY <2>1, WaitingFields
  <2>3. QED
    BY <2>1, <2>2 DEF WorkTyped, CheckTrue
<1>. HIDE DEF next
<1>3. /\ disk = [files |-> disk.files, sandboxes |-> disk.sandboxes, killed |-> disk.killed]
      /\ \A n \in DOMAIN disk.files : FileTrue(disk.files[n])
  BY DEF PatchInv, PatchTyped
<1>4. disk' = [files |-> disk.files, sandboxes |-> disk.sandboxes,
               killed |-> disk.killed \union {r}]
  BY <1>3 DEF OuterTimeout
<1>5. /\ disk'.files = disk.files /\ disk'.sandboxes = disk.sandboxes
      /\ disk'.killed = disk.killed \union {r}
      /\ disk' = [files |-> disk'.files, sandboxes |-> disk'.sandboxes,
                  killed |-> disk'.killed]
  BY <1>4
<1>6. \A n \in DOMAIN disk'.files : FileTrue(disk'.files[n])
  BY <1>3, <1>5
<1>7. QED
  BY <1>1, <1>2, <1>5, <1>6, WorkStep

LEMMA StartWorkbenchInv ==
    ASSUME PatchInv, NEW r \in Runs, StartWorkbench(r)
    PROVE  PatchInv'
<1>. DEFINE next == [Waiting EXCEPT !.pc = "bench"]
<1>1. next = [pc |-> "bench", mcp |-> Waiting.mcp, sandbox |-> Waiting.sandbox,
              codes |-> Waiting.codes, timedOut |-> Waiting.timedOut,
              receipt |-> Waiting.receipt, raced |-> Waiting.raced]
  BY WaitingFields
<1>2. /\ work' = [work EXCEPT ![r] = next]
      /\ repo' = repo /\ packet' = packet /\ disk' = disk
  BY DEF StartWorkbench
<1>. HIDE DEF next
<1>3. next.pc = "bench" /\ next.raced = FALSE
  BY <1>1, WaitingFields
<1>4. WorkTyped(next) /\ CheckTrue(next)
  BY <1>1, <1>3 DEF WorkTyped, CheckTrue
<1>5. QED
  BY <1>2, <1>3, <1>4, QuietStep

LEMMA RunGateInv ==
    ASSUME PatchInv, NEW r \in Runs, RunGate(r)
    PROVE  PatchInv'
<1>. DEFINE w == work[r]
<1>1. PICK code \in {IF Works(repo.tree) THEN 0 ELSE 1, 124} :
          work' = [work EXCEPT ![r].codes = Append(@, code),
                               ![r].timedOut = @ \/ code = 124]
  BY DEF RunGate
<1>. DEFINE codes == Append(w.codes, code)
            late == w.timedOut \/ code = 124
            next == [w EXCEPT !.codes = codes, !.timedOut = late]
<1>2. /\ DOMAIN work = Runs /\ WorkTyped(w) /\ w.pc = "bench"
      /\ repo' = repo /\ disk' = disk /\ packet' = packet
  BY DEF PatchInv, PatchTyped, RunGate
<1>3. work' = [work EXCEPT ![r] = next]
  BY <1>1, <1>2
<1>. HIDE DEF codes, late
<1>4. w = [pc |-> w.pc, mcp |-> w.mcp, sandbox |-> w.sandbox, codes |-> w.codes,
           timedOut |-> w.timedOut, receipt |-> w.receipt, raced |-> w.raced]
  BY <1>2 DEF WorkTyped
<1>5. next = [pc |-> w.pc, mcp |-> w.mcp, sandbox |-> w.sandbox, codes |-> codes,
              timedOut |-> late, receipt |-> w.receipt, raced |-> w.raced]
  <2>. DEFINE first == [w EXCEPT !.codes = codes]
  <2>. HIDE DEF w
  <2>1. first = [pc |-> w.pc, mcp |-> w.mcp, sandbox |-> w.sandbox, codes |-> codes,
                 timedOut |-> w.timedOut, receipt |-> w.receipt, raced |-> w.raced]
    BY <1>4
  <2>. HIDE DEF first
  <2>2. [first EXCEPT !.timedOut = late]
            = [pc |-> w.pc, mcp |-> w.mcp, sandbox |-> w.sandbox, codes |-> codes,
               timedOut |-> late, receipt |-> w.receipt, raced |-> w.raced]
    BY <2>1
  <2>3. QED
    BY <2>2 DEF first
<1>. HIDE DEF next
<1>6. next.pc = "bench" /\ next.raced = w.raced
  BY <1>2, <1>5
<1>7. WorkTyped(next) /\ CheckTrue(next)
  BY <1>2, <1>5, <1>6 DEF WorkTyped, CheckTrue
<1>8. QED
  BY <1>2, <1>3, <1>6, <1>7, QuietStep

LEMMA WriteBenchInv ==
    ASSUME PatchInv, NEW r \in Runs, WriteBench(r)
    PROVE  PatchInv'
<1>. DEFINE w == work[r]
            verdict == IF Disposition(w.codes, w.timedOut) = "promote"
                       THEN "promote" ELSE "reject"
            Receipt(second) == [kind |-> "bench", name |-> <<"bench", second>>,
                                codes |-> w.codes, disposition |-> verdict]
<1>1. PICK second \in Seconds : Leave(r, Receipt(second))
  BY DEF WriteBench
<1>. DEFINE receipt == Receipt(second)
<1>2. repo' = repo /\ packet' = packet /\ Leave(r, receipt)
  BY <1>1 DEF WriteBench
<1>3. verdict = "promote" => \A n \in DOMAIN w.codes : w.codes[n] = 0
  BY DEF Disposition
<1>. HIDE DEF verdict
<1>4. receipt.kind = "bench" /\ receipt.codes = w.codes /\ receipt.disposition = verdict
  OBVIOUS
<1>. HIDE DEF receipt
<1>5. FileTrue(receipt)
  BY <1>3, <1>4 DEF FileTrue
<1>6. QED
  BY <1>2, <1>5, LeaveInv

\* A join reads files that others go on writing, and finds each as it is then.
LEMMA PacketInv ==
    PatchInv /\ (StartPacket \/ ReadCommand \/ ReadDisposition \/ PacketFails) => PatchInv'
<1>. SUFFICES ASSUME PatchInv, StartPacket \/ ReadCommand \/ ReadDisposition \/ PacketFails
              PROVE  PatchInv'
  OBVIOUS
<1>1. /\ repo' = repo /\ work' = work /\ disk' = disk
      /\ PatchTyped /\ PacketTrue /\ SandboxesRemoved
      /\ \A n \in DOMAIN disk.files : FileTrue(disk.files[n])
  BY DEF PatchInv, StartPacket, ReadCommand, ReadDisposition, PacketFails
<1>2. /\ packet = [pc |-> packet.pc, todo |-> packet.todo, commands |-> packet.commands,
                   disposition |-> packet.disposition]
      /\ \A c \in packet.commands : FileTrue(c)
      /\ packet.pc = "read" => packet.todo \subseteq DOMAIN disk.files
  BY <1>1 DEF PatchTyped, PacketTrue
<1>3. ASSUME NEW pc \in {"idle", "read", "joined"}, NEW todo, NEW commands, NEW disposition,
             packet' = [pc |-> pc, todo |-> todo, commands |-> commands,
                        disposition |-> disposition],
             \A c \in commands : FileTrue(c),
             pc = "read" => todo \subseteq DOMAIN disk.files,
             pc = "joined" => FileTrue(disposition)
      PROVE  PatchInv'
  <2>1. /\ packet'.pc = pc /\ packet'.todo = todo /\ packet'.commands = commands
        /\ packet'.disposition = disposition
    BY <1>3
  <2>2. PatchTyped'
    BY <1>1, <1>3, <2>1 DEF PatchTyped
  <2>3. PacketTrue'
    BY <1>1, <1>3, <2>1 DEF PacketTrue, FileTrue
  <2>4. /\ SandboxesRemoved' /\ (\A r \in Runs : WorkTyped(work[r]) /\ CheckTrue(work[r]))'
        /\ (\A n \in DOMAIN disk.files : FileTrue(disk.files[n]))'
        /\ (work = [r \in Runs |-> work[r]])'
    BY <1>1 DEF PatchInv, SandboxesRemoved, WorkTyped, CheckTrue, FileTrue
  <2>5. QED
    BY <2>2, <2>3, <2>4 DEF PatchInv
<1>4. CASE StartPacket
  <2>1. PICK names \in SUBSET DOMAIN disk.files :
            packet' = [NoPacket EXCEPT !.pc = "read", !.todo = names]
    BY <1>4 DEF StartPacket
  <2>2. packet' = [pc |-> "read", todo |-> names, commands |-> {}, disposition |-> <<>>]
    BY <2>1 DEF NoPacket
  <2>3. QED
    BY <1>3, <2>2
<1>5. CASE ReadCommand
  <2>1. PICK name \in packet.todo :
            packet' = [packet EXCEPT !.todo = packet.todo \ {name},
                                     !.commands = packet.commands \union {disk.files[name]}]
    BY <1>5 DEF ReadCommand
  <2>2. packet.pc = "read" /\ name \in DOMAIN disk.files
    BY <1>2, <1>5 DEF ReadCommand
  <2>. DEFINE todo == packet.todo \ {name}
              commands == packet.commands \union {disk.files[name]}
  <2>3. /\ todo \subseteq DOMAIN disk.files
        /\ \A c \in commands : FileTrue(c)
    BY <1>1, <1>2, <2>2
  <2>4. packet' = [packet EXCEPT !.todo = todo, !.commands = commands]
    BY <2>1
  <2>. HIDE DEF todo, commands
  <2>5. packet' = [pc |-> "read", todo |-> todo, commands |-> commands,
                   disposition |-> packet.disposition]
    BY <1>2, <2>2, <2>4
  <2>6. QED
    BY <1>3, <2>3, <2>5
<1>6. CASE ReadDisposition
  <2>1. PICK name \in DOMAIN disk.files :
            packet' = [packet EXCEPT !.pc = "joined", !.disposition = disk.files[name]]
    BY <1>6 DEF ReadDisposition
  <2>. DEFINE file == disk.files[name]
  <2>2. FileTrue(file)
    BY <1>1
  <2>3. packet' = [packet EXCEPT !.pc = "joined", !.disposition = file]
    BY <2>1
  <2>. HIDE DEF file
  <2>4. packet' = [pc |-> "joined", todo |-> packet.todo, commands |-> packet.commands,
                   disposition |-> file]
    BY <1>2, <2>3
  <2>5. QED
    BY <1>2, <1>3, <2>2, <2>4
<1>7. CASE PacketFails
  <2>1. packet' = [pc |-> "idle", todo |-> {}, commands |-> {}, disposition |-> <<>>]
    BY <1>7 DEF PacketFails, NoPacket
  <2>2. QED
    BY <1>3, <2>1
<1>8. QED
  BY <1>4, <1>5, <1>6, <1>7

LEMMA NextPatchInv == PatchInv /\ [PatchNext]_patchVars => PatchInv'
<1>. SUFFICES ASSUME PatchInv, [PatchNext]_patchVars
              PROVE  PatchInv'
  OBVIOUS
<1>1. ASSUME NEW r \in Verifiers, VerifyStep(r) \/ \E mcp \in BOOLEAN : StartVerify(r, mcp)
      PROVE  PatchInv'
  <2>1. r \in Runs
    BY DEF Runs
  <2>2. QED
    BY <1>1, <2>1, CopyItemInv, RunCheckInv, WriteReceiptInv, VerifyFailsInv, OuterTimeoutInv,
       StartVerifyInv DEF VerifyStep
<1>2. ASSUME NEW r \in Benches, StartWorkbench(r) \/ RunGate(r) \/ WriteBench(r)
      PROVE  PatchInv'
  <2>1. r \in Runs
    BY DEF Runs
  <2>2. QED
    BY <1>2, <2>1, StartWorkbenchInv, RunGateInv, WriteBenchInv
<1>3. CASE UNCHANGED patchVars
  <2>1. repo' = repo /\ work' = work /\ disk' = disk /\ packet' = packet
    BY <1>3 DEF patchVars
  <2>2. PatchTyped' /\ PacketTrue' /\ SandboxesRemoved'
    BY <2>1 DEF PatchInv, PatchTyped, PacketTrue, SandboxesRemoved, FileTrue
  <2>3. /\ (\A r \in Runs : WorkTyped(work[r]) /\ CheckTrue(work[r]))'
        /\ (\A n \in DOMAIN disk.files : FileTrue(disk.files[n]))'
        /\ (work = [r \in Runs |-> work[r]])'
    BY <2>1 DEF PatchInv, WorkTyped, CheckTrue, FileTrue
  <2>4. QED
    BY <2>2, <2>3 DEF PatchInv
<1>4. QED
  BY <1>1, <1>2, <1>3, UserInv, CiReportsInv, PacketInv DEF PatchNext

LEMMA PatchInvariant == PatchSpec => []PatchInv
BY InitPatchInv, NextPatchInv, PTL DEF PatchSpec

THEOREM PatchTypeCorrect == PatchSpec => []PatchTypeOK
<1>1. PatchInv => PatchTypeOK
  BY DEF PatchInv, PatchTyped, WorkTyped, PatchTypeOK
<1>2. QED
  BY <1>1, PatchInvariant, PTL

\* Whatever is written, replaced or left without a signal while a packet is joined, one
\* that is promoted rests on codes that are all zero and on commands that each said so.
THEOREM PromotionsAreEarned == PatchSpec => []PromotionIsEarned
<1>1. PatchInv => PromotionIsEarned
  <2>. SUFFICES ASSUME PatchInv, packet.pc = "joined", Promoted(packet)
                PROVE  /\ \A n \in DOMAIN packet.disposition.codes :
                              packet.disposition.codes[n] = 0
                       /\ \A c \in packet.commands : c.codes = <<0>> /\ c.kind = "ci"
    BY DEF PromotionIsEarned
  <2>1. FileTrue(packet.disposition) /\ \A c \in packet.commands : FileTrue(c)
    BY DEF PatchInv, PacketTrue
  <2>2. packet.disposition.kind # "ci" /\ packet.disposition.disposition = "promote"
    BY DEF Promoted, DispositionValue
  <2>3. ASSUME NEW c \in packet.commands
        PROVE  c.codes = <<0>> /\ c.kind = "ci"
    <3>1. c.kind = "ci" /\ c.codes[1] = 0
      BY DEF Promoted, CommandPassed
    <3>2. PICK code : c.codes = <<code>>
      BY <2>1, <3>1 DEF FileTrue
    <3>3. QED
      BY <3>1, <3>2
  <2>4. QED
    BY <2>1, <2>2, <2>3 DEF FileTrue
<1>2. QED
  BY <1>1, PatchInvariant, PTL

\* However the user edits and commits while a verifier copies and checks, the commit of a
\* promoting receipt is one that works, or the receipt is of a repository that moved; and
\* the sandbox goes with the verifier, unless it was killed.
THEOREM VerificationsAreClean == PatchSpec => []VerificationIsClean
<1>1. PatchInv => VerificationIsClean
  BY DEF PatchInv, FileTrue, VerificationIsClean, CommitWasChecked
<1>2. QED
  BY <1>1, PatchInvariant, PTL
=============================================================================
