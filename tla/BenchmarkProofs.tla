--------------------------- MODULE BenchmarkProofs ---------------------------
(***************************************************************************)
(* Proofs about the benchmarks: what a report says was measured was, and a  *)
(* score says what its definition by prefixes, or by cases, says.           *)
(***************************************************************************)
EXTENDS MemoryBench, RivalWorkers, ResumableBench, ModelGrading, Scoring,
        SequenceTheorems, FiniteSetTheorems, NaturalsInduction, WellFoundedInduction, TLAPS

-----------------------------------------------------------------------------
(* The memory lanes. *)

BenchCalls == {"add", "replace", "search", "history"}
BenchRows == [status : {"not_tested", "failed", "measured"}, history : SUBSET {"old", "new"},
              found : BOOLEAN, answered : SUBSET BenchCalls]
Times == Nat \union {Never}

BenchTyped ==
    /\ bench \in [kind : Adapters \union {"none"}, left : SUBSET Samples,
                  at : {"idle", "launch", "next", "report"} \union BenchCalls]
    /\ sample \in [case : Samples \union {Never}, cutoff : Times, failed : BOOLEAN,
                   row : BenchRows]
    /\ rows \in [Samples -> BenchRows]
    /\ stored \in [Samples -> [old : Times, new : Times]]
    /\ ticks \in Nat

\* The case under way is not among those that are left; what is left is not stored.
InOrder ==
    /\ bench.at = "launch" => bench.left = Samples
    /\ bench.at \in BenchCalls => sample.case \in Samples \ bench.left
    /\ bench.at = "add" => stored[sample.case] = NothingStored
    /\ \A c \in bench.left : stored[c] = NothingStored

OldIsStored ==
    /\ sample.cutoff \in Nat /\ stored[sample.case].old = Second(sample.cutoff)

\* STALE waits with the replacement until the next whole second.
NewIsLater ==
    bench.kind = "stale" =>
        \E t \in Nat : /\ stored[sample.case].new = Second(t)
                       /\ t >= Second(sample.cutoff) + TicksPerSecond

\* What is so of the case under way as long as it has not failed.
RowSoFar ==
    /\ bench.at = "replace" => /\ bench.kind # "sleeper" /\ "add" \in sample.row.answered
                               /\ OldIsStored
                               /\ bench.kind = "stale" =>
                                     ticks >= Second(sample.cutoff) + TicksPerSecond
    /\ bench.at = "search" /\ ~sample.failed =>
          IF bench.kind = "sleeper"
          THEN sample.case \in Poison \/ "add" \in sample.row.answered
          ELSE {"add", "replace"} \subseteq sample.row.answered /\ OldIsStored /\ NewIsLater
    /\ bench.at = "history" => bench.kind # "sleeper"
    /\ bench.at = "history" /\ ~sample.failed =>
          {"add", "replace", "search"} \subseteq sample.row.answered /\ OldIsStored /\ NewIsLater

\* A row that is there is earned.
RowIsReal(c, row) ==
    row.status = "measured" => /\ bench.kind # "kernel" => Needed(c) \subseteq row.answered
                               /\ bench.kind = "stale" => row.history = {"old"}

\* The cases are done one by one, or none of them has a row.
NoneSkipped ==
    bench.kind # "kernel" =>
        /\ bench.at \in {"next"} \union BenchCalls =>
              \A c \in Samples : \/ c \in bench.left \/ rows[c].status # "not_tested"
                                 \/ bench.at # "next" /\ c = sample.case
        /\ bench.at = "report" =>
              \/ \A c \in Samples : rows[c].status # "not_tested"
              \/ \A c \in Samples : rows[c].status = "not_tested"

BenchInv ==
    /\ BenchTyped /\ InOrder /\ RowSoFar /\ NoneSkipped
    /\ \A c \in Samples : RowIsReal(c, rows[c])

\* The parts of a case under way, and what an answer changes of it.
SampleRecord == [case : Samples \union {Never}, cutoff : Times, failed : BOOLEAN, row : BenchRows]

LEMMA SampleParts ==
    ASSUME NEW s \in SampleRecord
    PROVE  /\ s = [case |-> s.case, cutoff |-> s.cutoff, failed |-> s.failed, row |-> s.row]
           /\ s.row = [status |-> s.row.status, history |-> s.row.history,
                       found |-> s.row.found, answered |-> s.row.answered]
           /\ s.case \in Samples \union {Never} /\ s.cutoff \in Times /\ s.failed \in BOOLEAN
           /\ s.row.status \in {"not_tested", "failed", "measured"}
           /\ s.row.history \subseteq {"old", "new"} /\ s.row.found \in BOOLEAN
           /\ s.row.answered \subseteq BenchCalls
BY DEF SampleRecord, BenchRows

LEMMA NewFailed ==
    ASSUME NEW s \in SampleRecord, NEW failed \in BOOLEAN
    PROVE  LET new == [s EXCEPT !.failed = failed]
           IN  /\ new \in SampleRecord /\ new.failed = failed
               /\ new.case = s.case /\ new.cutoff = s.cutoff /\ new.row = s.row
BY DEF SampleRecord

LEMMA NewCutoff ==
    ASSUME NEW s \in SampleRecord, NEW cutoff \in Times
    PROVE  LET new == [s EXCEPT !.cutoff = cutoff]
           IN  /\ new \in SampleRecord /\ new.failed = s.failed
               /\ new.case = s.case /\ new.cutoff = cutoff /\ new.row = s.row
BY DEF SampleRecord

LEMMA NewAnswered ==
    ASSUME NEW s \in SampleRecord, NEW answered \in SUBSET BenchCalls
    PROVE  LET new == [s EXCEPT !.row.answered = answered]
           IN  /\ new \in SampleRecord /\ new.failed = s.failed
               /\ new.case = s.case /\ new.cutoff = s.cutoff
               /\ new.row.answered = answered /\ new.row.status = s.row.status
               /\ new.row.history = s.row.history /\ new.row.found = s.row.found
<1>1. s.row \in BenchRows
  BY DEF SampleRecord
<1>. DEFINE row == [s.row EXCEPT !.answered = answered]
<1>2. /\ row \in BenchRows /\ row.answered = answered /\ row.status = s.row.status
      /\ row.history = s.row.history /\ row.found = s.row.found
  BY <1>1 DEF BenchRows
<1>3. [s EXCEPT !.row.answered = answered] = [s EXCEPT !.row = row]
  OBVIOUS
<1>. HIDE DEF row
<1>. QED
  BY <1>2, <1>3 DEF SampleRecord

LEMMA NewFound ==
    ASSUME NEW s \in SampleRecord, NEW found \in BOOLEAN
    PROVE  LET new == [s EXCEPT !.row.found = found]
           IN  /\ new \in SampleRecord /\ new.failed = s.failed
               /\ new.case = s.case /\ new.cutoff = s.cutoff
               /\ new.row.answered = s.row.answered /\ new.row.status = s.row.status
               /\ new.row.history = s.row.history /\ new.row.found = found
<1>1. s.row \in BenchRows
  BY DEF SampleRecord
<1>. DEFINE row == [s.row EXCEPT !.found = found]
<1>2. /\ row \in BenchRows /\ row.answered = s.row.answered /\ row.status = s.row.status
      /\ row.history = s.row.history /\ row.found = found
  BY <1>1 DEF BenchRows
<1>3. [s EXCEPT !.row.found = found] = [s EXCEPT !.row = row]
  OBVIOUS
<1>. HIDE DEF row
<1>. QED
  BY <1>2, <1>3 DEF SampleRecord

LEMMA NewHistory ==
    ASSUME NEW s \in SampleRecord, NEW history \in SUBSET {"old", "new"}
    PROVE  LET new == [s EXCEPT !.row.history = history]
           IN  /\ new \in SampleRecord /\ new.failed = s.failed
               /\ new.case = s.case /\ new.cutoff = s.cutoff
               /\ new.row.answered = s.row.answered /\ new.row.status = s.row.status
               /\ new.row.history = history /\ new.row.found = s.row.found
<1>1. s.row \in BenchRows
  BY DEF SampleRecord
<1>. DEFINE row == [s.row EXCEPT !.history = history]
<1>2. /\ row \in BenchRows /\ row.answered = s.row.answered /\ row.status = s.row.status
      /\ row.history = history /\ row.found = s.row.found
  BY <1>1 DEF BenchRows
<1>3. [s EXCEPT !.row.history = history] = [s EXCEPT !.row = row]
  OBVIOUS
<1>. HIDE DEF row
<1>. QED
  BY <1>2, <1>3 DEF SampleRecord

\* A row gets its status.
LEMMA NewStatus ==
    ASSUME NEW row \in BenchRows, NEW status \in {"failed", "measured"}
    PROVE  LET new == [row EXCEPT !.status = status]
           IN  /\ new \in BenchRows /\ new.status = status
               /\ new.answered = row.answered /\ new.history = row.history
BY DEF BenchRows

\* Whole seconds: a time after the end of a second is stored as a later one.
LEMMA SecondsAreTimes ==
    ASSUME NEW t \in Nat
    PROVE  Second(t) \in Nat /\ Second(t) <= t /\ t < Second(t) + TicksPerSecond
<1>. TicksPerSecond \in Nat \ {0}
  BY BenchAssumption
<1>. QED
  BY DEF Second

LEMMA LaterSeconds ==
    ASSUME NEW t \in Nat, NEW u \in Nat, u >= Second(t) + TicksPerSecond
    PROVE  Second(u) > t
<1>. DEFINE n == TicksPerSecond
            k == t \div n
            m == u \div n
<1>1. n \in Nat /\ n > 0
  BY BenchAssumption
<1>2. k \in Nat /\ m \in Nat /\ Second(t) = k * n /\ Second(u) = m * n
  BY <1>1 DEF Second
<1>3. t < k * n + n /\ u < m * n + n
  BY <1>2, SecondsAreTimes
<1>. HIDE DEF n, k, m
<1>4. k * n \in Nat /\ m * n \in Nat /\ (m + 1) * n = m * n + n /\ (k + 1) * n = k * n + n
  BY <1>1, <1>2
<1>5. (k + 1) * n < (m + 1) * n
  BY <1>1, <1>2, <1>3, <1>4 DEF n
<1>6. k + 1 < m + 1
  <2>. SUFFICES ASSUME k >= m
                PROVE  FALSE
    BY <1>2
  <2>1. k * n >= m * n
    BY <1>1, <1>2
  <2>. QED
    BY <1>1, <1>2, <1>4, <1>5, <2>1
<1>7. m * n >= (k + 1) * n
  BY <1>1, <1>2, <1>6
<1>. QED
  BY <1>1, <1>2, <1>3, <1>4, <1>7

\* The records the benchmark starts from.
LEMMA FirstRecords ==
    /\ NotTested \in BenchRows /\ NotTested.status = "not_tested" /\ NotTested.answered = {}
    /\ NothingStored \in [old : Times, new : Times]
    /\ NothingStored.old = Never /\ NothingStored.new = Never
    /\ \A c \in Samples \union {Never} :
          NewSample(c) \in SampleRecord /\ NewSample(c).case = c /\ NewSample(c).row = NotTested
<1>1. NotTested \in BenchRows /\ NotTested.status = "not_tested" /\ NotTested.answered = {}
  BY DEF NotTested, BenchRows
<1>2. /\ NothingStored \in [old : Times, new : Times]
      /\ NothingStored.old = Never /\ NothingStored.new = Never
  BY DEF NothingStored, Times
<1>3. ASSUME NEW c \in Samples \union {Never}
      PROVE  /\ NewSample(c) \in SampleRecord /\ NewSample(c).case = c
             /\ NewSample(c).row = NotTested
  BY <1>1 DEF NewSample, SampleRecord, Times
<1>. QED
  BY <1>1, <1>2, <1>3

LEMMA StartBenchInv ==
    ASSUME BenchInv, NEW kind \in Adapters, StartBench(kind)
    PROVE  BenchInv'
<1>1. /\ bench' = [kind |-> kind, at |-> "launch", left |-> Samples]
      /\ rows' = [c \in Samples |-> NotTested] /\ stored' = [c \in Samples |-> NothingStored]
      /\ sample' = sample /\ ticks' = ticks
  BY DEF StartBench
<1>2. BenchTyped'
  BY <1>1, FirstRecords DEF BenchInv, BenchTyped, SampleRecord
<1>3. InOrder' /\ RowSoFar' /\ NoneSkipped'
  BY <1>1 DEF InOrder, RowSoFar, NoneSkipped, BenchCalls
<1>4. \A c \in Samples : RowIsReal(c, rows[c])'
  BY <1>1, FirstRecords DEF RowIsReal
<1>. QED
  BY <1>2, <1>3, <1>4 DEF BenchInv

LEMMA ServerReadyInv ==
    ASSUME BenchInv, ServerReady
    PROVE  BenchInv'
<1>1. /\ bench' = [bench EXCEPT !.at = "next"] /\ bench.at = "launch"
      /\ rows' = rows /\ stored' = stored /\ sample' = sample /\ ticks' = ticks
  BY DEF ServerReady
<1>2. BenchTyped' /\ bench'.at = "next" /\ bench'.kind = bench.kind /\ bench'.left = bench.left
  BY <1>1 DEF BenchInv, BenchTyped
<1>3. InOrder' /\ RowSoFar' /\ NoneSkipped'
  BY <1>1, <1>2 DEF BenchInv, InOrder, RowSoFar, NoneSkipped, BenchCalls
<1>4. \A c \in Samples : RowIsReal(c, rows[c])'
  BY <1>1, <1>2 DEF BenchInv, RowIsReal, Needed
<1>. QED
  BY <1>2, <1>3, <1>4 DEF BenchInv

LEMMA ServerFailsInv ==
    ASSUME BenchInv, ServerFails
    PROVE  BenchInv'
<1>1. /\ bench' = [bench EXCEPT !.at = "report"]
      /\ rows' = [c \in Samples |-> NotTested]
      /\ stored' = stored /\ sample' = sample /\ ticks' = ticks
  BY DEF ServerFails, RowsAfterFailure
<1>2. BenchTyped' /\ bench'.at = "report" /\ bench'.kind = bench.kind /\ bench'.left = bench.left
  BY <1>1, FirstRecords DEF BenchInv, BenchTyped
<1>3. InOrder' /\ RowSoFar' /\ NoneSkipped'
  BY <1>1, <1>2, FirstRecords DEF BenchInv, InOrder, RowSoFar, NoneSkipped, BenchCalls
<1>4. \A c \in Samples : RowIsReal(c, rows[c])'
  BY <1>1, FirstRecords DEF RowIsReal
<1>. QED
  BY <1>2, <1>3, <1>4 DEF BenchInv

LEMMA NextSampleInv ==
    ASSUME BenchInv, NEW c \in Samples, NextSample(c)
    PROVE  BenchInv'
<1>1. /\ bench.at = "next" /\ c \in bench.left /\ sample' = NewSample(c)
      /\ bench' = [bench EXCEPT !.at = "add", !.left = bench.left \ {c}]
      /\ rows' = rows /\ stored' = stored /\ ticks' = ticks
  BY DEF NextSample
<1>2. /\ BenchTyped' /\ bench'.at = "add" /\ bench'.kind = bench.kind
      /\ bench'.left = bench.left \ {c} /\ sample'.case = c
  BY <1>1, FirstRecords DEF BenchInv, BenchTyped, SampleRecord, BenchCalls
<1>3. InOrder' /\ RowSoFar' /\ NoneSkipped'
  BY <1>1, <1>2 DEF BenchInv, InOrder, RowSoFar, NoneSkipped, BenchCalls
<1>4. \A d \in Samples : RowIsReal(d, rows[d])'
  BY <1>1, <1>2 DEF BenchInv, RowIsReal, Needed
<1>. QED
  BY <1>2, <1>3, <1>4 DEF BenchInv

LEMMA EndRowsInv ==
    ASSUME BenchInv, EndRows
    PROVE  BenchInv'
<1>1. /\ bench.at = "next" /\ bench.left = {} /\ bench' = [bench EXCEPT !.at = "report"]
      /\ rows' = rows /\ stored' = stored /\ sample' = sample /\ ticks' = ticks
  BY DEF EndRows
<1>2. BenchTyped' /\ bench'.at = "report" /\ bench'.kind = bench.kind /\ bench'.left = {}
  BY <1>1 DEF BenchInv, BenchTyped
<1>3. InOrder' /\ RowSoFar' /\ NoneSkipped'
  BY <1>1, <1>2 DEF BenchInv, InOrder, RowSoFar, NoneSkipped, BenchCalls
<1>4. \A c \in Samples : RowIsReal(c, rows[c])'
  BY <1>1, <1>2 DEF BenchInv, RowIsReal, Needed
<1>. QED
  BY <1>2, <1>3, <1>4 DEF BenchInv

LEMMA BenchTickInv ==
    ASSUME BenchInv, BenchTick
    PROVE  BenchInv'
<1>1. /\ ticks' = ticks + 1
      /\ bench' = bench /\ rows' = rows /\ stored' = stored /\ sample' = sample
  BY DEF BenchTick
<1>2. BenchTyped'
  BY <1>1 DEF BenchInv, BenchTyped
<1>3. ticks \in Nat /\ sample.cutoff \in Times
  BY DEF BenchInv, BenchTyped
<1>4. RowSoFar'
  <2>1. bench.at = "replace" /\ bench.kind = "stale" =>
           ticks' >= Second(sample.cutoff) + TicksPerSecond
    <3>. SUFFICES ASSUME bench.at = "replace" /\ bench.kind = "stale"
                  PROVE  ticks' >= Second(sample.cutoff) + TicksPerSecond
      OBVIOUS
    <3>1. /\ ticks >= Second(sample.cutoff) + TicksPerSecond /\ sample.cutoff \in Nat
      BY DEF BenchInv, RowSoFar, OldIsStored
    <3>2. Second(sample.cutoff) \in Nat /\ TicksPerSecond \in Nat
      BY <3>1, SecondsAreTimes, BenchAssumption
    <3>. QED
      BY <1>1, <1>3, <3>1, <3>2
  <2>. QED
    BY <1>1, <2>1 DEF BenchInv, RowSoFar, OldIsStored, NewIsLater
<1>5. InOrder' /\ NoneSkipped' /\ \A c \in Samples : RowIsReal(c, rows[c])'
  BY <1>1 DEF BenchInv, InOrder, NoneSkipped, RowIsReal, Needed
<1>. QED
  BY <1>2, <1>4, <1>5 DEF BenchInv

\* A call is answered and the rows stay.
LEMMA AnsweredTyped ==
    ASSUME BenchInv, NEW call \in BenchCalls,
           NEW next \in {"next"} \union BenchCalls, Answered(call, next)
    PROVE  /\ bench.at = call /\ bench'.at = next
           /\ bench'.kind = bench.kind /\ bench'.left = bench.left
           /\ bench' \in [kind : Adapters \union {"none"}, left : SUBSET Samples,
                          at : {"idle", "launch", "next", "report"} \union BenchCalls]
           /\ sample.case \in Samples \ bench.left
           /\ sample \in SampleRecord
BY DEF BenchInv, BenchTyped, InOrder, SampleRecord, Answered, BenchCalls

LEMMA AddOldInv ==
    ASSUME BenchInv, AddOld
    PROVE  BenchInv'
<1>. DEFINE c == sample.case
            after(admitted) ==
               IF bench.kind = "sleeper" THEN "search"
               ELSE IF admitted THEN "replace" ELSE IF bench.kind = "kernel" THEN "next" ELSE "search"
            answered(admitted) == IF admitted THEN {"add"} ELSE {}
            failed(admitted) == (admitted <=> bench.kind = "sleeper" /\ c \in Poison)
<1>1. PICK admitted \in BOOLEAN :
          /\ Answered("add", after(admitted))
          /\ stored' = IF admitted THEN [stored EXCEPT ![c].old = Second(ticks)] ELSE stored
          /\ sample' = [sample EXCEPT !.cutoff = ticks, !.row.answered = answered(admitted),
                                      !.failed = failed(admitted)]
          /\ ticks' = Waited(bench.kind, ticks)
          /\ rows' = IF bench.kind = "kernel" /\ ~admitted
                     THEN [rows EXCEPT ![c] = [NotTested EXCEPT !.status = "failed"]]
                     ELSE rows
  BY DEF AddOld
<1>2. /\ bench.at = "add" /\ bench'.at = after(admitted) /\ bench'.kind = bench.kind
      /\ bench'.left = bench.left /\ c \in Samples \ bench.left /\ sample \in SampleRecord
      /\ bench' \in [kind : Adapters \union {"none"}, left : SUBSET Samples,
                     at : {"idle", "launch", "next", "report"} \union BenchCalls]
  <2>1. "add" \in BenchCalls /\ after(admitted) \in {"next"} \union BenchCalls
    BY DEF BenchCalls
  <2>. QED
    BY <1>1, <2>1, AnsweredTyped
<1>3. /\ ticks \in Nat /\ Second(ticks) \in Nat /\ Second(ticks) <= ticks
      /\ TicksPerSecond \in Nat /\ ticks \in Times /\ Second(ticks) \in Times
      /\ stored \in [Samples -> [old : Times, new : Times]] /\ stored[c] = NothingStored
  BY <1>2, SecondsAreTimes, BenchAssumption DEF BenchInv, BenchTyped, InOrder, Times
<1>4. /\ sample' \in SampleRecord /\ sample'.case = c /\ sample'.cutoff = ticks
      /\ sample'.failed = failed(admitted) /\ sample'.row.answered = answered(admitted)
  <2>. DEFINE s == [sample EXCEPT !.cutoff = ticks]
              t == [s EXCEPT !.row.answered = answered(admitted)]
  <2>1. /\ s \in SampleRecord /\ s.case = c /\ s.cutoff = ticks
    BY <1>2, <1>3, NewCutoff
  <2>2. answered(admitted) \in SUBSET BenchCalls /\ failed(admitted) \in BOOLEAN
    BY DEF BenchCalls
  <2>3. sample' = [t EXCEPT !.failed = failed(admitted)]
    BY <1>1
  <2>. HIDE DEF s, failed, answered, c
  <2>4. /\ t \in SampleRecord /\ t.case = c /\ t.cutoff = ticks
        /\ t.row.answered = answered(admitted)
    BY <2>1, <2>2, NewAnswered
  <2>. HIDE DEF t
  <2>. QED
    BY <2>2, <2>3, <2>4, NewFailed
<1>5. /\ stored' \in [Samples -> [old : Times, new : Times]]
      /\ stored'[c].new = Never
      /\ admitted => stored'[c].old = Second(ticks)
      /\ \A d \in Samples \ {c} : stored'[d] = stored[d]
  BY <1>1, <1>2, <1>3, FirstRecords DEF NothingStored
<1>6. /\ ticks' \in Nat
      /\ bench.kind = "stale" => ticks' >= Second(ticks) + TicksPerSecond
  BY <1>1, <1>3 DEF Waited
<1>12. /\ rows' \in [Samples -> BenchRows]
       /\ bench.kind # "kernel" => rows' = rows
       /\ \A d \in Samples : rows'[d] = rows[d] \/ rows'[d].status = "failed"
  <2>. DEFINE refused == [NotTested EXCEPT !.status = "failed"]
  <2>1. refused \in BenchRows /\ refused.status = "failed"
    BY FirstRecords, NewStatus
  <2>. HIDE DEF refused
  <2>2. rows' \in {rows, [rows EXCEPT ![c] = refused]} /\ (bench.kind # "kernel" => rows' = rows)
    BY <1>1 DEF refused
  <2>3. rows \in [Samples -> BenchRows]
    BY DEF BenchInv, BenchTyped
  <2>. QED
    BY <2>1, <2>2, <2>3
<1>7. BenchTyped'
  BY <1>2, <1>4, <1>5, <1>6, <1>12 DEF BenchInv, BenchTyped, SampleRecord
<1>8. InOrder'
  BY <1>1, <1>2, <1>4, <1>5 DEF BenchInv, BenchTyped, InOrder, BenchCalls
<1>9. RowSoFar'
  <2>1. CASE bench.kind = "sleeper"
    <3>1. bench'.at = "search"
      BY <1>2, <2>1
    <3>2. ~failed(admitted) => c \in Poison \/ admitted
      BY <2>1
    <3>. QED
      BY <1>2, <1>4, <2>1, <3>1, <3>2 DEF RowSoFar
  <2>2. CASE bench.kind # "sleeper" /\ admitted
    <3>1. bench'.at = "replace"
      BY <1>2, <2>2
    <3>2. "add" \in sample'.row.answered
      BY <1>4, <2>2
    <3>. QED
      BY <1>2, <1>3, <1>4, <1>5, <1>6, <2>2, <3>1, <3>2 DEF RowSoFar, OldIsStored
  <2>3. CASE bench.kind # "sleeper" /\ ~admitted
    <3>1. bench'.at \in {"next", "search"} /\ failed(admitted) = TRUE
      BY <1>2, <2>3
    <3>. QED
      BY <1>2, <1>4, <3>1 DEF RowSoFar
  <2>. QED
    BY <2>1, <2>2, <2>3
<1>10. NoneSkipped'
  <2>1. bench.kind # "kernel" => bench'.at \in BenchCalls
    BY <1>2 DEF BenchCalls
  <2>. HIDE DEF c, after
  <2>. QED
    BY <1>2, <1>4, <1>12, <2>1 DEF c, BenchInv, NoneSkipped, BenchCalls
<1>11. \A d \in Samples : RowIsReal(d, rows[d])'
  BY <1>2, <1>12 DEF BenchInv, RowIsReal, Needed
<1>. QED
  BY <1>7, <1>8, <1>9, <1>10, <1>11 DEF BenchInv

LEMMA ReplaceInv ==
    ASSUME BenchInv, Replace
    PROVE  BenchInv'
<1>. DEFINE c == sample.case
            answered == sample.row.answered \union {"replace"}
<1>1. /\ Answered("replace", "search") /\ rows' = rows /\ ticks' = ticks
      /\ \/ /\ stored' = [stored EXCEPT ![c].new = Second(ticks)]
            /\ sample' = [sample EXCEPT !.row.answered = answered]
         \/ sample' = [sample EXCEPT !.failed = TRUE] /\ stored' = stored
  BY DEF Replace
<1>2. /\ bench.at = "replace" /\ bench'.at = "search" /\ bench'.kind = bench.kind
      /\ bench'.left = bench.left /\ c \in Samples \ bench.left /\ sample \in SampleRecord
      /\ bench' \in [kind : Adapters \union {"none"}, left : SUBSET Samples,
                     at : {"idle", "launch", "next", "report"} \union BenchCalls]
  BY <1>1, AnsweredTyped DEF BenchCalls
<1>3. /\ bench.kind # "sleeper" /\ "add" \in sample.row.answered /\ OldIsStored
      /\ bench.kind = "stale" => ticks >= Second(sample.cutoff) + TicksPerSecond
      /\ ticks \in Nat /\ stored \in [Samples -> [old : Times, new : Times]]
  BY <1>2 DEF BenchInv, BenchTyped, RowSoFar
<1>4. /\ Second(ticks) \in Times
  BY <1>3, SecondsAreTimes DEF Times
<1>5. CASE /\ stored' = [stored EXCEPT ![c].new = Second(ticks)]
           /\ sample' = [sample EXCEPT !.row.answered = answered]
  <2>1. answered \in SUBSET BenchCalls
    BY <1>2, SampleParts DEF BenchCalls
  <2>2. /\ sample' \in SampleRecord /\ sample'.case = c /\ sample'.cutoff = sample.cutoff
        /\ sample'.row.answered = answered
    <3>. HIDE DEF answered, c
    <3>. QED
      BY <1>2, <1>5, <2>1, NewAnswered DEF c
  <2>3. /\ stored' \in [Samples -> [old : Times, new : Times]]
        /\ stored'[c].new = Second(ticks) /\ stored'[c].old = stored[c].old
        /\ \A d \in Samples \ {c} : stored'[d] = stored[d]
    BY <1>2, <1>3, <1>4, <1>5
  <2>4. BenchTyped'
    BY <1>1, <1>2, <2>2, <2>3 DEF BenchInv, BenchTyped, SampleRecord
  <2>5. InOrder'
    BY <1>1, <1>2, <2>2, <2>3 DEF BenchInv, BenchTyped, InOrder, BenchCalls
  <2>6. OldIsStored' /\ NewIsLater'
    BY <1>1, <1>2, <1>3, <2>2, <2>3 DEF OldIsStored, NewIsLater, Second
  <2>7. RowSoFar'
    BY <1>2, <1>3, <2>2, <2>6 DEF RowSoFar
  <2>8. NoneSkipped' /\ \A d \in Samples : RowIsReal(d, rows[d])'
    BY <1>1, <1>2, <2>2 DEF BenchInv, NoneSkipped, RowIsReal, Needed, BenchCalls
  <2>. QED
    BY <2>4, <2>5, <2>7, <2>8 DEF BenchInv
<1>6. CASE sample' = [sample EXCEPT !.failed = TRUE] /\ stored' = stored
  <2>1. /\ sample' \in SampleRecord /\ sample'.case = c /\ sample'.failed = TRUE
    <3>. DEFINE failed == TRUE
    <3>1. failed \in BOOLEAN /\ sample' = [sample EXCEPT !.failed = failed] /\ failed = TRUE
      BY <1>6
    <3>. HIDE DEF failed
    <3>. QED
      BY <1>2, <3>1, NewFailed
  <2>2. BenchTyped'
    BY <1>1, <1>2, <1>6, <2>1 DEF BenchInv, BenchTyped, SampleRecord
  <2>3. InOrder' /\ RowSoFar'
    BY <1>1, <1>2, <1>6, <2>1 DEF BenchInv, InOrder, RowSoFar, BenchCalls
  <2>4. NoneSkipped' /\ \A d \in Samples : RowIsReal(d, rows[d])'
    BY <1>1, <1>2, <2>1 DEF BenchInv, NoneSkipped, RowIsReal, Needed, BenchCalls
  <2>. QED
    BY <2>2, <2>3, <2>4 DEF BenchInv
<1>. QED
  BY <1>1, <1>5, <1>6

LEMMA SearchCurrentInv ==
    ASSUME BenchInv, SearchCurrent
    PROVE  BenchInv'
<1>. DEFINE c == sample.case
            next == IF bench.kind = "sleeper" THEN "next" ELSE "history"
            failed(answers) == sample.failed \/ ~answers
            answered(answers) == IF answers THEN sample.row.answered \union {"search"}
                                 ELSE sample.row.answered
            found(answers) == answers /\ stored[sample.case].old # Never
            s(answers) == [sample EXCEPT !.failed = failed(answers),
                              !.row.answered = answered(answers), !.row.found = found(answers)]
<1>1. PICK answers \in BOOLEAN :
         /\ Answered("search", next)
         /\ sample' = s(answers) /\ stored' = stored /\ ticks' = ticks
         /\ rows' = IF bench.kind = "sleeper"
                    THEN [rows EXCEPT ![s(answers).case] =
                             [s(answers).row EXCEPT !.status = Measured(s(answers))]]
                    ELSE rows
  <2>1. {TRUE} \subseteq BOOLEAN
    OBVIOUS
  <2>. QED
    BY <2>1 DEF SearchCurrent
<1>2. /\ bench.at = "search" /\ bench'.at = next /\ bench'.kind = bench.kind
      /\ bench'.left = bench.left /\ c \in Samples \ bench.left /\ sample \in SampleRecord
      /\ bench' \in [kind : Adapters \union {"none"}, left : SUBSET Samples,
                     at : {"idle", "launch", "next", "report"} \union BenchCalls]
  <2>1. "search" \in BenchCalls /\ next \in {"next"} \union BenchCalls
    BY DEF BenchCalls
  <2>. QED
    BY <1>1, <2>1, AnsweredTyped
<1>3. /\ sample' \in SampleRecord /\ sample'.case = c /\ sample'.cutoff = sample.cutoff
      /\ sample'.failed = failed(answers) /\ sample'.row.answered = answered(answers)
  <2>. DEFINE t == [sample EXCEPT !.failed = failed(answers)]
              u == [t EXCEPT !.row.answered = answered(answers)]
  <2>1. /\ failed(answers) \in BOOLEAN /\ found(answers) \in BOOLEAN
        /\ answered(answers) \in SUBSET BenchCalls
    BY <1>2, SampleParts DEF BenchCalls
  <2>2. sample' = [u EXCEPT !.row.found = found(answers)]
    BY <1>1
  <2>. HIDE DEF failed, found, answered, c
  <2>3. /\ t \in SampleRecord /\ t.case = sample.case /\ t.cutoff = sample.cutoff
        /\ t.failed = failed(answers)
    BY <1>2, <2>1, NewFailed
  <2>. HIDE DEF t
  <2>4. /\ u \in SampleRecord /\ u.case = sample.case /\ u.cutoff = sample.cutoff
        /\ u.failed = failed(answers) /\ u.row.answered = answered(answers)
    BY <2>1, <2>3, NewAnswered
  <2>. HIDE DEF u
  <2>. QED
    BY <2>1, <2>2, <2>4, NewFound DEF c
<1>4. rows' = IF bench.kind = "sleeper"
              THEN [rows EXCEPT ![c] = [sample'.row EXCEPT !.status = Measured(sample')]]
              ELSE rows
  <2>. HIDE DEF s, c
  <2>. QED
    BY <1>1, <1>3 DEF c
<1>. DEFINE row == [sample'.row EXCEPT !.status = Measured(sample')]
<1>5. /\ row \in BenchRows /\ row.status = Measured(sample')
      /\ row.answered = sample'.row.answered /\ row.history = sample'.row.history
      /\ row.status # "not_tested"
  <2>1. sample'.row \in BenchRows /\ Measured(sample') \in {"failed", "measured"}
    BY <1>3 DEF SampleRecord, Measured
  <2>. QED
    BY <2>1, NewStatus
<1>. HIDE DEF s, row
<1>6. /\ rows \in [Samples -> BenchRows] /\ rows' \in [Samples -> BenchRows]
      /\ \A d \in Samples \ {c} : rows'[d] = rows[d]
      /\ bench.kind = "sleeper" => rows'[c] = row
      /\ bench.kind # "sleeper" => rows' = rows
  <2>1. rows \in [Samples -> BenchRows]
    BY DEF BenchInv, BenchTyped
  <2>. QED
    BY <1>2, <1>4, <1>5, <2>1 DEF row
<1>7. ~failed(answers) => ~sample.failed /\ answered(answers) = sample.row.answered \union {"search"}
  OBVIOUS
<1>. HIDE DEF failed, answered
<1>8. BenchTyped' /\ InOrder'
  BY <1>1, <1>2, <1>3, <1>6 DEF BenchInv, BenchTyped, InOrder, SampleRecord, BenchCalls
<1>9. RowSoFar'
  <2>1. bench'.at = "history" /\ ~sample'.failed
        => /\ {"add", "replace", "search"} \subseteq sample'.row.answered
           /\ OldIsStored /\ NewIsLater
    BY <1>2, <1>3, <1>7 DEF BenchInv, RowSoFar
  <2>2. OldIsStored /\ NewIsLater => OldIsStored' /\ NewIsLater'
    BY <1>1, <1>2, <1>3 DEF OldIsStored, NewIsLater, Second
  <2>. QED
    BY <1>2, <2>1, <2>2 DEF RowSoFar
<1>10. NoneSkipped'
  BY <1>2, <1>3, <1>5, <1>6 DEF BenchInv, NoneSkipped, BenchCalls
<1>11. \A d \in Samples : RowIsReal(d, rows[d])'
  <2>1. CASE bench.kind # "sleeper"
    BY <1>2, <1>6, <2>1 DEF BenchInv, RowIsReal, Needed
  <2>2. CASE bench.kind = "sleeper"
    <3>1. row.status = "measured" => Needed(c) \subseteq row.answered
      <4>. SUFFICES ASSUME row.status = "measured"
                    PROVE  Needed(c) \subseteq row.answered
        OBVIOUS
      <4>1. ~failed(answers)
        BY <1>3, <1>5 DEF Measured
      <4>2. c \in Poison \/ "add" \in sample.row.answered
        BY <1>2, <1>7, <2>2, <4>1 DEF BenchInv, RowSoFar
      <4>. QED
        BY <1>3, <1>5, <1>7, <2>2, <4>1, <4>2 DEF Needed
    <3>. QED
      BY <1>2, <1>6, <2>2, <3>1 DEF BenchInv, RowIsReal, Needed
  <2>. QED
    BY <2>1, <2>2
<1>. QED
  BY <1>8, <1>9, <1>10, <1>11 DEF BenchInv

LEMMA SearchHistoryInv ==
    ASSUME BenchInv, SearchHistory
    PROVE  BenchInv'
<1>. DEFINE c == sample.case
            failed(answers) == IF bench.kind = "kernel" THEN sample.failed
                               ELSE sample.failed \/ ~answers
            answered(answers) == IF answers THEN sample.row.answered \union {"history"}
                                 ELSE sample.row.answered
            history(answers) == IF answers THEN AsOf(sample.case, sample.cutoff) ELSE {}
            s(answers) == [sample EXCEPT !.failed = failed(answers),
                              !.row.answered = answered(answers), !.row.history = history(answers)]
<1>1. PICK answers \in BOOLEAN :
         /\ Answered("history", "next")
         /\ sample' = s(answers) /\ stored' = stored /\ ticks' = ticks
         /\ rows' = [rows EXCEPT ![s(answers).case] =
                        [s(answers).row EXCEPT !.status = Measured(s(answers))]]
  BY DEF SearchHistory
<1>2. /\ bench.at = "history" /\ bench'.at = "next" /\ bench'.kind = bench.kind
      /\ bench'.left = bench.left /\ c \in Samples \ bench.left /\ sample \in SampleRecord
      /\ bench' \in [kind : Adapters \union {"none"}, left : SUBSET Samples,
                     at : {"idle", "launch", "next", "report"} \union BenchCalls]
  BY <1>1, AnsweredTyped DEF BenchCalls
<1>3. /\ sample' \in SampleRecord /\ sample'.case = c
      /\ sample'.failed = failed(answers) /\ sample'.row.answered = answered(answers)
      /\ sample'.row.history = history(answers)
  <2>. DEFINE t == [sample EXCEPT !.failed = failed(answers)]
              u == [t EXCEPT !.row.answered = answered(answers)]
  <2>1. /\ failed(answers) \in BOOLEAN /\ history(answers) \in SUBSET {"old", "new"}
        /\ answered(answers) \in SUBSET BenchCalls
    BY <1>2, SampleParts DEF BenchCalls, AsOf
  <2>2. sample' = [u EXCEPT !.row.history = history(answers)]
    BY <1>1
  <2>. HIDE DEF failed, history, answered, c
  <2>3. /\ t \in SampleRecord /\ t.case = sample.case /\ t.failed = failed(answers)
    BY <1>2, <2>1, NewFailed
  <2>. HIDE DEF t
  <2>4. /\ u \in SampleRecord /\ u.case = sample.case
        /\ u.failed = failed(answers) /\ u.row.answered = answered(answers)
    BY <2>1, <2>3, NewAnswered
  <2>. HIDE DEF u
  <2>. QED
    BY <2>1, <2>2, <2>4, NewHistory DEF c
<1>4. rows' = [rows EXCEPT ![c] = [sample'.row EXCEPT !.status = Measured(sample')]]
  <2>. HIDE DEF s, c
  <2>. QED
    BY <1>1, <1>3 DEF c
<1>. DEFINE row == [sample'.row EXCEPT !.status = Measured(sample')]
<1>5. /\ row \in BenchRows /\ row.status = Measured(sample')
      /\ row.answered = sample'.row.answered /\ row.history = sample'.row.history
      /\ row.status # "not_tested"
  <2>1. sample'.row \in BenchRows /\ Measured(sample') \in {"failed", "measured"}
    BY <1>3 DEF SampleRecord, Measured
  <2>. QED
    BY <2>1, NewStatus
<1>. HIDE DEF s, row
<1>6. /\ rows' \in [Samples -> BenchRows] /\ rows'[c] = row
      /\ \A d \in Samples \ {c} : rows'[d] = rows[d]
  <2>1. rows \in [Samples -> BenchRows]
    BY DEF BenchInv, BenchTyped
  <2>. QED
    BY <1>2, <1>4, <1>5, <2>1 DEF row
<1>7. row.status = "measured" /\ bench.kind # "kernel" =>
        /\ {"add", "replace", "search", "history"} \subseteq row.answered
        /\ row.history = AsOf(c, sample.cutoff) /\ OldIsStored /\ NewIsLater
  <2>. SUFFICES ASSUME row.status = "measured", bench.kind # "kernel"
                PROVE  /\ {"add", "replace", "search", "history"} \subseteq row.answered
                       /\ row.history = AsOf(c, sample.cutoff) /\ OldIsStored /\ NewIsLater
    OBVIOUS
  <2>1. ~failed(answers)
    <3>. HIDE DEF failed
    <3>. QED
      BY <1>3, <1>5 DEF Measured
  <2>2. ~sample.failed /\ answers
    BY <2>1
  <2>. QED
    BY <1>2, <1>3, <1>5, <2>2 DEF BenchInv, RowSoFar
<1>8. bench.kind = "stale" /\ OldIsStored /\ NewIsLater => AsOf(c, sample.cutoff) = {"old"}
  <2>. SUFFICES ASSUME bench.kind = "stale", OldIsStored, NewIsLater
                PROVE  AsOf(c, sample.cutoff) = {"old"}
    OBVIOUS
  <2>1. PICK t \in Nat : /\ stored[c].new = Second(t)
                         /\ t >= Second(sample.cutoff) + TicksPerSecond
    BY DEF NewIsLater
  <2>2. /\ sample.cutoff \in Nat /\ stored[c].old = Second(sample.cutoff)
    BY DEF OldIsStored
  <2>3. /\ stored[c].old \in Nat /\ stored[c].old <= sample.cutoff
        /\ stored[c].new \in Nat /\ stored[c].new > sample.cutoff
    BY <2>1, <2>2, SecondsAreTimes, LaterSeconds
  <2>4. By(stored[c].old, sample.cutoff) /\ ~By(stored[c].new, sample.cutoff)
    BY <2>2, <2>3, BenchAssumption DEF By
  <2>. HIDE DEF c
  <2>5. "old" \in AsOf(c, sample.cutoff)
    BY <2>4 DEF AsOf
  <2>6. "new" \notin AsOf(c, sample.cutoff)
    BY <2>4 DEF AsOf
  <2>7. AsOf(c, sample.cutoff) \subseteq {"old", "new"}
    BY DEF AsOf
  <2>. QED
    BY <2>5, <2>6, <2>7
<1>9. BenchTyped' /\ InOrder' /\ RowSoFar'
  BY <1>1, <1>2, <1>3, <1>6
     DEF BenchInv, BenchTyped, InOrder, RowSoFar, SampleRecord, BenchCalls
<1>10. NoneSkipped'
  BY <1>2, <1>5, <1>6 DEF BenchInv, NoneSkipped, BenchCalls
<1>11. \A d \in Samples : RowIsReal(d, rows[d])'
  <2>1. RowIsReal(c, row)
    <3>1. bench.kind # "sleeper"
      BY <1>2 DEF BenchInv, RowSoFar
    <3>. QED
      BY <1>7, <1>8, <3>1 DEF RowIsReal, Needed
  <2>. QED
    BY <1>2, <1>6, <2>1 DEF BenchInv, RowIsReal, Needed
<1>. QED
  BY <1>9, <1>10, <1>11 DEF BenchInv

LEMMA InitBenchInv == BenchInit => BenchInv
<1>. SUFFICES ASSUME BenchInit
              PROVE  BenchInv
  OBVIOUS
<1>1. BenchTyped
  BY FirstRecords DEF BenchInit, BenchTyped, SampleRecord
<1>2. InOrder /\ RowSoFar /\ NoneSkipped
  BY DEF BenchInit, InOrder, RowSoFar, NoneSkipped, BenchCalls
<1>3. \A c \in Samples : RowIsReal(c, rows[c])
  BY FirstRecords DEF BenchInit, RowIsReal
<1>. QED
  BY <1>1, <1>2, <1>3 DEF BenchInv

LEMMA NextBenchInv == BenchInv /\ [BenchNext]_benchVars => BenchInv'
<1>. SUFFICES ASSUME BenchInv, [BenchNext]_benchVars
              PROVE  BenchInv'
  OBVIOUS
<1>1. CASE UNCHANGED benchVars
  BY <1>1 DEF benchVars, BenchInv, BenchTyped, InOrder, RowSoFar, NoneSkipped, RowIsReal, Needed,
              OldIsStored, NewIsLater
<1>. QED
  BY <1>1, StartBenchInv, ServerReadyInv, ServerFailsInv, NextSampleInv, AddOldInv, ReplaceInv,
     SearchCurrentInv, SearchHistoryInv, EndRowsInv, BenchTickInv DEF BenchNext

LEMMA BenchInvariant == BenchSpec => []BenchInv
BY InitBenchInv, NextBenchInv, PTL DEF BenchSpec

\* The memory lanes keep the types of their state.
THEOREM BenchTypeCorrect == BenchSpec => []BenchTypeOK
<1>1. BenchInv => BenchTypeOK
  BY DEF BenchInv, BenchTyped, BenchTypeOK, BenchRows, BenchCalls
<1>. QED
  BY <1>1, BenchInvariant, PTL

\* benchmark-diagnostic-memory.py, line 1149, and the lanes around it: for any
\* number of cases, any clock and any failures of the server, a row that says
\* measured was, and the as-of search of a STALE row is exact.
THEOREM MeasuredRowsAreReal == BenchSpec => []ReportIsReal
<1>1. BenchInv => ReportIsReal
  BY DEF BenchInv, RowIsReal, NoneSkipped, ReportIsReal, NothingIsSimulated, HistoryIsExact
<1>. QED
  BY <1>1, BenchInvariant, PTL

-----------------------------------------------------------------------------
(* The competitors. *)

Memories == {"old", "new"}
Cuttable == {"server 1", "server 2", "open", "failed", "done", "none"}
WorkerPlaces == {"next", "add", "update", "search", "row"}
RowsUnderWay == [failed : BOOLEAN, history : BOOLEAN, answered : 0 .. NumProbes,
                 found : [Probes -> SUBSET Memories]]
Metrics == [current : BOOLEAN, suppressed : BOOLEAN, history : BOOLEAN, conflict : BOOLEAN,
            responds : BOOLEAN]
KeptRows == [case : RivalCases, failed : BOOLEAN, held : SUBSET Memories, metrics : SUBSET Metrics]
Workers == [at : Cuttable \union {"agent"} \union WorkerPlaces, ranking : BOOLEAN, case : 0 .. NumCases,
            row : RowsUnderWay, rows : Seq(KeptRows)]
Records == [status : {"not_tested", "failed", "measured"}, rows : Seq(KeptRows),
            ranking : {"none", "not_tested", "failed", "diagnostic_only"}]

RivalTyped ==
    /\ rivalRun \in [at : {"choose", "worker", "report", "no report"}, next : 1 .. 5,
                     given : Interpreters, ranking : BOOLEAN]
    /\ worker \in Workers
    /\ kept \in [RivalCases -> SUBSET Memories]
    /\ servers \subseteq {1, 2}
    /\ records \in [CompetitorIds -> Records]

\* A server belongs to a worker that was killed, to the Letta worker at work, or to
\* one that failed.
ServersBelong ==
    servers # {} => \/ rivalRun.at = "no report"
                    \/ /\ rivalRun.at = "worker" /\ rivalRun.next = 3
                       /\ worker.at \notin Cuttable \ {"failed"}
                    \/ rivalRun.next > 3 /\ Abandoned

\* A worker is of one of the competitors, and only Letta's has a server.
WorkersBelong ==
    /\ rivalRun.at = "worker" => rivalRun.next <= 4
    /\ rivalRun.at \in {"choose", "report"} => worker.at = "none"
    /\ worker.at \in {"server 1", "server 2", "agent"} => rivalRun.next = 3
    /\ ServersBelong

\* What the case under way has found is what its namespace holds, and mem0 is asked
\* for a history only when the old memory was replaced.
FindingsTrue ==
    /\ worker.at \in {"add", "update", "search", "row"} => worker.case \in RivalCases
    /\ worker.at # "row" => ~worker.row.history
    /\ worker.at \in {"search", "row"} =>
          \A p \in Probes : worker.row.found[p] \subseteq kept[worker.case]
    /\ worker.at \notin {"search", "row"} => \A p \in Probes : worker.row.found[p] = {}
    /\ worker.at = "search" /\ ~Observes /\ Id = "mem0" => kept[worker.case] = {"new"}
    /\ worker.at = "row" /\ worker.row.history =>
          /\ Id = "mem0" /\ ~Observes /\ kept[worker.case] = {"new"}

\* A row per case, in order, and each is earned.
RowsInOrder ==
    /\ worker.at \in {"next", "done"} => Len(worker.rows) = worker.case
    /\ worker.at = "done" => worker.case = NumCases
    /\ worker.at \in {"add", "update", "search", "row"} => Len(worker.rows) + 1 = worker.case
    /\ worker.at \in Cuttable \union {"agent"} =>
          worker.at \in {"done", "failed"} \/ (worker.rows = <<>> /\ worker.case = 0)
    /\ \A i \in DOMAIN worker.rows :
          worker.rows[i].case = i /\ EarnedRow(Id, worker.rows[i])

RecordIsReal(r, record) ==
    /\ \A i \in DOMAIN record.rows : EarnedRow(r, record.rows[i])
    /\ record.status = "measured" =>
          /\ {record.rows[i].case : i \in DOMAIN record.rows} = RivalCases
          /\ ~AnyFailed(record.rows)
    /\ record.status = "not_tested" => record.rows = <<>>

RivalInv ==
    /\ RivalTyped /\ WorkersBelong /\ FindingsTrue /\ RowsInOrder
    /\ \A r \in CompetitorIds : RecordIsReal(r, records[r])

Steps == Cuttable \union {"agent"} \union WorkerPlaces

LEMMA RowIsNew ==
    /\ NewRow \in RowsUnderWay /\ ~NewRow.history /\ ~NewRow.failed /\ NewRow.answered = 0
    /\ \A p \in Probes : NewRow.found[p] = {}
<1>1. 0 \in 0 .. NumProbes
  BY RivalAssumption
<1>. QED
  BY <1>1 DEF NewRow, RowsUnderWay

LEMMA WorkerParts ==
    ASSUME RivalInv
    PROVE  /\ worker \in Workers /\ worker.at \in Steps /\ worker.ranking \in BOOLEAN
           /\ worker.case \in 0 .. NumCases /\ worker.row \in RowsUnderWay
           /\ worker.rows \in Seq(KeptRows) /\ Len(worker.rows) \in Nat
           /\ DOMAIN worker.rows = 1 .. Len(worker.rows)
<1>1. worker \in Workers
  BY DEF RivalInv, RivalTyped
<1>2. worker.rows \in Seq(KeptRows)
  BY <1>1 DEF Workers
<1>. QED
  BY <1>1, <1>2, LenProperties DEF Workers, Steps

LEMMA WorkerMoves ==
    ASSUME NEW w \in Workers, NEW at \in Steps
    PROVE  LET new == [w EXCEPT !.at = at]
           IN  /\ new \in Workers /\ new.at = at /\ new.ranking = w.ranking
               /\ new.case = w.case /\ new.row = w.row /\ new.rows = w.rows
BY DEF Workers, Steps

LEMMA RowChanges ==
    ASSUME NEW w \in Workers, NEW row \in RowsUnderWay
    PROVE  LET new == [w EXCEPT !.row = row]
           IN  /\ new \in Workers /\ new.at = w.at /\ new.ranking = w.ranking
               /\ new.case = w.case /\ new.row = row /\ new.rows = w.rows
BY DEF Workers

LEMMA CaseChanges ==
    ASSUME NEW w \in Workers, NEW case \in 0 .. NumCases
    PROVE  LET new == [w EXCEPT !.case = case]
           IN  /\ new \in Workers /\ new.at = w.at /\ new.ranking = w.ranking
               /\ new.case = case /\ new.row = w.row /\ new.rows = w.rows
BY DEF Workers

LEMMA RowsChange ==
    ASSUME NEW w \in Workers, NEW kepts \in Seq(KeptRows)
    PROVE  LET new == [w EXCEPT !.rows = kepts]
           IN  /\ new \in Workers /\ new.at = w.at /\ new.ranking = w.ranking
               /\ new.case = w.case /\ new.row = w.row /\ new.rows = kepts
BY DEF Workers

\* A worker that is started, and the one that is not there.
LEMMA FreshWorkers ==
    /\ NoWorker \in Workers /\ NoWorker.at = "none" /\ NoWorker.case = 0
    /\ NoWorker.row = NewRow /\ NoWorker.rows = <<>>
<1>1. 0 \in 0 .. NumCases /\ <<>> \in Seq(KeptRows)
  BY RivalAssumption
<1>. QED
  BY <1>1, RowIsNew DEF NoWorker, Workers, Cuttable

LEMMA StartedWorkers ==
    ASSUME NEW ranking \in BOOLEAN, StartWorker(ranking)
    PROVE  /\ worker' \in Workers /\ worker'.case = 0 /\ worker'.row = NewRow
           /\ worker'.rows = <<>> /\ worker'.at \in {"server 1", "open"}
           /\ worker'.at = "server 1" => Id = "letta"
<1>. DEFINE at == IF Id = "letta" THEN "server 1" ELSE "open"
            w == [NoWorker EXCEPT !.at = at]
<1>1. /\ at \in {"server 1", "open"} /\ worker' = [w EXCEPT !.ranking = ranking]
      /\ at = "server 1" => Id = "letta"
  BY DEF StartWorker
<1>2. at \in Steps
  BY <1>1 DEF Steps, Cuttable
<1>3. /\ w \in Workers /\ w.at = at /\ w.case = 0 /\ w.row = NewRow /\ w.rows = <<>>
  <2>. HIDE DEF at
  <2>. QED
    BY <1>2, FreshWorkers, WorkerMoves
<1>. HIDE DEF at, w
<1>. QED
  BY <1>1, <1>3 DEF Workers

\* A step of the worker that leaves its row and its case alone.
LEMMA MovesTyped ==
    ASSUME RivalInv, NEW at \in Steps, worker' = [worker EXCEPT !.at = at],
           rivalRun' = rivalRun, records' = records
    PROVE  /\ worker' \in Workers /\ worker'.at = at /\ worker'.ranking = worker.ranking
           /\ worker'.case = worker.case /\ worker'.row = worker.row
           /\ worker'.rows = worker.rows /\ Id' = Id /\ Observes' = Observes
           /\ \A r \in CompetitorIds : RecordIsReal(r, records[r])'
<1>1. worker' \in Workers /\ worker'.at = at /\ worker'.ranking = worker.ranking
      /\ worker'.case = worker.case /\ worker'.row = worker.row /\ worker'.rows = worker.rows
  BY WorkerParts, WorkerMoves
<1>. QED
  BY <1>1 DEF Id, Observes, RivalInv, RecordIsReal, AnyFailed, EarnedRow

\* Opening, serving and ending: steps outside the cases.
LEMMA OpeningInv ==
    ASSUME RivalInv, NEW at \in Steps \ {"done", "none", "add", "update", "search", "row"},
           rivalRun.at = "worker", worker.at \in {"open", "server 1", "server 2", "agent"},
           worker' = [worker EXCEPT !.at = at], rivalRun' = rivalRun, records' = records,
           kept' = kept, servers' \subseteq {1, 2},
           at \in {"server 1", "server 2", "agent"} => rivalRun.next = 3,
           at = "open" => worker.at = "open", ServersBelong'
    PROVE  RivalInv'
<1>1. /\ worker' \in Workers /\ worker'.at = at /\ worker'.ranking = worker.ranking
      /\ worker'.case = worker.case /\ worker'.row = worker.row
      /\ worker'.rows = worker.rows /\ Id' = Id /\ Observes' = Observes
      /\ \A r \in CompetitorIds : RecordIsReal(r, records[r])'
  BY MovesTyped
<1>2. at \in Steps /\ worker.case = 0 /\ worker.rows = <<>> /\ Len(worker.rows) = 0
  BY DEF RivalInv, RowsInOrder, Cuttable
<1>3. RivalTyped'
  BY <1>1 DEF RivalInv, RivalTyped
<1>4. WorkersBelong'
  BY <1>1 DEF RivalInv, WorkersBelong
<1>5. FindingsTrue'
  BY <1>1 DEF RivalInv, FindingsTrue
<1>6. RowsInOrder'
  BY <1>1, <1>2 DEF RivalInv, RowsInOrder, Cuttable, Steps, WorkerPlaces
<1>. QED
  BY <1>1, <1>3, <1>4, <1>5, <1>6 DEF RivalInv

LEMMA OpenStoreInv ==
    ASSUME RivalInv, OpenStore
    PROVE  RivalInv'
<1>. DEFINE at == worker'.at
<1>1. PICK step \in {"next", "failed"} : worker' = [worker EXCEPT !.at = step]
  BY DEF OpenStore
<1>2. /\ rivalRun.at = "worker" /\ worker.at = "open"
      /\ rivalRun' = rivalRun /\ records' = records /\ kept' = kept /\ servers' = servers
  BY DEF OpenStore, Step
<1>3. step \in Steps \ {"done", "none", "add", "update", "search", "row"}
  BY DEF Steps, Cuttable, WorkerPlaces
<1>4. servers' \subseteq {1, 2} /\ step \notin {"server 1", "server 2", "agent", "open"}
  BY <1>2 DEF RivalInv, RivalTyped
<1>5. worker'.at = step
  BY <1>1, <1>3, WorkerParts, WorkerMoves
<1>6. ServersBelong'
  BY <1>2, <1>5 DEF RivalInv, WorkersBelong, ServersBelong, Cuttable, Abandoned
<1>. QED
  BY <1>1, <1>2, <1>3, <1>4, <1>6, OpeningInv

LEMMA ServersInv ==
    ASSUME RivalInv, NEW strategy \in {1, 2},
           \/ LaunchServer(strategy) \/ ServerUnhealthy(strategy)
           \/ StartEscapes(strategy)
    PROVE  RivalInv'
<1>1. /\ rivalRun.at = "worker" /\ worker.at \in {"server 1", "server 2"}
      /\ rivalRun' = rivalRun /\ records' = records /\ kept' = kept
      /\ servers' \subseteq {1, 2}
  BY DEF LaunchServer, ServerUnhealthy, StartEscapes, Step, RivalInv, RivalTyped
<1>2. servers = {} /\ rivalRun.next = 3
  <2>1. rivalRun.next = 3
    BY <1>1 DEF RivalInv, WorkersBelong
  <2>2. worker.at \in Cuttable \ {"failed"} /\ rivalRun.at # "no report"
    BY <1>1 DEF Cuttable
  <2>3. ~(rivalRun.next > 3)
    BY <2>1
  <2>. QED
    BY <2>1, <2>2, <2>3 DEF RivalInv, WorkersBelong, ServersBelong
<1>3. PICK at \in {"agent", "server 2", "failed"} :
          /\ worker' = [worker EXCEPT !.at = at]
          /\ at = "server 2" => servers' = {}
  <2>1. CASE LaunchServer(strategy)
    BY <2>1 DEF LaunchServer
  <2>2. CASE ServerUnhealthy(strategy)
    BY <1>2, <2>2 DEF ServerUnhealthy
  <2>3. CASE StartEscapes(strategy)
    BY <2>3 DEF StartEscapes
  <2>. QED
    BY <2>1, <2>2, <2>3
<1>4. at \in Steps \ {"done", "none", "add", "update", "search", "row"}
  BY DEF Steps, Cuttable
<1>5. worker'.at = at
  BY <1>3, <1>4, WorkerParts, WorkerMoves
<1>6. ServersBelong'
  BY <1>1, <1>2, <1>3, <1>5 DEF ServersBelong, Cuttable
<1>. QED
  BY <1>1, <1>2, <1>3, <1>4, <1>6, OpeningInv

LEMMA CreateAgentInv ==
    ASSUME RivalInv, CreateAgent
    PROVE  RivalInv'
<1>1. /\ rivalRun.at = "worker" /\ worker.at = "agent"
      /\ rivalRun' = rivalRun /\ records' = records /\ kept' = kept
      /\ servers' \in {{}, servers} /\ servers \subseteq {1, 2}
  BY DEF CreateAgent, Step, RivalInv, RivalTyped
<1>2. PICK at \in {"next", "failed"} : worker' = [worker EXCEPT !.at = at]
  BY DEF CreateAgent
<1>3. at \in Steps \ {"done", "none", "add", "update", "search", "row"}
  BY DEF Steps, Cuttable, WorkerPlaces
<1>4. worker'.at = at /\ rivalRun.next = 3
  BY <1>1, <1>2, <1>3, WorkerParts, WorkerMoves DEF RivalInv, WorkersBelong
<1>5. ServersBelong'
  BY <1>1, <1>4 DEF ServersBelong, Cuttable
<1>. QED
  BY <1>1, <1>2, <1>3, <1>5, OpeningInv

LEMMA BeginCaseInv ==
    ASSUME RivalInv, BeginCase
    PROVE  RivalInv'
<1>. DEFINE w == [worker EXCEPT !.at = "add"]
            case == worker.case + 1
<1>1. /\ rivalRun.at = "worker" /\ worker.at = "next" /\ worker.case < NumCases
      /\ worker' = [w EXCEPT !.case = case]
      /\ rivalRun' = rivalRun /\ records' = records /\ kept' = kept /\ servers' = servers
  BY DEF BeginCase, Step
<1>2. case \in 0 .. NumCases /\ case \in RivalCases /\ worker.case \in Nat /\ "add" \in Steps
  BY <1>1, WorkerParts, RivalAssumption DEF RivalCases, Steps, WorkerPlaces
<1>3. /\ w \in Workers /\ w.at = "add" /\ w.ranking = worker.ranking
      /\ w.row = worker.row /\ w.rows = worker.rows
  BY <1>2, WorkerParts, WorkerMoves
<1>. HIDE DEF w, case
<1>4. /\ worker' \in Workers /\ worker'.at = "add" /\ worker'.ranking = worker.ranking
      /\ worker'.row = worker.row /\ worker'.rows = worker.rows /\ worker'.case = case
      /\ Id' = Id /\ Observes' = Observes
  BY <1>1, <1>2, <1>3, CaseChanges DEF Id, Observes
<1>5. RivalTyped' /\ WorkersBelong'
  BY <1>1, <1>4 DEF RivalInv, RivalTyped, WorkersBelong, ServersBelong, Abandoned, Cuttable
<1>6. FindingsTrue'
  BY <1>1, <1>2, <1>4 DEF RivalInv, FindingsTrue
<1>7. RowsInOrder'
  BY <1>1, <1>2, <1>4 DEF RivalInv, RowsInOrder, Cuttable, case
<1>8. \A r \in CompetitorIds : RecordIsReal(r, records[r])'
  BY <1>1 DEF RivalInv, RecordIsReal, AnyFailed, EarnedRow
<1>. QED
  BY <1>5, <1>6, <1>7, <1>8 DEF RivalInv

LEMMA StoreOldInv ==
    ASSUME RivalInv, StoreOld
    PROVE  RivalInv'
<1>1. PICK at \in {"search", "update"} :
          worker' = [worker EXCEPT !.at = at] /\ (at = "search" => Observes)
  BY DEF StoreOld
<1>2. /\ rivalRun.at = "worker" /\ worker.at = "add"
      /\ rivalRun' = rivalRun /\ records' = records /\ servers' = servers
      /\ kept' = IF Observes THEN kept ELSE [kept EXCEPT ![worker.case] = {"old"}]
      /\ kept \in [RivalCases -> SUBSET Memories]
      /\ worker' = [worker EXCEPT !.at = IF Observes THEN "search" ELSE "update"]
  BY DEF StoreOld, Step, RivalInv, RivalTyped
<1>3. at \in Steps /\ "old" \in Memories
  BY DEF Steps, WorkerPlaces, Memories
<1>4. /\ worker' \in Workers /\ worker'.at = at /\ worker'.ranking = worker.ranking
      /\ worker'.case = worker.case /\ worker'.row = worker.row
      /\ worker'.rows = worker.rows /\ Id' = Id /\ Observes' = Observes
      /\ \A r \in CompetitorIds : RecordIsReal(r, records[r])'
  BY <1>1, <1>2, <1>3, MovesTyped
<1>5. at = "search" => Observes
  <2>1. worker'.at = IF Observes THEN "search" ELSE "update"
    BY <1>2, WorkerParts, WorkerMoves DEF Steps, WorkerPlaces
  <2>. QED
    BY <1>4, <2>1
<1>6. kept' \in [RivalCases -> SUBSET Memories]
  BY <1>2, <1>3
<1>7. RivalTyped' /\ WorkersBelong'
  BY <1>2, <1>4, <1>6 DEF RivalInv, RivalTyped, WorkersBelong, ServersBelong, Abandoned, Cuttable
<1>8. FindingsTrue'
  BY <1>2, <1>4, <1>5 DEF RivalInv, FindingsTrue
<1>9. RowsInOrder'
  BY <1>2, <1>4 DEF RivalInv, RowsInOrder, Cuttable
<1>. QED
  BY <1>4, <1>7, <1>8, <1>9 DEF RivalInv

LEMMA StoreNewInv ==
    ASSUME RivalInv, StoreNew
    PROVE  RivalInv'
<1>. DEFINE memories == IF Id = "letta" THEN {"old", "new"} ELSE {"new"}
<1>1. /\ rivalRun.at = "worker" /\ worker.at = "update"
      /\ worker' = [worker EXCEPT !.at = "search"]
      /\ rivalRun' = rivalRun /\ records' = records /\ servers' = servers
      /\ kept' = [kept EXCEPT ![worker.case] = memories]
      /\ kept \in [RivalCases -> SUBSET Memories]
  BY DEF StoreNew, Step, RivalInv, RivalTyped
<1>2. "search" \in Steps /\ memories \subseteq Memories /\ worker.case \in RivalCases
  BY <1>1 DEF Steps, WorkerPlaces, Memories, RivalInv, FindingsTrue
<1>3. /\ worker' \in Workers /\ worker'.at = "search" /\ worker'.ranking = worker.ranking
      /\ worker'.case = worker.case /\ worker'.row = worker.row
      /\ worker'.rows = worker.rows /\ Id' = Id /\ Observes' = Observes
      /\ \A r \in CompetitorIds : RecordIsReal(r, records[r])'
  BY <1>1, <1>2, MovesTyped
<1>4. kept' \in [RivalCases -> SUBSET Memories] /\ kept'[worker.case] = memories
  BY <1>1, <1>2
<1>5. RivalTyped' /\ WorkersBelong'
  BY <1>1, <1>3, <1>4 DEF RivalInv, RivalTyped, WorkersBelong, ServersBelong, Abandoned, Cuttable
<1>6. FindingsTrue'
  BY <1>1, <1>2, <1>3, <1>4 DEF RivalInv, FindingsTrue
<1>7. RowsInOrder'
  BY <1>1, <1>3 DEF RivalInv, RowsInOrder, Cuttable
<1>. QED
  BY <1>3, <1>5, <1>6, <1>7 DEF RivalInv

\* The row under way changes, or the worker goes on to keep it.
LEMMA FindingInv ==
    ASSUME RivalInv, rivalRun.at = "worker", worker.at \in {"add", "update", "search"},
           NEW at \in {"search", "row"}, at = "search" => worker.at = "search",
           NEW row \in RowsUnderWay, worker' \in Workers, worker'.at = at,
           worker'.ranking = worker.ranking, worker'.case = worker.case, worker'.row = row,
           worker'.rows = worker.rows,
           \A p \in Probes : row.found[p] \subseteq kept[worker.case],
           row.history => /\ at = "row" /\ worker.at = "search"
                          /\ Id = "mem0" /\ ~Observes,
           rivalRun' = rivalRun, records' = records, kept' = kept, servers' = servers
    PROVE  RivalInv'
<1>2. Id' = Id /\ Observes' = Observes
  BY DEF Id, Observes
<1>3. RivalTyped' /\ WorkersBelong'
  BY <1>2 DEF RivalInv, RivalTyped, WorkersBelong, ServersBelong, Abandoned, Cuttable
<1>4. FindingsTrue'
  BY <1>2 DEF RivalInv, FindingsTrue
<1>5. RowsInOrder'
  BY <1>2 DEF RivalInv, RowsInOrder, Cuttable
<1>6. \A r \in CompetitorIds : RecordIsReal(r, records[r])'
  BY DEF RivalInv, RecordIsReal, AnyFailed, EarnedRow
<1>. QED
  BY <1>3, <1>4, <1>5, <1>6 DEF RivalInv

\* What each kind of answer makes of the row under way.
LEMMA RowFails ==
    ASSUME NEW row \in RowsUnderWay, NEW failed \in BOOLEAN
    PROVE  LET new == [row EXCEPT !.failed = failed]
           IN  new \in RowsUnderWay /\ new.found = row.found /\ new.history = row.history
BY DEF RowsUnderWay

LEMMA RowLearns ==
    ASSUME NEW row \in RowsUnderWay, NEW history \in BOOLEAN
    PROVE  LET new == [row EXCEPT !.history = history]
           IN  new \in RowsUnderWay /\ new.found = row.found
BY DEF RowsUnderWay

LEMMA RowCounts ==
    ASSUME NEW row \in RowsUnderWay, NEW answered \in 0 .. NumProbes
    PROVE  LET new == [row EXCEPT !.answered = answered]
           IN  new \in RowsUnderWay /\ new.found = row.found /\ new.history = row.history
BY DEF RowsUnderWay

LEMMA RowFinds ==
    ASSUME NEW row \in RowsUnderWay, NEW found \in [Probes -> SUBSET Memories]
    PROVE  LET new == [row EXCEPT !.found = found]
           IN  new \in RowsUnderWay /\ new.found = found /\ new.history = row.history
BY DEF RowsUnderWay

LEMMA SearchProbeInv ==
    ASSUME RivalInv, SearchProbe
    PROVE  RivalInv'
<1>. DEFINE n == worker.row.answered + 1
            u == [worker.row EXCEPT !.answered = n]
            all(texts) == [worker.row.found EXCEPT ![n] = texts]
            row(texts) == [u EXCEPT !.found = all(texts)]
<1>1. PICK texts \in SUBSET (IF Observes THEN {} ELSE kept[worker.case]) :
          worker' = [worker EXCEPT !.row.answered = worker.row.answered + 1,
                                   !.row.found[worker.row.answered + 1] = texts]
  BY DEF SearchProbe
<1>2. /\ rivalRun.at = "worker" /\ worker.at = "search" /\ worker.row.answered < NumProbes
      /\ rivalRun' = rivalRun /\ records' = records /\ kept' = kept /\ servers' = servers
  BY DEF SearchProbe, Step
<1>3. /\ worker.case \in RivalCases /\ ~worker.row.history
      /\ \A p \in Probes : worker.row.found[p] \subseteq kept[worker.case]
      /\ kept \in [RivalCases -> SUBSET Memories]
  BY <1>2 DEF RivalInv, RivalTyped, FindingsTrue
<1>4. texts \subseteq Memories /\ texts \subseteq kept[worker.case]
  BY <1>1, <1>3
<1>5. /\ worker.row \in RowsUnderWay /\ worker.row.answered \in Nat
      /\ n \in 0 .. NumProbes /\ n \in Probes /\ worker.row.found \in [Probes -> SUBSET Memories]
  BY <1>2, WorkerParts, RivalAssumption DEF RowsUnderWay, Probes
<1>6. /\ all(texts) \in [Probes -> SUBSET Memories]
      /\ \A p \in Probes : all(texts)[p] \subseteq kept[worker.case]
  <2>. HIDE DEF n
  <2>. QED
    BY <1>3, <1>4, <1>5
<1>7. worker' = [[worker EXCEPT !.at = "search"] EXCEPT !.row = row(texts)]
  <2>1. worker = [worker EXCEPT !.at = "search"]
    BY <1>2, WorkerParts DEF Workers
  <2>2. worker' = [worker EXCEPT !.row = row(texts)]
    BY <1>1, WorkerParts DEF Workers, RowsUnderWay
  <2>. QED
    BY <2>1, <2>2
<1>8. row(texts) \in RowsUnderWay /\ row(texts).found = all(texts)
      /\ row(texts).history = worker.row.history
  <2>. HIDE DEF n, all
  <2>1. u \in RowsUnderWay /\ u.history = worker.row.history
    BY <1>5, RowCounts
  <2>. HIDE DEF u
  <2>. QED
    BY <1>6, <2>1, RowFinds
<1>. HIDE DEF row
<1>9. row(texts) \in RowsUnderWay /\ worker \in Workers /\ "search" \in Steps
  BY <1>8, WorkerParts DEF Steps, WorkerPlaces
<1>. DEFINE v == [worker EXCEPT !.at = "search"]
<1>10. /\ v \in Workers /\ v.at = "search" /\ v.ranking = worker.ranking
       /\ v.case = worker.case /\ v.rows = worker.rows
  BY <1>9, WorkerMoves
<1>11. worker' = [v EXCEPT !.row = row(texts)]
  BY <1>7
<1>. HIDE DEF v
<1>12. /\ worker' \in Workers /\ worker'.at = "search" /\ worker'.ranking = worker.ranking
       /\ worker'.case = worker.case /\ worker'.row = row(texts) /\ worker'.rows = worker.rows
  BY <1>9, <1>10, <1>11, RowChanges
<1>. QED
  BY <1>2, <1>3, <1>6, <1>7, <1>8, <1>9, <1>12, FindingInv

LEMMA AskHistoryInv ==
    ASSUME RivalInv, AskHistory
    PROVE  RivalInv'
<1>. DEFINE row(known) == [worker.row EXCEPT !.history = known]
<1>1. PICK known \in BOOLEAN :
          worker' = [[worker EXCEPT !.at = "row"] EXCEPT !.row.history = known]
  BY DEF AskHistory
<1>2. /\ rivalRun.at = "worker" /\ worker.at = "search" /\ Id = "mem0" /\ ~Observes
      /\ rivalRun' = rivalRun /\ records' = records /\ kept' = kept /\ servers' = servers
  BY DEF AskHistory, Step
<1>3. \A p \in Probes : worker.row.found[p] \subseteq kept[worker.case]
  BY <1>2 DEF RivalInv, FindingsTrue
<1>4. row(known) \in RowsUnderWay /\ row(known).found = worker.row.found
  BY WorkerParts, RowLearns
<1>5. worker' = [[worker EXCEPT !.at = "row"] EXCEPT !.row = row(known)]
  BY <1>1, WorkerParts DEF Workers
<1>. HIDE DEF row
<1>9. row(known) \in RowsUnderWay /\ worker \in Workers /\ "row" \in Steps
  BY <1>4, WorkerParts DEF Steps, WorkerPlaces
<1>. DEFINE v == [worker EXCEPT !.at = "row"]
<1>10. /\ v \in Workers /\ v.at = "row" /\ v.ranking = worker.ranking
       /\ v.case = worker.case /\ v.rows = worker.rows
  BY <1>9, WorkerMoves
<1>11. worker' = [v EXCEPT !.row = row(known)]
  BY <1>5
<1>. HIDE DEF v
<1>12. /\ worker' \in Workers /\ worker'.at = "row" /\ worker'.ranking = worker.ranking
       /\ worker'.case = worker.case /\ worker'.row = row(known) /\ worker'.rows = worker.rows
  BY <1>9, <1>10, <1>11, RowChanges
<1>. QED
  BY <1>2, <1>3, <1>4, <1>5, <1>9, <1>12, FindingInv

LEMMA AllFoundInv ==
    ASSUME RivalInv, AllFound
    PROVE  RivalInv'
<1>1. /\ rivalRun.at = "worker" /\ worker.at = "search"
      /\ worker' = [worker EXCEPT !.at = "row"]
      /\ rivalRun' = rivalRun /\ records' = records /\ kept' = kept /\ servers' = servers
  BY DEF AllFound, Step
<1>2. /\ \A p \in Probes : worker.row.found[p] \subseteq kept[worker.case]
      /\ ~worker.row.history
  BY <1>1 DEF RivalInv, FindingsTrue
<1>3. worker' = [[worker EXCEPT !.at = "row"] EXCEPT !.row = worker.row] /\ worker.row \in RowsUnderWay
  BY <1>1, WorkerParts DEF Workers
<1>9. worker.row \in RowsUnderWay /\ worker \in Workers /\ "row" \in Steps
  BY <1>3, WorkerParts DEF Steps, WorkerPlaces
<1>. DEFINE v == [worker EXCEPT !.at = "row"]
<1>10. /\ v \in Workers /\ v.at = "row" /\ v.ranking = worker.ranking
       /\ v.case = worker.case /\ v.rows = worker.rows
  BY <1>9, WorkerMoves
<1>11. worker' = [v EXCEPT !.row = worker.row]
  BY <1>3
<1>. HIDE DEF v
<1>12. /\ worker' \in Workers /\ worker'.at = "row" /\ worker'.ranking = worker.ranking
       /\ worker'.case = worker.case /\ worker'.row = worker.row /\ worker'.rows = worker.rows
  BY <1>9, <1>10, <1>11, RowChanges
<1>. QED
  BY <1>1, <1>2, <1>3, <1>9, <1>12, FindingInv

LEMMA CallRaisesInv ==
    ASSUME RivalInv, CallRaises
    PROVE  RivalInv'
<1>. DEFINE failed == TRUE
            row == [worker.row EXCEPT !.failed = failed]
<1>1. /\ rivalRun.at = "worker" /\ worker.at \in {"add", "update", "search"}
      /\ worker' = [[worker EXCEPT !.at = "row"] EXCEPT !.row.failed = failed]
      /\ rivalRun' = rivalRun /\ records' = records /\ kept' = kept /\ servers' = servers
  BY DEF CallRaises, Step
<1>2. failed \in BOOLEAN
  OBVIOUS
<1>. HIDE DEF failed
<1>3. /\ \A p \in Probes : worker.row.found[p] \subseteq kept[worker.case]
      /\ ~worker.row.history
  BY <1>1 DEF RivalInv, FindingsTrue
<1>4. row \in RowsUnderWay /\ row.found = worker.row.found /\ row.history = worker.row.history
  BY <1>2, WorkerParts, RowFails
<1>5. worker' = [[worker EXCEPT !.at = "row"] EXCEPT !.row = row]
  BY <1>1, WorkerParts DEF Workers
<1>. HIDE DEF row
<1>9. row \in RowsUnderWay /\ worker \in Workers /\ "row" \in Steps
  BY <1>4, WorkerParts DEF Steps, WorkerPlaces
<1>. DEFINE v == [worker EXCEPT !.at = "row"]
<1>10. /\ v \in Workers /\ v.at = "row" /\ v.ranking = worker.ranking
       /\ v.case = worker.case /\ v.rows = worker.rows
  BY <1>9, WorkerMoves
<1>11. worker' = [v EXCEPT !.row = row]
  BY <1>5
<1>. HIDE DEF v
<1>12. /\ worker' \in Workers /\ worker'.at = "row" /\ worker'.ranking = worker.ranking
       /\ worker'.case = worker.case /\ worker'.row = row /\ worker'.rows = worker.rows
  BY <1>9, <1>10, <1>11, RowChanges
<1>. QED
  BY <1>1, <1>3, <1>4, <1>5, <1>9, <1>12, FindingInv

\* A row that is kept claims only what its namespace held.
LEMMA KeptRowsAreEarned ==
    ASSUME RivalInv, worker.at = "row", rivalRun.at = "worker"
    PROVE  /\ WorkerRow \in KeptRows /\ WorkerRow.case = worker.case
           /\ EarnedRow(Id, WorkerRow)
<1>. DEFINE row == worker.row
            current == Selected(row)
            suppressed == Suppressed(row)
            history == Id = "mem0" /\ row.history
            conflict == Id = "mem0" /\ row.history /\ ~row.failed
            responds == Selected(row) /\ Suppressed(row)
            m == StaleMetrics(Id, row)
            metrics == IF Observes THEN {} ELSE {m}
            held == kept[worker.case]
<1>1. /\ worker.case \in RivalCases /\ held \subseteq Memories /\ row \in RowsUnderWay
      /\ \A p \in Probes : row.found[p] \subseteq held
      /\ row.history => Id = "mem0" /\ held = {"new"}
  <2>1. worker.case \in RivalCases /\ kept \in [RivalCases -> SUBSET Memories]
    BY DEF RivalInv, RivalTyped, FindingsTrue
  <2>2. /\ \A p \in Probes : row.found[p] \subseteq held
        /\ row.history => Id = "mem0" /\ held = {"new"}
    BY DEF RivalInv, FindingsTrue
  <2>. QED
    BY <2>1, <2>2, WorkerParts
<1>2. m = [current |-> current, suppressed |-> suppressed, history |-> history,
           conflict |-> conflict, responds |-> responds]
  BY DEF StaleMetrics
<1>3. /\ current \in BOOLEAN /\ suppressed \in BOOLEAN /\ history \in BOOLEAN
      /\ conflict \in BOOLEAN /\ responds \in BOOLEAN
  BY <1>1 DEF Selected, Suppressed
<1>4. /\ current => "new" \in held
      /\ responds => current /\ suppressed
      /\ history \/ conflict => Id = "mem0" /\ held = {"new"}
  <2>1. 1 \in Probes
    BY RivalAssumption DEF Probes
  <2>. QED
    BY <1>1, <2>1 DEF Selected
<1>5. m \in Metrics /\ m.current = current /\ m.suppressed = suppressed
      /\ m.history = history /\ m.conflict = conflict /\ m.responds = responds
  <2>. HIDE DEF current, suppressed, history, conflict, responds, m
  <2>. QED
    BY <1>2, <1>3 DEF Metrics
<1>6. WorkerRow = [case |-> worker.case, failed |-> row.failed, held |-> held, metrics |-> metrics]
  BY DEF WorkerRow
<1>7. metrics \subseteq Metrics /\ row.failed \in BOOLEAN
  <2>1. row.failed \in BOOLEAN
    BY <1>1 DEF RowsUnderWay
  <2>. HIDE DEF m
  <2>. QED
    BY <1>5, <2>1
<1>8. WorkerRow \in KeptRows /\ WorkerRow.case = worker.case /\ WorkerRow.held = held
      /\ WorkerRow.metrics = metrics
  <2>. HIDE DEF row, metrics, held
  <2>. QED
    BY <1>1, <1>6, <1>7 DEF KeptRows
<1>9. \A n \in metrics : n = m
  OBVIOUS
<1>. HIDE DEF current, suppressed, history, conflict, responds, m, metrics, row, held
<1>10. EarnedRow(Id, WorkerRow)
  BY <1>4, <1>5, <1>8, <1>9 DEF EarnedRow
<1>. QED
  BY <1>8, <1>10

LEMMA KeepRowInv ==
    ASSUME RivalInv, KeepRow
    PROVE  RivalInv'
<1>. DEFINE w == [worker EXCEPT !.at = "next"]
            u == [w EXCEPT !.row = NewRow]
            all == Append(worker.rows, WorkerRow)
<1>1. /\ rivalRun.at = "worker" /\ worker.at = "row"
      /\ worker' = [u EXCEPT !.rows = all]
      /\ rivalRun' = rivalRun /\ records' = records /\ kept' = kept /\ servers' = servers
  BY WorkerParts DEF KeepRow, Step, Workers
<1>2. /\ WorkerRow \in KeptRows /\ WorkerRow.case = worker.case /\ EarnedRow(Id, WorkerRow)
  BY <1>1, KeptRowsAreEarned
<1>3. /\ worker.rows \in Seq(KeptRows) /\ Len(worker.rows) \in Nat
      /\ DOMAIN worker.rows = 1 .. Len(worker.rows) /\ worker.case \in 0 .. NumCases
      /\ Len(worker.rows) + 1 = worker.case
      /\ \A i \in DOMAIN worker.rows :
            worker.rows[i].case = i /\ EarnedRow(Id, worker.rows[i])
  BY <1>1, WorkerParts DEF RivalInv, RowsInOrder
<1>4. /\ all \in Seq(KeptRows) /\ Len(all) = worker.case /\ DOMAIN all = 1 .. worker.case
      /\ \A i \in DOMAIN all : all[i].case = i /\ EarnedRow(Id, all[i])
  <2>1. /\ all \in Seq(KeptRows) /\ Len(all) = worker.case
        /\ \A i \in 1 .. Len(worker.rows) : all[i] = worker.rows[i]
        /\ all[Len(worker.rows) + 1] = WorkerRow
    BY <1>2, <1>3, AppendProperties
  <2>2. DOMAIN all = 1 .. worker.case
    BY <2>1, LenProperties
  <2>. HIDE DEF all
  <2>3. ASSUME NEW i \in DOMAIN all
        PROVE  all[i].case = i /\ EarnedRow(Id, all[i])
    <3>1. CASE i = worker.case
      BY <1>2, <1>3, <2>1, <3>1
    <3>2. CASE i # worker.case
      <4>1. i \in 1 .. Len(worker.rows)
        BY <1>3, <2>2, <3>2
      <4>. QED
        BY <1>3, <2>1, <4>1
    <3>. QED
      BY <3>1, <3>2
  <2>. QED
    BY <2>1, <2>2, <2>3
<1>. HIDE DEF all
<1>5. /\ w \in Workers /\ w.at = "next" /\ w.case = worker.case
      /\ w.ranking = worker.ranking
  BY WorkerParts, WorkerMoves DEF Steps, WorkerPlaces
<1>. HIDE DEF w
<1>6. /\ u \in Workers /\ u.at = "next" /\ u.case = worker.case /\ u.row = NewRow
      /\ u.ranking = worker.ranking
  BY <1>5, RowIsNew, RowChanges
<1>. HIDE DEF u
<1>7. /\ worker' \in Workers /\ worker'.at = "next" /\ worker'.case = worker.case
      /\ worker'.row = NewRow /\ worker'.rows = all /\ worker'.ranking = worker.ranking
  BY <1>1, <1>4, <1>6, RowsChange
<1>8. RivalTyped' /\ WorkersBelong'
  BY <1>1, <1>7 DEF RivalInv, RivalTyped, WorkersBelong, ServersBelong, Abandoned, Cuttable
<1>9. FindingsTrue'
  BY <1>7, RowIsNew DEF FindingsTrue
<1>10. RowsInOrder'
  <2>1. Id' = Id
    BY <1>1 DEF Id
  <2>. QED
    BY <1>4, <1>7, <2>1 DEF RowsInOrder, Cuttable, EarnedRow
<1>11. \A r \in CompetitorIds : RecordIsReal(r, records[r])'
  BY <1>1 DEF RivalInv, RecordIsReal, AnyFailed, EarnedRow
<1>. QED
  BY <1>8, <1>9, <1>10, <1>11 DEF RivalInv

LEMMA WorkerEndsInv ==
    ASSUME RivalInv, WorkerEnds
    PROVE  RivalInv'
<1>1. PICK at \in {"done", "failed"} :
         /\ rivalRun.at = "worker" /\ worker.at = "next" /\ worker.case = NumCases
         /\ worker' = [worker EXCEPT !.at = at]
         /\ servers' = IF Id = "letta" THEN {} ELSE servers
         /\ rivalRun' = rivalRun /\ records' = records /\ kept' = kept
  BY DEF WorkerEnds, Step
<1>2. at \in Steps
  BY DEF Steps, Cuttable
<1>3. /\ worker' \in Workers /\ worker'.at = at /\ worker'.ranking = worker.ranking
      /\ worker'.case = worker.case /\ worker'.row = worker.row
      /\ worker'.rows = worker.rows /\ Id' = Id /\ Observes' = Observes
      /\ \A r \in CompetitorIds : RecordIsReal(r, records[r])'
  BY <1>1, <1>2, MovesTyped
<1>4. RivalTyped' /\ WorkersBelong'
  <2>1. rivalRun.next = 3 => servers' = {}
    BY <1>1 DEF Id, Competitors
  <2>2. ServersBelong'
    BY <1>1, <1>3, <2>1 DEF RivalInv, WorkersBelong, ServersBelong, Abandoned
  <2>. QED
    BY <1>1, <1>3, <2>2 DEF RivalInv, RivalTyped, WorkersBelong
<1>5. FindingsTrue'
  BY <1>1, <1>3 DEF RivalInv, FindingsTrue
<1>6. RowsInOrder'
  BY <1>1, <1>3 DEF RivalInv, RowsInOrder
<1>. QED
  BY <1>3, <1>4, <1>5, <1>6 DEF RivalInv

LEMMA NoRows == DOMAIN <<>> = {}
OBVIOUS

LEMMA RunParts ==
    ASSUME RivalInv
    PROVE  /\ rivalRun \in [at : {"choose", "worker", "report", "no report"}, next : 1 .. 5,
                            given : Interpreters, ranking : BOOLEAN]
           /\ rivalRun.at \in {"choose", "worker", "report", "no report"}
           /\ rivalRun.next \in 1 .. 5 /\ rivalRun.given \in Interpreters
<1>1. rivalRun \in [at : {"choose", "worker", "report", "no report"}, next : 1 .. 5,
                    given : Interpreters, ranking : BOOLEAN]
  BY DEF RivalInv, RivalTyped
<1>. QED
  BY <1>1

LEMMA IdIsKnown ==
    ASSUME RivalInv, rivalRun.next <= 4
    PROVE  Id \in CompetitorIds
<1>1. rivalRun.next \in 1 .. 4
  <2>1. rivalRun.next \in 1 .. 5
    BY RunParts
  <2>. QED
    BY <2>1
<1>2. DOMAIN Competitors = 1 .. 4
  BY DEF Competitors
<1>. QED
  BY <1>1, <1>2 DEF Id, CompetitorIds

LEMMA IdIsLettas ==
    ASSUME RivalInv, rivalRun.next <= 4
    PROVE  Id = "letta" <=> rivalRun.next = 3
<1>1. rivalRun.next \in {1, 2, 3, 4}
  <2>1. rivalRun.next \in 1 .. 5
    BY RunParts
  <2>. QED
    BY <2>1
<1>. QED
  BY <1>1 DEF Id, Competitors

LEMMA StartRivalInv ==
    ASSUME RivalInv, StartRival
    PROVE  RivalInv'
<1>1. /\ rivalRun.at = "choose" /\ rivalRun.next <= Len(Competitors)
      /\ rivalRun' = [rivalRun EXCEPT !.at = "worker"] /\ StartWorker(FALSE)
      /\ kept' = [c \in RivalCases |-> {}] /\ servers' = servers /\ records' = records
  BY DEF StartRival
<1>. DEFINE ranking == FALSE
<1>2. ranking \in BOOLEAN /\ StartWorker(ranking)
  BY <1>1
<1>. HIDE DEF ranking
<1>3. /\ worker' \in Workers /\ worker'.case = 0 /\ worker'.row = NewRow
      /\ worker'.rows = <<>> /\ worker'.at \in {"server 1", "open"}
  BY <1>2, StartedWorkers
<1>4. /\ Len(Competitors) = 4
      /\ servers # {} => rivalRun.next > 3 /\ Abandoned
      /\ Id = "letta" => rivalRun.next = 3
  <2>1. servers # {} => rivalRun.next > 3 /\ Abandoned
    BY <1>1 DEF RivalInv, WorkersBelong, ServersBelong
  <2>2. Len(Competitors) = 4
    BY DEF Competitors
  <2>3. Id = "letta" => rivalRun.next = 3
    BY IdIsLettas, <1>1, <2>2
  <2>. QED
    BY <2>1, <2>2, <2>3
<1>5. kept' \in [RivalCases -> SUBSET Memories]
  BY <1>1
<1>6. /\ rivalRun' \in [at : {"choose", "worker", "report", "no report"}, next : 1 .. 5,
                        given : Interpreters, ranking : BOOLEAN]
      /\ rivalRun'.at = "worker" /\ rivalRun'.next = rivalRun.next /\ rivalRun.next <= 4
  BY <1>1, <1>4 DEF RivalInv, RivalTyped
<1>7. RivalTyped' /\ WorkersBelong'
  <2>1. worker'.at \in {"server 1", "server 2", "agent"} => rivalRun.next = 3
    BY <1>2, <1>3, <1>4, StartedWorkers
  <2>2. ServersBelong'
    BY <1>1, <1>4, <1>6 DEF ServersBelong, Abandoned
  <2>. QED
    BY <1>1, <1>3, <1>5, <1>6, <2>1, <2>2 DEF RivalInv, RivalTyped, WorkersBelong
<1>8. FindingsTrue'
  BY <1>3, RowIsNew DEF FindingsTrue
<1>9. RowsInOrder'
  BY <1>3, NoRows DEF RowsInOrder
<1>10. \A r \in CompetitorIds : RecordIsReal(r, records[r])'
  BY <1>1 DEF RivalInv, RecordIsReal, AnyFailed, EarnedRow
<1>. QED
  BY <1>7, <1>8, <1>9, <1>10 DEF RivalInv

\* main() goes on to the next competitor, or ends, without a worker.
LEMMA NobodyAtWorkInv ==
    ASSUME RivalInv, worker' = NoWorker, kept' = kept, servers' = servers,
           records' \in [CompetitorIds -> Records],
           \A r \in CompetitorIds : RecordIsReal(r, records'[r]),
           rivalRun' \in [at : {"choose", "worker", "report", "no report"}, next : 1 .. 5,
                          given : Interpreters, ranking : BOOLEAN],
           rivalRun'.at # "worker",
           ServersBelong'
    PROVE  RivalInv'
<1>1. RivalTyped'
  BY FreshWorkers DEF RivalInv, RivalTyped
<1>2. WorkersBelong'
  BY FreshWorkers DEF WorkersBelong
<1>3. FindingsTrue'
  BY FreshWorkers, RowIsNew DEF FindingsTrue
<1>4. RowsInOrder'
  BY FreshWorkers, NoRows DEF RowsInOrder
<1>5. \A r \in CompetitorIds : RecordIsReal(r, records[r])'
  BY DEF RecordIsReal, AnyFailed, EarnedRow
<1>. QED
  BY <1>1, <1>2, <1>3, <1>4, <1>5 DEF RivalInv

LEMMA NothingMeasured ==
    Unmeasured \in Records /\ \A r : RecordIsReal(r, Unmeasured)
<1>1. /\ Unmeasured \in Records /\ Unmeasured.status = "not_tested"
      /\ Unmeasured.rows = <<>>
  BY DEF Unmeasured, Records
<1>2. DOMAIN <<>> = {}
  OBVIOUS
<1>. QED
  BY <1>1, <1>2 DEF RecordIsReal

\* The record of one competitor changes.
LEMMA RecordChanges ==
    ASSUME RivalInv, NEW record \in Records, RecordIsReal(Id, record), rivalRun.next <= 4,
           records' = [records EXCEPT ![Id] = record]
    PROVE  /\ records' \in [CompetitorIds -> Records]
           /\ \A r \in CompetitorIds : RecordIsReal(r, records'[r])
           /\ Id \in CompetitorIds
<1>1. Id \in CompetitorIds
  BY IdIsKnown
<1>2. records \in [CompetitorIds -> Records]
  BY DEF RivalInv, RivalTyped
<1>3. \A r \in CompetitorIds : RecordIsReal(r, records[r])
  BY DEF RivalInv
<1>. QED
  BY <1>1, <1>2, <1>3

LEMMA NewRecord ==
    ASSUME NEW old \in Records, NEW rivalRows, NEW status
    PROVE  [[old EXCEPT !.rows = rivalRows] EXCEPT !.status = status]
              = [status |-> status, rows |-> rivalRows, ranking |-> old.ranking]
<1>. DEFINE new == [old EXCEPT !.rows = rivalRows]
<1>1. new = [status |-> old.status, rows |-> rivalRows, ranking |-> old.ranking]
  BY DEF Records
<1>. HIDE DEF new
<1>2. [new EXCEPT !.status = status] = [status |-> status, rows |-> rivalRows, ranking |-> old.ranking]
  BY <1>1
<1>. QED
  BY <1>2 DEF new

LEMMA GoesOn ==
    ASSUME RivalInv, NextCompetitor, rivalRun.next <= 4
    PROVE  /\ rivalRun' \in [at : {"choose", "worker", "report", "no report"}, next : 1 .. 5,
                             given : Interpreters, ranking : BOOLEAN]
           /\ rivalRun'.at = "choose"
<1>. DEFINE next == rivalRun.next + 1
            Runs == [at : {"choose", "worker", "report", "no report"}, next : 1 .. 5,
                     given : Interpreters, ranking : BOOLEAN]
            r == [rivalRun EXCEPT !.at = "choose"]
<1>1. rivalRun \in Runs /\ next \in 1 .. 5
  <2>1. rivalRun \in Runs
    BY RunParts
  <2>2. rivalRun.next \in 1 .. 5
    BY RunParts
  <2>3. next \in 1 .. 5
    BY <2>2
  <2>. QED
    BY <2>1, <2>3
<1>2. rivalRun' = [r EXCEPT !.next = next]
  BY DEF NextCompetitor
<1>3. r \in Runs /\ r.at = "choose"
  BY <1>1
<1>. HIDE DEF next, r
<1>. QED
  BY <1>1, <1>2, <1>3

\* A later competitor leaves the record of Letta as it is.
LEMMA StillAbandoned ==
    ASSUME RivalInv, rivalRun.next > 3, rivalRun.next <= 4, Abandoned, NEW record,
           records' = [records EXCEPT ![Id] = record]
    PROVE  Abandoned'
<1>1. Id # "letta" /\ "letta" \in CompetitorIds
  <2>1. DOMAIN Competitors = 1 .. 4 /\ Competitors[3] = "letta"
    BY DEF Competitors
  <2>. QED
    BY <2>1, IdIsLettas DEF CompetitorIds
<1>2. records'["letta"] = records["letta"]
  BY <1>1 DEF RivalInv, RivalTyped
<1>. QED
  BY <1>2 DEF Abandoned

\* main() goes on: what is left running is of a Letta worker that was not tested.
LEMMA ServersAreOwnedUpTo ==
    ASSUME RivalInv, NextCompetitor, rivalRun.next <= 4, servers' = servers,
           rivalRun.at \in {"choose", "worker"}, NEW record,
           records' = [records EXCEPT ![Id] = record],
           rivalRun.at = "choose" \/ worker.at \in {"failed", "done"},
           rivalRun.at = "worker" /\ worker.at = "failed" =>
               "not_tested" \in {record.status, record.ranking}
    PROVE  ServersBelong'
<1>1. SUFFICES ASSUME servers # {}
               PROVE  rivalRun'.next > 3 /\ Abandoned'
  BY DEF ServersBelong
<1>2. /\ rivalRun.next \in 1 .. 5 /\ rivalRun'.next = rivalRun.next + 1
      /\ rivalRun' = [rivalRun EXCEPT !.at = "choose", !.next = @ + 1]
  BY RunParts DEF NextCompetitor
<1>3. CASE rivalRun.next > 3 /\ Abandoned
  <2>1. Abandoned'
    BY <1>3, StillAbandoned
  <2>2. rivalRun.next + 1 > 3
    BY <1>2, <1>3
  <2>. QED
    BY <1>2, <2>1, <2>2
<1>4. CASE rivalRun.at = "worker" /\ rivalRun.next = 3 /\ worker.at = "failed"
  <2>1. Id = "letta" /\ Id \in CompetitorIds
    BY <1>4, IdIsLettas, IdIsKnown
  <2>2. records'["letta"] = record
    BY <2>1 DEF RivalInv, RivalTyped
  <2>. QED
    BY <1>2, <1>4, <2>2 DEF Abandoned
<1>. QED
  BY <1>1, <1>3, <1>4 DEF RivalInv, WorkersBelong, ServersBelong, Cuttable

LEMMA SkipRivalInv ==
    ASSUME RivalInv, SkipRival
    PROVE  RivalInv'
<1>1. /\ rivalRun.at = "choose" /\ rivalRun.next <= 4 /\ NextCompetitor
      /\ records' = [records EXCEPT ![Id] = Unmeasured]
      /\ worker' = worker /\ kept' = kept /\ servers' = servers
  BY DEF SkipRival, Competitors
<1>2. /\ records' \in [CompetitorIds -> Records]
      /\ \A r \in CompetitorIds : RecordIsReal(r, records'[r])
  BY <1>1, NothingMeasured, RecordChanges
<1>3. /\ rivalRun' \in [at : {"choose", "worker", "report", "no report"}, next : 1 .. 5,
                        given : Interpreters, ranking : BOOLEAN]
      /\ rivalRun'.at = "choose"
  BY <1>1, GoesOn
<1>4. worker.at = "none"
  BY <1>1 DEF RivalInv, WorkersBelong
<1>5. RivalTyped' /\ WorkersBelong'
  <2>1. ServersBelong'
    BY <1>1, ServersAreOwnedUpTo
  <2>. QED
    BY <1>1, <1>2, <1>3, <1>4, <2>1 DEF RivalInv, RivalTyped, WorkersBelong
<1>6. FindingsTrue'
  BY <1>1, <1>4 DEF RivalInv, FindingsTrue
<1>7. RowsInOrder'
  BY <1>1, <1>4 DEF RivalInv, RowsInOrder, Cuttable
<1>8. \A r \in CompetitorIds : RecordIsReal(r, records[r])'
  BY <1>2 DEF RecordIsReal, AnyFailed, EarnedRow
<1>. QED
  BY <1>5, <1>6, <1>7, <1>8 DEF RivalInv

\* What the STALE worker left: nothing, too little, or a row of each case.
LEMMA ReadStaleInv ==
    ASSUME RivalInv, ReadStale
    PROVE  RivalInv'
<1>1. /\ rivalRun.at = "worker" /\ worker.at \in {"failed", "done"}
      /\ kept' = kept /\ servers' = servers
  BY DEF ReadStale, Step
<1>2. rivalRun.next <= 4
  BY <1>1 DEF RivalInv, WorkersBelong
<1>3. CASE /\ records' = [records EXCEPT ![Id] = Unmeasured]
           /\ NextCompetitor /\ worker' = NoWorker
  <2>1. /\ records' \in [CompetitorIds -> Records]
        /\ \A r \in CompetitorIds : RecordIsReal(r, records'[r])
    BY <1>2, <1>3, NothingMeasured, RecordChanges
  <2>2. ServersBelong'
    BY <1>1, <1>2, <1>3, ServersAreOwnedUpTo DEF Unmeasured
  <2>. QED
    BY <1>1, <1>2, <1>3, <2>1, <2>2, GoesOn, NobodyAtWorkInv
<1>4. CASE /\ Step("done") /\ Len(worker.rows) = NumCases
           /\ records' = [records EXCEPT ![Id].rows = worker.rows,
                   ![Id].status = IF AnyFailed(worker.rows) THEN "failed" ELSE "measured"]
           /\ IF rivalRun.ranking
              THEN StartWorker(TRUE) /\ UNCHANGED rivalRun
              ELSE NextCompetitor /\ worker' = NoWorker
  <2>. DEFINE status == IF AnyFailed(worker.rows) THEN "failed" ELSE "measured"
              old == records[Id]
              record == [status |-> status, rows |-> worker.rows, ranking |-> old.ranking]
  <2>1. Id \in CompetitorIds /\ old \in Records /\ records \in [CompetitorIds -> Records]
    BY <1>2, IdIsKnown DEF RivalInv, RivalTyped
  <2>2. records' = [records EXCEPT ![Id] = record]
    <3>1. [[old EXCEPT !.rows = worker.rows] EXCEPT !.status = status] = record
      <4>. HIDE DEF status, old
      <4>. QED
        BY <2>1, NewRecord
    <3>2. records' = [records EXCEPT ![Id] = [[old EXCEPT !.rows = worker.rows]
                                                   EXCEPT !.status = status]]
      BY <1>4, <2>1
    <3>. HIDE DEF status, old, record
    <3>. QED
      BY <3>1, <3>2
  <2>3. /\ status \in {"failed", "measured"}
        /\ status = "measured" => ~AnyFailed(worker.rows)
    OBVIOUS
  <2>4. /\ worker.rows \in Seq(KeptRows) /\ DOMAIN worker.rows = RivalCases
        /\ \A i \in RivalCases :
              worker.rows[i].case = i /\ EarnedRow(Id, worker.rows[i])
    BY <1>4, WorkerParts DEF RivalInv, RowsInOrder, RivalCases
  <2>5. record \in Records /\ record.status = status /\ record.rows = worker.rows
    <3>. HIDE DEF status, old
    <3>. QED
      BY <2>1, <2>3, <2>4 DEF Records
  <2>. HIDE DEF status, old, record
  <2>6. RecordIsReal(Id, record)
    <3>1. {worker.rows[i].case : i \in RivalCases} = RivalCases
      BY <2>4
    <3>. QED
      BY <2>3, <2>4, <2>5, <3>1 DEF RecordIsReal
  <2>7. /\ records' \in [CompetitorIds -> Records]
        /\ \A r \in CompetitorIds : RecordIsReal(r, records'[r])
    BY <1>2, <2>2, <2>5, <2>6, RecordChanges
  <2>8. CASE ~rivalRun.ranking
    <3>1. NextCompetitor /\ worker' = NoWorker /\ worker.at = "done"
      BY <1>4, <2>8 DEF Step
    <3>2. ServersBelong'
      BY <1>1, <1>2, <2>2, <3>1, ServersAreOwnedUpTo
    <3>. QED
      BY <1>1, <1>2, <2>7, <3>1, <3>2, GoesOn, NobodyAtWorkInv
  <2>9. CASE rivalRun.ranking
    <3>. DEFINE ranking == TRUE
    <3>1. ranking \in BOOLEAN /\ StartWorker(ranking) /\ rivalRun' = rivalRun
      BY <1>4, <2>9
    <3>. HIDE DEF ranking
    <3>2. /\ worker' \in Workers /\ worker'.case = 0 /\ worker'.row = NewRow
          /\ worker'.rows = <<>> /\ worker'.at \in {"server 1", "open"}
          /\ worker'.at = "server 1" => rivalRun.next = 3
      BY <1>2, <3>1, StartedWorkers, IdIsLettas
    <3>3. RivalTyped' /\ WorkersBelong'
      <4>1. servers # {} => rivalRun.next > 3 /\ Abandoned
        BY <1>1, <1>4 DEF RivalInv, WorkersBelong, ServersBelong, Cuttable, Step
      <4>2. ServersBelong'
        BY <1>1, <1>2, <2>2, <3>1, <4>1, StillAbandoned DEF ServersBelong
      <4>. QED
        BY <1>1, <1>2, <2>7, <3>1, <3>2, <4>2 DEF RivalInv, RivalTyped, WorkersBelong
    <3>4. FindingsTrue'
      BY <3>2, RowIsNew DEF FindingsTrue
    <3>5. RowsInOrder'
      BY <3>2, NoRows DEF RowsInOrder
    <3>6. \A r \in CompetitorIds : RecordIsReal(r, records[r])'
      BY <2>7 DEF RecordIsReal, AnyFailed, EarnedRow
    <3>. QED
      BY <3>3, <3>4, <3>5, <3>6 DEF RivalInv
  <2>. QED
    BY <2>8, <2>9
<1>. QED
  BY <1>3, <1>4 DEF ReadStale

LEMMA ReadRankingInv ==
    ASSUME RivalInv, ReadRanking
    PROVE  RivalInv'
<1>1. /\ rivalRun.at = "worker" /\ worker.at \in {"failed", "done"}
      /\ kept' = kept /\ servers' = servers /\ worker' = NoWorker
  BY DEF ReadRanking, Step
<1>2. /\ rivalRun.next <= 4 /\ Id \in CompetitorIds
      /\ records \in [CompetitorIds -> Records]
      /\ \A r \in CompetitorIds : RecordIsReal(r, records[r])
  <2>1. rivalRun.next <= 4
    BY <1>1 DEF RivalInv, WorkersBelong
  <2>. QED
    BY <2>1, IdIsKnown DEF RivalInv, RivalTyped
<1>3. ASSUME NEW ranking \in {"not_tested", "failed", "diagnostic_only"},
             records' = [records EXCEPT ![Id].ranking = ranking], NextCompetitor,
             worker.at = "failed" => ranking = "not_tested"
      PROVE  RivalInv'
  <2>. DEFINE old == records[Id]
              record == [old EXCEPT !.ranking = ranking]
  <2>1. records' = [records EXCEPT ![Id] = record] /\ old \in Records /\ RecordIsReal(Id, old)
    BY <1>2, <1>3
  <2>. HIDE DEF old
  <2>2. /\ record \in Records /\ record.status = old.status /\ record.rows = old.rows
        /\ record.ranking = ranking
    BY <2>1 DEF Records
  <2>. HIDE DEF record
  <2>3. RecordIsReal(Id, record)
    BY <2>1, <2>2 DEF RecordIsReal
  <2>4. /\ records' \in [CompetitorIds -> Records]
        /\ \A r \in CompetitorIds : RecordIsReal(r, records'[r])
    BY <1>2, <2>1, <2>2, <2>3, RecordChanges
  <2>5. ServersBelong'
    BY <1>1, <1>2, <1>3, <2>1, <2>2, ServersAreOwnedUpTo
  <2>. QED
    BY <1>1, <1>2, <1>3, <2>4, <2>5, GoesOn, NobodyAtWorkInv
<1>4. CASE rivalRun' = [rivalRun EXCEPT !.at = "no report"] /\ records' = records
  <2>1. /\ rivalRun' \in [at : {"choose", "worker", "report", "no report"}, next : 1 .. 5,
                          given : Interpreters, ranking : BOOLEAN]
        /\ rivalRun'.at = "no report"
    BY <1>4 DEF RivalInv, RivalTyped
  <2>2. ServersBelong'
    BY <2>1 DEF ServersBelong
  <2>. QED
    BY <1>1, <1>2, <1>4, <2>1, <2>2, NobodyAtWorkInv
<1>. QED
  BY <1>3, <1>4 DEF ReadRanking, Step

LEMMA WorkerTimesOutInv ==
    ASSUME RivalInv, WorkerTimesOut
    PROVE  RivalInv'
<1>1. /\ rivalRun' = [rivalRun EXCEPT !.at = "no report"] /\ worker' = NoWorker
      /\ kept' = kept /\ servers' = servers /\ records' = records
  BY DEF WorkerTimesOut
<1>2. /\ rivalRun' \in [at : {"choose", "worker", "report", "no report"}, next : 1 .. 5,
                        given : Interpreters, ranking : BOOLEAN]
      /\ rivalRun'.at = "no report"
  BY <1>1 DEF RivalInv, RivalTyped
<1>3. /\ records' \in [CompetitorIds -> Records]
      /\ \A r \in CompetitorIds : RecordIsReal(r, records'[r])
  BY <1>1 DEF RivalInv, RivalTyped
<1>4. ServersBelong'
  BY <1>2 DEF ServersBelong
<1>. QED
  BY <1>1, <1>2, <1>3, <1>4, NobodyAtWorkInv

LEMMA RivalReportInv ==
    ASSUME RivalInv, RivalReport
    PROVE  RivalInv'
<1>1. /\ rivalRun.at = "choose" /\ rivalRun' = [rivalRun EXCEPT !.at = "report"]
      /\ worker' = worker /\ kept' = kept /\ servers' = servers /\ records' = records
  BY DEF RivalReport
<1>2. worker.at = "none" /\ rivalRun'.at = "report" /\ rivalRun'.next = rivalRun.next
  BY <1>1 DEF RivalInv, RivalTyped, WorkersBelong
<1>3. RivalTyped' /\ WorkersBelong'
  BY <1>1, <1>2 DEF RivalInv, RivalTyped, WorkersBelong, ServersBelong, Abandoned
<1>4. FindingsTrue'
  BY <1>1, <1>2 DEF RivalInv, FindingsTrue
<1>5. RowsInOrder'
  BY <1>1, <1>2 DEF RivalInv, RowsInOrder, Cuttable
<1>6. \A r \in CompetitorIds : RecordIsReal(r, records[r])'
  BY <1>1 DEF RivalInv, RecordIsReal, AnyFailed, EarnedRow
<1>. QED
  BY <1>3, <1>4, <1>5, <1>6 DEF RivalInv

LEMMA InitRivalInv == RivalInit => RivalInv
<1>. SUFFICES ASSUME RivalInit
              PROVE  RivalInv
  OBVIOUS
<1>1. /\ rivalRun \in [at : {"choose", "worker", "report", "no report"}, next : 1 .. 5,
                       given : Interpreters, ranking : BOOLEAN]
      /\ rivalRun.at = "choose"
  BY DEF RivalInit
<1>2. RivalTyped
  BY <1>1, FreshWorkers, NothingMeasured DEF RivalInit, RivalTyped
<1>3. WorkersBelong /\ FindingsTrue /\ RowsInOrder
  BY <1>1, FreshWorkers, RowIsNew, NoRows
     DEF RivalInit, WorkersBelong, ServersBelong, FindingsTrue, RowsInOrder
<1>4. \A r \in CompetitorIds : RecordIsReal(r, records[r])
  BY NothingMeasured DEF RivalInit
<1>. QED
  BY <1>2, <1>3, <1>4 DEF RivalInv

LEMMA NextRivalInv == RivalInv /\ [RivalNext]_rivalVars => RivalInv'
<1>. SUFFICES ASSUME RivalInv, [RivalNext]_rivalVars
              PROVE  RivalInv'
  OBVIOUS
<1>1. CASE UNCHANGED rivalVars
  <2>1. Id' = Id /\ Observes' = Observes
    BY <1>1 DEF rivalVars, Id, Observes
  <2>2. RivalTyped' /\ WorkersBelong'
    BY <1>1 DEF rivalVars, RivalInv, RivalTyped, WorkersBelong, ServersBelong, Abandoned
  <2>3. FindingsTrue' /\ RowsInOrder'
    BY <1>1, <2>1 DEF rivalVars, RivalInv, FindingsTrue, RowsInOrder, EarnedRow
  <2>4. \A r \in CompetitorIds : RecordIsReal(r, records[r])'
    BY <1>1 DEF rivalVars, RivalInv, RecordIsReal, AnyFailed, EarnedRow
  <2>. QED
    BY <2>2, <2>3, <2>4 DEF RivalInv
<1>. QED
  BY <1>1, StartRivalInv, SkipRivalInv, OpenStoreInv, CreateAgentInv, ServersInv, BeginCaseInv,
     StoreOldInv, StoreNewInv, AskHistoryInv, AllFoundInv, SearchProbeInv, CallRaisesInv,
     KeepRowInv, WorkerEndsInv, ReadStaleInv, ReadRankingInv, WorkerTimesOutInv, RivalReportInv
     DEF RivalNext

LEMMA RivalInvariant == RivalSpec => []RivalInv
BY InitRivalInv, NextRivalInv, PTL DEF RivalSpec

\* main(), the workers and their servers keep the types of their state.
THEOREM RivalTypeCorrect == RivalSpec => []RivalTypeOK
<1>1. RivalInv => RivalTypeOK
  <2>. SUFFICES ASSUME RivalInv
                PROVE  RivalTypeOK
    OBVIOUS
  <2>1. Len(Competitors) = 4 /\ worker.case \in 0 .. NumCases
    BY WorkerParts DEF Competitors
  <2>2. RivalTyped
    BY DEF RivalInv
  <2>3. \A r \in CompetitorIds :
          /\ records[r].status \in {"not_tested", "failed", "measured"}
          /\ records[r].ranking \in {"none", "not_tested", "failed", "diagnostic_only"}
    BY <2>2 DEF RivalTyped, Records
  <2>4. kept \in [RivalCases -> SUBSET {"old", "new"}] /\ servers \subseteq {1, 2}
    BY <2>2 DEF RivalTyped, Memories
  <2>5. /\ rivalRun.at \in {"choose", "worker", "report", "no report"}
        /\ rivalRun.next \in 1 .. 5 /\ rivalRun.given \in Interpreters
    BY RunParts
  <2>6. rivalRun.next \in 1 .. (Len(Competitors) + 1)
    <3>1. Len(Competitors) + 1 = 5
      BY <2>1
    <3>. QED
      BY <2>5, <3>1
  <2>. QED
    BY <2>1, <2>3, <2>4, <2>5, <2>6 DEF RivalTypeOK
<1>. QED
  BY <1>1, RivalInvariant, PTL

\* benchmark-diagnostic-memory.py, line 2335: whatever raises, times out or answers
\* nothing, a competitor's rows claim what its store held, a measured competitor
\* has them all, and a server left running is of a Letta worker that was not tested.
THEOREM RivalRowsAreReal == RivalSpec => []RivalsAreReal
<1>1. RivalInv => RivalsAreReal
  <2>. SUFFICES ASSUME RivalInv
                PROVE  RivalsAreReal
    OBVIOUS
  <2>1. \A r \in CompetitorIds : RecordIsReal(r, records[r])
    BY DEF RivalInv
  <2>2. rivalRun.at \in {"choose", "report"} /\ servers # {} =>
            Abandoned /\ rivalRun.next > LettaTurn
    <3>1. LettaTurn = 3
      <4>1. DOMAIN Competitors = 1 .. 4
        BY DEF Competitors
      <4>2. \A i \in DOMAIN Competitors : Competitors[i] = "letta" <=> i = 3
        BY <4>1 DEF Competitors
      <4>. QED
        BY <4>1, <4>2 DEF LettaTurn
    <3>. QED
      BY <3>1 DEF RivalInv, WorkersBelong, ServersBelong
  <2>. QED
    BY <2>1, <2>2 DEF RivalsAreReal, RecordIsReal
<1>. QED
  BY <1>1, RivalInvariant, PTL

-----------------------------------------------------------------------------
(* The lanes that are resumed. *)

RowsOfLanes == [q : Questions, ok : BOOLEAN]
Passes == [at : {"idle", "aborted", "admit", "note", "search", "ask", "done"},
           done : SUBSET Questions, failed : SUBSET Questions, rows : Seq(RowsOfLanes),
           q : SUBSET Questions]

ResumeTyped ==
    /\ lane \in Lanes /\ pass \in Passes /\ corpus \subseteq Questions
    /\ checkpoint \in Seq(Questions \union {TornLine})
    /\ results \in Seq(RowsOfLanes \union {TornLine})
    /\ passReceipt \in [status : {"none", "good", "degraded"},
                        rows : SUBSET (RowsOfLanes \union {TornLine})]
    /\ storeDir \in BOOLEAN /\ finished \subseteq RowsOfLanes /\ passes \in 0 .. MaxPasses

\* Which lane is where, and the first pass counts.
LanesFit ==
    /\ pass.at # "idle" => passes >= 1
    /\ pass.at = "ask" => lane = "luna"
    /\ pass.at \in {"admit", "note", "search"} => lane # "luna"
    /\ pass.at = "search" => lane = "beir" /\ pass.done = Questions
    /\ pass.at \in {"admit", "note"} /\ lane # "longmemeval" => pass.rows = << >>

\* What the checkpoint names, and the pass skips, is in the store, as long as its
\* directory is there.
StoreFits ==
    /\ storeDir => Listed(checkpoint) \subseteq corpus
    /\ pass.at \in {"admit", "note", "search", "done"} /\ lane # "luna" =>
          Listed(checkpoint) \subseteq corpus /\ pass.done \subseteq corpus
    /\ pass.at = "note" => \E q \in corpus : pass.q = {q}
    /\ pass.at = "admit" => pass.q \subseteq pass.done \union pass.failed

SearchedWasTried ==
    pass.at \in {"admit", "note"} => Searched \subseteq pass.done \union pass.failed

\* The host's rows wait for their line in the pass that asked, one for a question that
\* was to be asked, and what has an answer is known to the pass.
AnswersFit ==
    /\ finished # {} => pass.at = "ask"
    /\ pass.at = "ask" => /\ ~IsTorn(results)
                          /\ AnsweredIn(results) \subseteq pass.done \union Searched
    /\ \A row, other \in finished : row.q \in ToAsk /\ (row.q = other.q => row = other)

ResumeInv ==
    /\ ResumeTyped /\ LanesFit /\ StoreFits /\ SearchedWasTried /\ AnswersFit
    /\ GoodPassHasAll

LEMMA PassParts ==
    ASSUME NEW p \in Passes
    PROVE  /\ p.at \in {"idle", "aborted", "admit", "note", "search", "ask", "done"}
           /\ p.done \subseteq Questions /\ p.failed \subseteq Questions
           /\ p.rows \in Seq(RowsOfLanes) /\ p.q \subseteq Questions
BY DEF Passes

LEMMA EmptyPass ==
    /\ NoPass \in Passes /\ NoPass.at = "idle" /\ NoPass.done = {} /\ NoPass.failed = {}
    /\ NoPass.rows = << >> /\ NoPass.q = {}
<1>1. << >> \in Seq(RowsOfLanes)
  BY EmptySeq
<1>. QED
  BY <1>1 DEF NoPass, Passes

\* What one field of the pass becomes.
PassAts == {"idle", "aborted", "admit", "note", "search", "ask", "done"}

LEMMA PassAt ==
    ASSUME NEW p \in Passes, NEW at \in PassAts
    PROVE  LET new == [p EXCEPT !.at = at]
           IN  /\ new \in Passes /\ new.at = at /\ new.done = p.done
               /\ new.failed = p.failed /\ new.rows = p.rows /\ new.q = p.q
BY DEF Passes, PassAts

LEMMA PassDone ==
    ASSUME NEW p \in Passes, NEW done \in SUBSET Questions
    PROVE  LET new == [p EXCEPT !.done = done]
           IN  /\ new \in Passes /\ new.at = p.at /\ new.done = done
               /\ new.failed = p.failed /\ new.rows = p.rows /\ new.q = p.q
BY DEF Passes

LEMMA PassFailed ==
    ASSUME NEW p \in Passes, NEW failed \in SUBSET Questions
    PROVE  LET new == [p EXCEPT !.failed = failed]
           IN  /\ new \in Passes /\ new.at = p.at /\ new.done = p.done
               /\ new.failed = failed /\ new.rows = p.rows /\ new.q = p.q
BY DEF Passes

LEMMA PassRows ==
    ASSUME NEW p \in Passes, NEW all \in Seq(RowsOfLanes)
    PROVE  LET new == [p EXCEPT !.rows = all]
           IN  /\ new \in Passes /\ new.at = p.at /\ new.done = p.done
               /\ new.failed = p.failed /\ new.rows = all /\ new.q = p.q
BY DEF Passes

LEMMA PassQ ==
    ASSUME NEW p \in Passes, NEW some \in SUBSET Questions
    PROVE  LET new == [p EXCEPT !.q = some]
           IN  /\ new \in Passes /\ new.at = p.at /\ new.done = p.done
               /\ new.failed = p.failed /\ new.rows = p.rows /\ new.q = some
BY DEF Passes

\* What a file says after a line was appended to it.
LEMMA RangeOfAppend ==
    ASSUME NEW S, NEW file \in Seq(S), NEW line \in S
    PROVE  /\ Append(file, line) \in Seq(S)
           /\ Range(Append(file, line)) = Range(file) \union {line}
<1>. DEFINE new == Append(file, line)
            n == Len(file)
<1>1. /\ new \in Seq(S) /\ Len(new) = n + 1 /\ n \in Nat
      /\ \A i \in 1 .. n : new[i] = file[i]
      /\ new[n + 1] = line
  BY AppendProperties, LenProperties
<1>2. DOMAIN new = 1 .. (n + 1) /\ DOMAIN file = 1 .. n
  BY <1>1, LenProperties
<1>. HIDE DEF new, n
<1>3. Range(new) \subseteq Range(file) \union {line}
  <2>. SUFFICES ASSUME NEW i \in DOMAIN new
                PROVE  new[i] \in Range(file) \union {line}
    BY DEF Range
  <2>1. CASE i = n + 1
    BY <1>1, <2>1
  <2>2. CASE i # n + 1
    <3>1. i \in 1 .. n
      BY <1>1, <1>2, <2>2
    <3>. QED
      BY <1>1, <1>2, <3>1 DEF Range
  <2>. QED
    BY <2>1, <2>2
<1>4. ASSUME NEW i \in DOMAIN file
      PROVE  file[i] \in Range(new)
  <2>1. i \in DOMAIN new /\ new[i] = file[i]
    BY <1>1, <1>2
  <2>. QED
    BY <2>1 DEF Range
<1>5. line \in Range(new)
  <2>1. n + 1 \in DOMAIN new
    BY <1>1, <1>2
  <2>. QED
    BY <1>1, <2>1 DEF Range
<1>6. Range(file) \union {line} \subseteq Range(new)
  BY <1>4, <1>5 DEF Range
<1>. QED
  BY <1>1, <1>3, <1>6 DEF new

LEMMA RangeOfNothing == Range(<< >>) = {}
BY DEF Range

LEMMA RangeOfFile ==
    ASSUME NEW S, NEW file \in Seq(S)
    PROVE  Range(file) \subseteq S
<1>1. DOMAIN file = 1 .. Len(file) /\ \A i \in 1 .. Len(file) : file[i] \in S
  BY ElementOfSeq, LenProperties
<1>. QED
  BY <1>1 DEF Range

LEMMA AppendedRowSays ==
    ASSUME NEW S, NEW file \in Seq(S), NEW line \in S
    PROVE  /\ AppendedRow(file, line) \in Seq(S)
           /\ Range(AppendedRow(file, line)) \in {Range(file), Range(file) \union {line}}
           /\ ~IsTorn(file) => Range(AppendedRow(file, line)) = Range(file) \union {line}
<1>1. ~IsTorn(file) => AppendedRow(file, line) = Append(file, line)
  <2>. SUFFICES ASSUME ~IsTorn(file), file # << >>, Last(file) = TornLine
                PROVE  FALSE
    BY DEF AppendedRow
  <2>1. Len(file) \in DOMAIN file
    <3>1. Len(file) \in Nat /\ DOMAIN file = 1 .. Len(file)
      BY LenProperties
    <3>2. Len(file) # 0
      BY EmptySeq
    <3>. QED
      BY <3>1, <3>2
  <2>. QED
    BY <2>1 DEF Last, IsTorn, Range
<1>2. AppendedRow(file, line) \in {file, Append(file, line)}
  BY DEF AppendedRow
<1>3. /\ Append(file, line) \in Seq(S)
      /\ Range(Append(file, line)) = Range(file) \union {line}
  BY RangeOfAppend
<1>4. CASE AppendedRow(file, line) = file
  BY <1>1, <1>3, <1>4
<1>5. CASE AppendedRow(file, line) = Append(file, line)
  BY <1>3, <1>5
<1>. QED
  BY <1>2, <1>4, <1>5

\* A torn end says nothing.
LEMMA TornCheckpoint ==
    ASSUME NEW file \in Seq(Questions \union {TornLine})
    PROVE  /\ TornEnd(file) \in Seq(Questions \union {TornLine})
           /\ Listed(TornEnd(file)) = Listed(file)
<1>1. /\ TornEnd(file) \in Seq(Questions \union {TornLine})
      /\ Range(TornEnd(file)) \in {Range(file), Range(file) \union {TornLine}}
  <2>1. TornLine \in Questions \union {TornLine}
    OBVIOUS
  <2>. QED
    BY <2>1, AppendedRowSays DEF TornEnd
<1>. QED
  BY <1>1, ResumeAssumption DEF Listed

LEMMA TornResults ==
    ASSUME NEW file \in Seq(RowsOfLanes \union {TornLine})
    PROVE  /\ TornEnd(file) \in Seq(RowsOfLanes \union {TornLine})
           /\ AnsweredIn(TornEnd(file)) = AnsweredIn(file)
<1>1. /\ TornEnd(file) \in Seq(RowsOfLanes \union {TornLine})
      /\ Range(TornEnd(file)) \in {Range(file), Range(file) \union {TornLine}}
  <2>1. TornLine \in RowsOfLanes \union {TornLine}
    OBVIOUS
  <2>. QED
    BY <2>1, AppendedRowSays DEF TornEnd
<1>2. {r \in Range(TornEnd(file)) : r # TornLine} = {r \in Range(file) : r # TornLine}
  BY <1>1
<1>. QED
  BY <1>1, <1>2 DEF AnsweredIn

LEMMA TornLineIsNoRow == TornLine \notin RowsOfLanes
<1>. SUFFICES ASSUME NEW row \in RowsOfLanes
              PROVE  TornLine # row
  OBVIOUS
<1>1. row = [q |-> row.q, ok |-> row.ok] /\ row.q \in Questions /\ row.ok \in BOOLEAN
  BY DEF RowsOfLanes
<1>. HIDE DEF RowsOfLanes
<1>. QED
  BY <1>1, ResumeAssumption

\* A question that is answered is one whose row the file holds.
LEMMA AnswersAdd ==
    ASSUME NEW file \in Seq(RowsOfLanes \union {TornLine}), NEW q \in Questions,
           NEW ok \in BOOLEAN
    PROVE  LET row == [q |-> q, ok |-> ok]
           IN  /\ row \in RowsOfLanes /\ row.q = q
               /\ AppendedRow(file, row) \in Seq(RowsOfLanes \union {TornLine})
               /\ ~IsTorn(file) => /\ AnsweredIn(AppendedRow(file, row)) = AnsweredIn(file) \union {q}
                                   /\ ~IsTorn(AppendedRow(file, row))
<1>. DEFINE row == [q |-> q, ok |-> ok]
<1>1. row \in RowsOfLanes /\ row.q = q
  BY DEF RowsOfLanes
<1>2. row # TornLine
  BY <1>1, TornLineIsNoRow
<1>. HIDE DEF row
<1>3. /\ AppendedRow(file, row) \in Seq(RowsOfLanes \union {TornLine})
      /\ ~IsTorn(file) => Range(AppendedRow(file, row)) = Range(file) \union {row}
  <2>1. row \in RowsOfLanes \union {TornLine}
    BY <1>1
  <2>. QED
    BY <2>1, AppendedRowSays
<1>4. ASSUME ~IsTorn(file)
      PROVE  /\ AnsweredIn(AppendedRow(file, row)) = AnsweredIn(file) \union {q}
             /\ ~IsTorn(AppendedRow(file, row))
  <2>1. Range(AppendedRow(file, row)) = Range(file) \union {row}
    BY <1>3, <1>4
  <2>2. {r \in Range(AppendedRow(file, row)) : r # TornLine}
           = {r \in Range(file) : r # TornLine} \union {row}
    BY <1>2, <2>1
  <2>3. AnsweredIn(AppendedRow(file, row)) = AnsweredIn(file) \union {q}
    BY <1>1, <2>2 DEF AnsweredIn
  <2>. QED
    BY <1>2, <1>4, <2>1, <2>3 DEF IsTorn
<1>. QED
  BY <1>1, <1>3, <1>4 DEF row

\* The questions the pass has rows of.
LEMMA SearchedAdds ==
    ASSUME ResumeTyped, NEW q \in Questions, NEW ok \in BOOLEAN
    PROVE  LET all == Append(pass.rows, [q |-> q, ok |-> ok])
           IN  /\ all \in Seq(RowsOfLanes)
               /\ {row.q : row \in Range(all)} = Searched \union {q}
<1>. DEFINE row == [q |-> q, ok |-> ok]
<1>1. row \in RowsOfLanes /\ row.q = q
  BY DEF RowsOfLanes
<1>2. pass.rows \in Seq(RowsOfLanes)
  BY PassParts DEF ResumeTyped
<1>. HIDE DEF row
<1>3. /\ Append(pass.rows, row) \in Seq(RowsOfLanes)
      /\ Range(Append(pass.rows, row)) = Range(pass.rows) \union {row}
  BY <1>1, <1>2, RangeOfAppend
<1>4. {r.q : r \in Range(Append(pass.rows, row))} = Searched \union {q}
  BY <1>1, <1>3 DEF Searched
<1>. QED
  BY <1>3, <1>4 DEF row

\* A step that leaves files, store and counts alone: what the pass must keep to.
LEMMA PassChanges ==
    ASSUME ResumeInv, pass' \in Passes, LanesFit',
           corpus' = corpus, checkpoint' = checkpoint, results' = results,
           passReceipt' = passReceipt, finished' = finished, lane' = lane,
           pass.at # "ask", storeDir' \in {storeDir, TRUE},
           storeDir' => storeDir \/ Listed(checkpoint) = {},
           passes' \in 0 .. MaxPasses,
           pass'.at \in {"admit", "note", "search", "done"} /\ lane # "luna" =>
              Listed(checkpoint) \subseteq corpus /\ pass'.done \subseteq corpus,
           pass'.at = "note" => \E q \in corpus : pass'.q = {q},
           pass'.at = "admit" => pass'.q \subseteq pass'.done \union pass'.failed,
           pass'.at \in {"admit", "note"} => Searched' \subseteq pass'.done \union pass'.failed,
           pass'.at = "ask" => /\ ~IsTorn(results)
                               /\ AnsweredIn(results) \subseteq pass'.done \union Searched',
           pass'.at = "done" => lane = "luna"
    PROVE  ResumeInv'
<1>1. ResumeTyped'
  BY DEF ResumeInv, ResumeTyped
<1>2. StoreFits' /\ SearchedWasTried'
  BY DEF ResumeInv, StoreFits, SearchedWasTried, Listed
<1>3. finished' = {}
  BY DEF ResumeInv, AnswersFit
<1>4. AnswersFit'
  BY <1>3 DEF AnswersFit, AnsweredIn, IsTorn
<1>5. GoodPassHasAll'
  BY DEF GoodPassHasAll
<1>. QED
  BY <1>1, <1>2, <1>4, <1>5 DEF ResumeInv

\* So long as no answer waits for its line, none of them is of a question that has one.
LEMMA NoneWaits ==
    ASSUME ResumeInv, pass.at # "ask", finished' = finished, pass'.at # "ask"
    PROVE  AnswersFit'
<1>1. finished' = {}
  BY DEF ResumeInv, AnswersFit
<1>. QED
  BY <1>1 DEF AnswersFit

LEMMA StartPassInv ==
    ASSUME ResumeInv, StartPass
    PROVE  ResumeInv'
<1>. DEFINE file == IF lane = "luna" THEN results ELSE checkpoint
            readable == ~IsTorn(file) /\ (lane = "luna" \/ StoreKept)
            at == IF ~readable THEN "aborted" ELSE IF lane = "luna" THEN "ask" ELSE "admit"
            done == IF ~readable THEN {}
                    ELSE IF lane = "luna" THEN AnsweredIn(file) ELSE Listed(file)
            p == [NoPass EXCEPT !.at = at]
<1>1. /\ pass' = [p EXCEPT !.done = done] /\ passes < MaxPasses /\ passes' = passes + 1
      /\ corpus' = corpus /\ checkpoint' = checkpoint /\ results' = results
      /\ passReceipt' = passReceipt /\ finished' = finished /\ lane' = lane
      /\ storeDir' = (storeDir \/ (lane # "luna" /\ StoreKept)) /\ pass.at = "idle"
  BY DEF StartPass
<1>2. /\ at \in PassAts
      /\ at = "ask" => lane = "luna"
  BY DEF PassAts
<1>3. done \in SUBSET Questions
  <2>1. Listed(checkpoint) \subseteq Questions
    BY DEF Listed
  <2>2. AnsweredIn(results) \subseteq Questions
    <3>1. results \in Seq(RowsOfLanes \union {TornLine})
      BY DEF ResumeInv, ResumeTyped
    <3>2. Range(results) \subseteq RowsOfLanes \union {TornLine}
      BY <3>1, RangeOfFile
    <3>3. \A row \in Range(results) : row # TornLine => row.q \in Questions
      BY <3>2 DEF RowsOfLanes
    <3>. QED
      BY <3>3 DEF AnsweredIn
  <2>. QED
    BY <2>1, <2>2
<1>4. /\ pass' \in Passes /\ pass'.at = at /\ pass'.done = done /\ pass'.failed = {}
      /\ pass'.rows = << >> /\ pass'.q = {}
  <2>1. p \in Passes /\ p.at = at /\ p.failed = {} /\ p.rows = << >> /\ p.q = {}
    <3>. HIDE DEF at
    <3>. QED
      BY <1>2, EmptyPass, PassAt
  <2>. HIDE DEF p, at, done
  <2>. QED
    BY <1>1, <1>3, <2>1, PassDone
<1>5. passes' \in 0 .. MaxPasses /\ passes' >= 1
  <2>1. passes \in 0 .. MaxPasses /\ MaxPasses \in Nat
    BY ResumeAssumption DEF ResumeInv, ResumeTyped
  <2>. QED
    BY <1>1, <2>1
<1>6. at \in {"aborted", "ask", "admit"} /\ (at = "admit" => lane # "luna")
  OBVIOUS
<1>7. at = "admit" => Listed(checkpoint) \subseteq corpus /\ done = Listed(checkpoint)
  <2>1. at = "admit" => /\ done = Listed(checkpoint)
                        /\ checkpoint = << >> \/ storeDir
    BY DEF StoreKept
  <2>2. checkpoint = << >> => Listed(checkpoint) = {}
    BY RangeOfNothing DEF Listed
  <2>. QED
    BY <2>1, <2>2 DEF ResumeInv, StoreFits
<1>8. at = "ask" => ~IsTorn(results) /\ done = AnsweredIn(results)
  OBVIOUS
<1>. HIDE DEF at, done
<1>11. storeDir' \in {storeDir, TRUE} /\ (storeDir' => storeDir \/ Listed(checkpoint) = {})
  <2>1. checkpoint = << >> => Listed(checkpoint) = {}
    BY RangeOfNothing DEF Listed
  <2>. QED
    BY <1>1, <2>1 DEF StoreKept, ResumeInv, ResumeTyped
<1>9. LanesFit'
  BY <1>1, <1>2, <1>4, <1>5, <1>6 DEF LanesFit
<1>10. Searched' = {}
  BY <1>4, RangeOfNothing DEF Searched
<1>. QED
  BY <1>1, <1>4, <1>5, <1>6, <1>7, <1>8, <1>9, <1>10, <1>11, PassChanges

LEMMA NoteAdmittedInv ==
    ASSUME ResumeInv, NoteAdmitted
    PROVE  ResumeInv'
<1>1. PICK q \in corpus : pass.q = {q}
  BY DEF ResumeInv, StoreFits, NoteAdmitted
<1>. DEFINE some == IF lane = "longmemeval" THEN {q} ELSE {}
            p == [pass EXCEPT !.at = "admit"]
            r == [p EXCEPT !.done = pass.done \union {q}]
<1>2. /\ checkpoint' = AppendedRow(checkpoint, q)
      /\ pass' = [r EXCEPT !.q = some]
  BY <1>1 DEF NoteAdmitted
<1>3. /\ pass.at = "note" /\ lane' = lane /\ corpus' = corpus /\ results' = results
      /\ passReceipt' = passReceipt /\ finished' = finished /\ storeDir' = storeDir /\ passes' = passes
  BY DEF NoteAdmitted
<1>4. /\ pass \in Passes /\ corpus \subseteq Questions
      /\ lane # "luna" /\ Listed(checkpoint) \subseteq corpus /\ pass.done \subseteq corpus
      /\ checkpoint \in Seq(Questions \union {TornLine})
      /\ Searched \subseteq pass.done \union pass.failed
      /\ passes >= 1
      /\ lane # "longmemeval" => pass.rows = << >>
  BY <1>3 DEF ResumeInv, ResumeTyped, StoreFits, LanesFit, SearchedWasTried
<1>5. /\ pass' \in Passes /\ pass'.at = "admit" /\ pass'.done = pass.done \union {q}
      /\ pass'.failed = pass.failed /\ pass'.rows = pass.rows /\ pass'.q = some
  <2>1. p \in Passes /\ p.done = pass.done /\ p.at = "admit" /\ p.failed = pass.failed
        /\ p.rows = pass.rows
    BY <1>4, PassAt DEF PassAts
  <2>2. pass.done \union {q} \in SUBSET Questions /\ some \in SUBSET Questions
    BY <1>1, <1>4
  <2>. HIDE DEF p
  <2>3. r \in Passes /\ r.at = "admit" /\ r.done = pass.done \union {q}
        /\ r.failed = pass.failed /\ r.rows = pass.rows
    BY <2>1, <2>2, PassDone
  <2>. HIDE DEF r, some
  <2>. QED
    BY <1>2, <2>2, <2>3, PassQ
<1>6. /\ checkpoint' \in Seq(Questions \union {TornLine})
      /\ Listed(checkpoint') \subseteq Listed(checkpoint) \union {q}
  <2>1. q \in Questions \union {TornLine}
    BY <1>1, <1>4
  <2>2. /\ AppendedRow(checkpoint, q) \in Seq(Questions \union {TornLine})
        /\ Range(AppendedRow(checkpoint, q)) \in {Range(checkpoint), Range(checkpoint) \union {q}}
    BY <1>4, <2>1, AppendedRowSays
  <2>. QED
    BY <1>2, <2>2 DEF Listed
<1>. HIDE DEF p, r, some
<1>7. Searched' = Searched
  BY <1>5 DEF Searched
<1>8. some \subseteq {q}
  BY DEF some
<1>9. ResumeTyped'
  BY <1>3, <1>5, <1>6 DEF ResumeInv, ResumeTyped
<1>10. LanesFit'
  BY <1>3, <1>4, <1>5 DEF LanesFit
<1>11. StoreFits'
  BY <1>1, <1>3, <1>4, <1>5, <1>6, <1>8 DEF StoreFits
<1>12. SearchedWasTried'
  BY <1>4, <1>5, <1>7 DEF SearchedWasTried
<1>13. AnswersFit'
  BY <1>3, <1>5, NoneWaits
<1>14. GoodPassHasAll'
  BY <1>5 DEF GoodPassHasAll
<1>. QED
  BY <1>9, <1>10, <1>11, <1>12, <1>13, <1>14 DEF ResumeInv

LEMMA AdmitInv ==
    ASSUME ResumeInv, NEW q \in Questions, Admit(q)
    PROVE  ResumeInv'
<1>1. /\ pass.at = "admit" /\ lane' = lane /\ results' = results /\ checkpoint' = checkpoint
      /\ passReceipt' = passReceipt /\ finished' = finished /\ storeDir' = storeDir /\ passes' = passes
  BY DEF Admit
<1>2. /\ pass \in Passes /\ corpus \subseteq Questions
      /\ lane # "luna" /\ Listed(checkpoint) \subseteq corpus /\ pass.done \subseteq corpus
      /\ Searched \subseteq pass.done \union pass.failed
      /\ pass.q \subseteq pass.done \union pass.failed
      /\ pass.failed \subseteq Questions
      /\ passes >= 1 /\ passes \in 0 .. MaxPasses
      /\ lane # "longmemeval" => pass.rows = << >>
  BY <1>1, PassParts DEF ResumeInv, ResumeTyped, StoreFits, LanesFit, SearchedWasTried
<1>3. CASE /\ corpus' = corpus \union {q}
           /\ pass' = [pass EXCEPT !.at = "note", !.q = {q}]
  <2>. DEFINE p == [pass EXCEPT !.at = "note"]
  <2>1. /\ pass' \in Passes /\ pass'.at = "note" /\ pass'.done = pass.done
        /\ pass'.failed = pass.failed /\ pass'.rows = pass.rows /\ pass'.q = {q}
    <3>1. p \in Passes /\ p.done = pass.done /\ p.at = "note" /\ p.failed = pass.failed
          /\ p.rows = pass.rows
      BY <1>2, PassAt DEF PassAts
    <3>2. pass' = [p EXCEPT !.q = {q}] /\ {q} \in SUBSET Questions
      BY <1>3
    <3>. HIDE DEF p
    <3>. QED
      BY <3>1, <3>2, PassQ
  <2>2. Searched' = Searched
    BY <2>1 DEF Searched
  <2>3. ResumeTyped'
    BY <1>1, <1>2, <1>3, <2>1 DEF ResumeInv, ResumeTyped
  <2>4. LanesFit'
    BY <1>1, <1>2, <2>1 DEF LanesFit
  <2>5. StoreFits'
    BY <1>1, <1>2, <1>3, <2>1 DEF StoreFits, Listed
  <2>6. SearchedWasTried'
    BY <1>2, <2>1, <2>2 DEF SearchedWasTried
  <2>7. AnswersFit'
    BY <1>1, <2>1, NoneWaits
  <2>8. GoodPassHasAll'
    BY <2>1 DEF GoodPassHasAll
  <2>. QED
    BY <2>3, <2>4, <2>5, <2>6, <2>7, <2>8 DEF ResumeInv
<1>4. CASE /\ pass' = [pass EXCEPT !.failed = pass.failed \union {q},
                                   !.q = IF lane = "longmemeval" THEN {q} ELSE {}]
           /\ corpus' = corpus
  <2>. DEFINE some == IF lane = "longmemeval" THEN {q} ELSE {}
              p == [pass EXCEPT !.failed = pass.failed \union {q}]
  <2>1. /\ pass' \in Passes /\ pass'.at = "admit" /\ pass'.done = pass.done
        /\ pass'.failed = pass.failed \union {q} /\ pass'.rows = pass.rows /\ pass'.q = some
    <3>1. pass.failed \union {q} \in SUBSET Questions /\ some \in SUBSET Questions
      BY <1>2
    <3>2. p \in Passes /\ p.done = pass.done /\ p.at = "admit"
          /\ p.failed = pass.failed \union {q} /\ p.rows = pass.rows
      BY <1>1, <1>2, <3>1, PassFailed
    <3>3. pass' = [p EXCEPT !.q = some]
      BY <1>4
    <3>. HIDE DEF p, some
    <3>. QED
      BY <3>1, <3>2, <3>3, PassQ
  <2>2. Searched' = Searched
    BY <2>1 DEF Searched
  <2>3. some \subseteq {q}
    OBVIOUS
  <2>. HIDE DEF some, p
  <2>4. LanesFit'
    BY <1>1, <1>2, <2>1 DEF LanesFit
  <2>5. /\ Searched' \subseteq pass'.done \union pass'.failed
        /\ pass'.q \subseteq pass'.done \union pass'.failed
    BY <1>2, <2>1, <2>2, <2>3
  <2>6. /\ Listed(checkpoint) \subseteq corpus /\ pass'.done \subseteq corpus
        /\ passes' \in 0 .. MaxPasses
    BY <1>1, <1>2, <2>1
  <2>. QED
    BY <1>1, <1>4, <2>1, <2>4, <2>5, <2>6, PassChanges
<1>. QED
  BY <1>3, <1>4 DEF Admit

LEMMA AllTriedInv ==
    ASSUME ResumeInv, AllTried
    PROVE  ResumeInv'
<1>. DEFINE at == IF pass.failed # {} THEN "aborted" ELSE "search"
<1>1. /\ pass.at = "admit" /\ lane' = lane /\ results' = results /\ checkpoint' = checkpoint
      /\ passReceipt' = passReceipt /\ finished' = finished /\ storeDir' = storeDir
      /\ passes' = passes /\ corpus' = corpus
      /\ lane = "beir" /\ pass.done \union pass.failed = Questions
      /\ pass' = [pass EXCEPT !.at = at]
  BY DEF AllTried
<1>2. /\ pass \in Passes /\ Listed(checkpoint) \subseteq corpus /\ pass.done \subseteq corpus
      /\ passes >= 1 /\ passes \in 0 .. MaxPasses
      /\ lane = "beir" /\ lane # "luna"
  BY <1>1 DEF ResumeInv, ResumeTyped, StoreFits, LanesFit
<1>3. at \in PassAts /\ at \in {"aborted", "search"} /\ (at = "search" => pass.failed = {})
  BY DEF PassAts
<1>. HIDE DEF at
<1>4. pass' \in Passes /\ pass'.at = at /\ pass'.done = pass.done
  BY <1>1, <1>2, <1>3, PassAt
<1>5. at = "search" => pass'.done = Questions
  BY <1>1, <1>3, <1>4
<1>6. LanesFit'
  BY <1>1, <1>2, <1>3, <1>4, <1>5 DEF LanesFit
<1>. QED
  BY <1>1, <1>2, <1>3, <1>4, <1>6, PassChanges

LEMMA SearchOneInv ==
    ASSUME ResumeInv, NEW q \in Questions, SearchOne(q)
    PROVE  ResumeInv'
<1>1. PICK ok \in BOOLEAN :
         /\ pass' = [pass EXCEPT !.q = {}, !.rows = Append(pass.rows, [q |-> q, ok |-> ok])]
         /\ results' = IF lane = "longmemeval" THEN AppendedRow(results, [q |-> q, ok |-> ok])
                       ELSE results
  BY DEF SearchOne
<1>2. /\ lane' = lane /\ checkpoint' = checkpoint /\ corpus' = corpus
      /\ passReceipt' = passReceipt /\ finished' = finished /\ storeDir' = storeDir /\ passes' = passes
  BY DEF SearchOne
<1>3. \/ pass.at = "search"
      \/ pass.at = "admit" /\ lane = "longmemeval" /\ q \in pass.done \union pass.q
  <2>1. q \in Searchable
    BY DEF SearchOne
  <2>. QED
    BY <2>1 DEF Searchable
<1>4. /\ pass \in Passes /\ corpus \subseteq Questions
      /\ Listed(checkpoint) \subseteq corpus /\ pass.done \subseteq corpus
      /\ lane # "luna" /\ passes >= 1
      /\ pass.at = "admit" => Searched \subseteq pass.done \union pass.failed
      /\ pass.at = "admit" => pass.q \subseteq pass.done \union pass.failed
      /\ pass.at = "search" => lane = "beir" /\ pass.done = Questions
      /\ results \in Seq(RowsOfLanes \union {TornLine})
  BY <1>3 DEF ResumeInv, ResumeTyped, StoreFits, LanesFit, SearchedWasTried
<1>. DEFINE all == Append(pass.rows, [q |-> q, ok |-> ok])
            p == [pass EXCEPT !.q = {}]
<1>5. all \in Seq(RowsOfLanes) /\ {row.q : row \in Range(all)} = Searched \union {q}
  BY SearchedAdds DEF ResumeInv
<1>. HIDE DEF all
<1>6. pass' = [p EXCEPT !.rows = all]
  BY <1>1 DEF all
<1>7. /\ pass' \in Passes /\ pass'.at = pass.at /\ pass'.done = pass.done
      /\ pass'.failed = pass.failed /\ pass'.rows = all /\ pass'.q = {}
  <2>1. {} \in SUBSET Questions
    OBVIOUS
  <2>2. p \in Passes /\ p.done = pass.done /\ p.at = pass.at
        /\ p.failed = pass.failed /\ p.q = {}
    BY <1>4, <2>1, PassQ
  <2>. HIDE DEF p
  <2>. QED
    BY <1>5, <1>6, <2>2, PassRows
<1>8. results' \in Seq(RowsOfLanes \union {TornLine})
  BY <1>1, <1>4, AnswersAdd
<1>9. Searched' = Searched \union {q}
  BY <1>5, <1>7 DEF Searched
<1>. HIDE DEF p
<1>10. ResumeTyped'
  BY <1>2, <1>7, <1>8 DEF ResumeInv, ResumeTyped
<1>11. LanesFit'
  BY <1>2, <1>3, <1>4, <1>7 DEF LanesFit
<1>12. StoreFits'
  BY <1>2, <1>3, <1>4, <1>7 DEF StoreFits, Listed
<1>13. SearchedWasTried'
  BY <1>3, <1>4, <1>7, <1>9 DEF SearchedWasTried
<1>14. AnswersFit'
  BY <1>2, <1>3, <1>7, NoneWaits
<1>15. GoodPassHasAll'
  BY <1>3, <1>7 DEF GoodPassHasAll
<1>. QED
  BY <1>10, <1>11, <1>12, <1>13, <1>14, <1>15 DEF ResumeInv

LEMMA WritePassReceiptInv ==
    ASSUME ResumeInv, WritePassReceipt
    PROVE  ResumeInv'
<1>. DEFINE reported == IF lane = "longmemeval" THEN LatestRows(results) ELSE Range(pass.rows)
            good == IF lane = "longmemeval" THEN pass.failed = {} ELSE \A r \in reported : r.ok
            status == IF good THEN "good" ELSE "degraded"
<1>1. /\ pass.at \in {"admit", "search"} /\ Searched = Questions
      /\ lane' = lane /\ results' = results /\ checkpoint' = checkpoint
      /\ finished' = finished /\ storeDir' = storeDir /\ passes' = passes /\ corpus' = corpus
  BY DEF WritePassReceipt
<1>2. /\ pass \in Passes /\ corpus \subseteq Questions /\ passes \in 0 .. MaxPasses
      /\ Listed(checkpoint) \subseteq corpus /\ pass.done \subseteq corpus
      /\ lane # "luna" /\ passes >= 1
      /\ pass.at = "admit" => Searched \subseteq pass.done \union pass.failed
      /\ pass.at = "search" => lane = "beir" /\ pass.done = Questions
      /\ pass.at = "admit" /\ lane # "longmemeval" => pass.rows = << >>
      /\ results \in Seq(RowsOfLanes \union {TornLine})
      /\ pass.rows \in Seq(RowsOfLanes)
  BY <1>1, PassParts DEF ResumeInv, ResumeTyped, StoreFits, LanesFit, SearchedWasTried
<1>3. CASE pass' = [pass EXCEPT !.at = "aborted"] /\ passReceipt' = passReceipt
  <2>1. pass' \in Passes /\ pass'.at = "aborted"
    BY <1>2, <1>3, PassAt DEF PassAts
  <2>2. LanesFit'
    BY <1>1, <1>2, <2>1 DEF LanesFit
  <2>. QED
    BY <1>1, <1>2, <1>3, <2>1, <2>2, PassChanges
<1>4. CASE pass' = [pass EXCEPT !.at = "done"]
           /\ passReceipt' = [status |-> status, rows |-> reported]
  <2>1. pass' \in Passes /\ pass'.at = "done" /\ pass'.done = pass.done
    BY <1>2, <1>4, PassAt DEF PassAts
  <2>2. reported \subseteq RowsOfLanes \union {TornLine}
    <3>1. Range(results) \subseteq RowsOfLanes \union {TornLine}
      BY <1>2, RangeOfFile
    <3>2. Range(pass.rows) \subseteq RowsOfLanes
      BY <1>2, RangeOfFile
    <3>3. LatestRows(results) \subseteq Range(results)
      BY DEF LatestRows, Range
    <3>. QED
      BY <3>1, <3>2, <3>3
  <2>3. good => corpus = Questions
    <3>1. CASE lane = "longmemeval"
      BY <1>1, <1>2, <3>1
    <3>2. CASE lane # "longmemeval" /\ pass.at = "search"
      BY <1>2, <3>2
    <3>3. CASE lane # "longmemeval" /\ pass.at = "admit"
      <4>1. Searched = {}
        BY <1>2, <3>3, RangeOfNothing DEF Searched
      <4>. QED
        BY <1>1, <1>2, <4>1
    <3>. QED
      BY <1>1, <3>1, <3>2, <3>3
  <2>4. status \in {"none", "good", "degraded"} /\ (status = "good" => corpus = Questions)
    BY <2>3
  <2>. HIDE DEF reported, good, status
  <2>5. passReceipt' \in [status : {"none", "good", "degraded"},
                           rows : SUBSET (RowsOfLanes \union {TornLine})]
    BY <1>4, <2>2, <2>4
  <2>6. passReceipt'.status = "good" => corpus = Questions
    BY <1>4, <2>4
  <2>7. ResumeTyped'
    BY <1>1, <2>1, <2>5 DEF ResumeInv, ResumeTyped
  <2>8. LanesFit'
    BY <1>1, <1>2, <2>1 DEF LanesFit
  <2>9. StoreFits'
    BY <1>1, <1>2, <2>1 DEF StoreFits, Listed
  <2>10. SearchedWasTried'
    BY <2>1 DEF SearchedWasTried
  <2>11. AnswersFit'
    BY <1>1, <2>1, NoneWaits
  <2>12. GoodPassHasAll'
    BY <1>1, <2>6 DEF GoodPassHasAll
  <2>. QED
    BY <2>7, <2>8, <2>9, <2>10, <2>11, <2>12 DEF ResumeInv
<1>. QED
  BY <1>3, <1>4 DEF WritePassReceipt

LEMMA AskInv ==
    ASSUME ResumeInv, NEW q \in Questions, Ask(q)
    PROVE  ResumeInv'
<1>1. PICK ok \in BOOLEAN : finished' = finished \union {[q |-> q, ok |-> ok]}
  BY DEF Ask
<1>2. /\ pass.at = "ask" /\ q \in ToAsk /\ \A row \in finished : row.q # q
      /\ lane' = lane /\ checkpoint' = checkpoint /\ corpus' = corpus /\ pass' = pass
      /\ passReceipt' = passReceipt /\ passes' = passes /\ storeDir' = storeDir
      /\ results' = results
  BY DEF Ask
<1>. DEFINE new == [q |-> q, ok |-> ok]
<1>3. new \in RowsOfLanes /\ new.q = q
  BY DEF RowsOfLanes
<1>. HIDE DEF new
<1>4. finished' = finished \union {new}
  BY <1>1 DEF new
<1>6. Searched' = Searched /\ AnsweredIn(results)' = AnsweredIn(results)
      /\ IsTorn(results)' = IsTorn(results) /\ ToAsk' = ToAsk
  BY <1>2 DEF Searched, AnsweredIn, IsTorn, ToAsk
<1>7. ResumeTyped' /\ LanesFit' /\ StoreFits' /\ GoodPassHasAll'
  BY <1>2, <1>3, <1>4 DEF ResumeInv, ResumeTyped, LanesFit, StoreFits, GoodPassHasAll, Listed
<1>8. SearchedWasTried'
  BY <1>2, <1>6 DEF ResumeInv, SearchedWasTried
<1>9. AnswersFit'
  BY <1>2, <1>3, <1>4, <1>6 DEF ResumeInv, AnswersFit
<1>. QED
  BY <1>7, <1>8, <1>9 DEF ResumeInv

LEMMA AppendAnswerInv ==
    ASSUME ResumeInv, NEW row \in finished, AppendAnswer(row)
    PROVE  ResumeInv'
<1>1. /\ pass.at = "ask" /\ finished' = finished \ {row}
      /\ pass' = [pass EXCEPT !.rows = Append(pass.rows, row)]
      /\ results' = IF row.ok THEN AppendedRow(results, row) ELSE results
      /\ lane' = lane /\ checkpoint' = checkpoint /\ corpus' = corpus
      /\ passReceipt' = passReceipt /\ passes' = passes /\ storeDir' = storeDir
  BY DEF AppendAnswer
<1>2. /\ pass \in Passes /\ lane = "luna" /\ passes >= 1
      /\ ~IsTorn(results) /\ AnsweredIn(results) \subseteq pass.done \union Searched
      /\ results \in Seq(RowsOfLanes \union {TornLine})
      /\ finished \subseteq RowsOfLanes
  BY <1>1 DEF ResumeInv, ResumeTyped, LanesFit, AnswersFit
<1>. DEFINE q == row.q
            ok == row.ok
            all == Append(pass.rows, row)
<1>3. row = [q |-> q, ok |-> ok] /\ q \in Questions /\ ok \in BOOLEAN
  BY <1>2 DEF RowsOfLanes
<1>. HIDE DEF q, ok
<1>4. all \in Seq(RowsOfLanes) /\ {r.q : r \in Range(all)} = Searched \union {q}
  BY <1>3, SearchedAdds DEF ResumeInv
<1>. HIDE DEF all
<1>5. /\ pass' \in Passes /\ pass'.at = "ask" /\ pass'.done = pass.done /\ pass'.rows = all
  BY <1>1, <1>2, <1>4, PassRows DEF all
<1>6. Searched' = Searched \union {q}
  BY <1>4, <1>5 DEF Searched
<1>7. /\ results' \in Seq(RowsOfLanes \union {TornLine}) /\ ~IsTorn(results')
      /\ AnsweredIn(results') \in {AnsweredIn(results), AnsweredIn(results) \union {q}}
  <2>1. CASE ok
    <3>1. /\ AppendedRow(results, row) \in Seq(RowsOfLanes \union {TornLine})
          /\ AnsweredIn(AppendedRow(results, row)) = AnsweredIn(results) \union {q}
          /\ ~IsTorn(AppendedRow(results, row))
      BY <1>2, <1>3, AnswersAdd
    <3>. QED
      BY <1>1, <2>1, <3>1 DEF ok
  <2>2. CASE ~ok
    BY <1>1, <1>2, <2>2 DEF ok
  <2>. QED
    BY <1>3, <2>1, <2>2
<1>8. AnsweredIn(results)' = AnsweredIn(results') /\ IsTorn(results)' = IsTorn(results')
  BY DEF AnsweredIn, IsTorn
<1>9. ResumeTyped'
  BY <1>1, <1>5, <1>7 DEF ResumeInv, ResumeTyped
<1>10. LanesFit'
  BY <1>1, <1>2, <1>5 DEF LanesFit
<1>11. StoreFits'
  BY <1>1, <1>2, <1>5 DEF ResumeInv, StoreFits, Listed
<1>12. SearchedWasTried' /\ GoodPassHasAll'
  BY <1>5 DEF SearchedWasTried, GoodPassHasAll
<1>13. AnswersFit'
  <2>1. \A other \in finished' : other \in finished /\ other.q # q
    BY <1>1 DEF ResumeInv, AnswersFit, q
  <2>2. \A other \in finished' : other.q \in ToAsk'
    BY <1>5, <1>6, <2>1 DEF ResumeInv, AnswersFit, ToAsk
  <2>3. AnsweredIn(results') \subseteq pass'.done \union Searched'
    BY <1>2, <1>5, <1>6, <1>7
  <2>4. \A one, other \in finished' : one.q = other.q => one = other
    BY <2>1 DEF ResumeInv, AnswersFit
  <2>. QED
    BY <1>5, <1>7, <1>8, <2>2, <2>3, <2>4 DEF AnswersFit
<1>. QED
  BY <1>9, <1>10, <1>11, <1>12, <1>13 DEF ResumeInv

LEMMA AllAskedInv ==
    ASSUME ResumeInv, AllAsked
    PROVE  ResumeInv'
<1>. DEFINE status == IF \A r \in Range(pass.rows) : r.ok THEN "good" ELSE "degraded"
<1>1. /\ pass.at = "ask" /\ pass' = [pass EXCEPT !.at = "done"] /\ ToAsk = {}
      /\ passReceipt' = [status |-> status, rows |-> Range(results)]
      /\ lane' = lane /\ results' = results /\ checkpoint' = checkpoint
      /\ finished' = finished /\ storeDir' = storeDir /\ passes' = passes /\ corpus' = corpus
  BY DEF AllAsked
<1>2. /\ pass \in Passes /\ lane = "luna" /\ passes >= 1
      /\ results \in Seq(RowsOfLanes \union {TornLine})
      /\ storeDir => Listed(checkpoint) \subseteq corpus
  BY <1>1 DEF ResumeInv, ResumeTyped, LanesFit, StoreFits
<1>3. pass' \in Passes /\ pass'.at = "done"
  BY <1>1, <1>2, PassAt DEF PassAts
<1>4. passReceipt' \in [status : {"none", "good", "degraded"},
                        rows : SUBSET (RowsOfLanes \union {TornLine})]
  <2>1. Range(results) \subseteq RowsOfLanes \union {TornLine}
    BY <1>2, RangeOfFile
  <2>2. status \in {"none", "good", "degraded"}
    OBVIOUS
  <2>. HIDE DEF status
  <2>. QED
    BY <1>1, <2>1, <2>2
<1>. HIDE DEF status
<1>5. ResumeTyped'
  BY <1>1, <1>3, <1>4 DEF ResumeInv, ResumeTyped
<1>6. LanesFit'
  BY <1>1, <1>2, <1>3 DEF LanesFit
<1>7. StoreFits'
  BY <1>1, <1>2, <1>3 DEF StoreFits, Listed
<1>8. SearchedWasTried'
  BY <1>3 DEF SearchedWasTried
<1>9. AnswersFit'
  <2>1. finished' = {}
    BY <1>1 DEF ResumeInv, AnswersFit
  <2>. QED
    BY <1>3, <2>1 DEF AnswersFit
<1>10. GoodPassHasAll'
  BY <1>1, <1>2 DEF GoodPassHasAll
<1>. QED
  BY <1>5, <1>6, <1>7, <1>8, <1>9, <1>10 DEF ResumeInv

LEMMA EndPassInv ==
    ASSUME ResumeInv, EndPass
    PROVE  ResumeInv'
<1>1. /\ pass' = NoPass /\ pass.at # "ask"
      /\ lane' = lane /\ results' = results /\ checkpoint' = checkpoint
      /\ finished' = finished /\ storeDir' = storeDir /\ passes' = passes /\ corpus' = corpus /\ passReceipt' = passReceipt
  BY DEF EndPass
<1>2. pass' \in Passes /\ pass'.at = "idle" /\ passes' \in 0 .. MaxPasses
  BY <1>1, EmptyPass DEF ResumeInv, ResumeTyped
<1>3. LanesFit'
  BY <1>2 DEF LanesFit
<1>. QED
  BY <1>1, <1>2, <1>3, PassChanges

LEMMA KillPassInv ==
    ASSUME ResumeInv, KillPass
    PROVE  ResumeInv'
<1>1. /\ pass' = NoPass
      /\ lane' = lane /\ finished' = {} /\ storeDir' = storeDir /\ passes' = passes /\ corpus' = corpus
      /\ passReceipt' = passReceipt
      /\ checkpoint' \in {checkpoint, TornEnd(checkpoint)}
      /\ results' \in {results, TornEnd(results)}
  BY DEF KillPass
<1>2. pass' \in Passes /\ pass'.at = "idle"
  BY <1>1, EmptyPass
<1>3. /\ checkpoint \in Seq(Questions \union {TornLine})
      /\ results \in Seq(RowsOfLanes \union {TornLine})
  BY DEF ResumeInv, ResumeTyped
<1>4. /\ checkpoint' \in Seq(Questions \union {TornLine})
      /\ Listed(checkpoint') = Listed(checkpoint)
  BY <1>1, <1>3, TornCheckpoint
<1>5. /\ results' \in Seq(RowsOfLanes \union {TornLine})
      /\ AnsweredIn(results') = AnsweredIn(results)
  BY <1>1, <1>3, TornResults
<1>6. ResumeTyped'
  BY <1>1, <1>2, <1>4, <1>5 DEF ResumeInv, ResumeTyped
<1>7. LanesFit'
  BY <1>2 DEF LanesFit
<1>8. StoreFits'
  <2>1. Listed(checkpoint)' = Listed(checkpoint')
    BY DEF Listed
  <2>. QED
    BY <1>1, <1>2, <1>4, <2>1 DEF ResumeInv, StoreFits
<1>9. SearchedWasTried'
  BY <1>2 DEF SearchedWasTried
<1>10. AnswersFit'
  BY <1>1, <1>2 DEF AnswersFit
<1>11. GoodPassHasAll'
  BY <1>2 DEF GoodPassHasAll
<1>. QED
  BY <1>6, <1>7, <1>8, <1>9, <1>10, <1>11 DEF ResumeInv

LEMMA RemoveStoreInv ==
    ASSUME ResumeInv, RemoveStore
    PROVE  ResumeInv'
<1>1. /\ storeDir' = FALSE /\ pass.at = "idle" /\ pass' = pass
      /\ lane' = lane /\ finished' = finished /\ passes' = passes /\ corpus' = {}
      /\ results' = results /\ passReceipt' = passReceipt
      /\ checkpoint' \in {checkpoint, << >>}
  BY DEF RemoveStore
<1>2. checkpoint' \in Seq(Questions \union {TornLine})
  BY <1>1, EmptySeq DEF ResumeInv, ResumeTyped
<1>3. ResumeTyped'
  BY <1>1, <1>2 DEF ResumeInv, ResumeTyped
<1>4. LanesFit'
  BY <1>1 DEF LanesFit
<1>5. StoreFits'
  BY <1>1 DEF StoreFits
<1>6. SearchedWasTried'
  BY <1>1 DEF SearchedWasTried
<1>7. AnswersFit'
  BY <1>1, NoneWaits
<1>8. GoodPassHasAll'
  BY <1>1 DEF GoodPassHasAll
<1>. QED
  BY <1>3, <1>4, <1>5, <1>6, <1>7, <1>8 DEF ResumeInv

LEMMA ResumeInitInv == ResumeInit => ResumeInv
<1>. SUFFICES ASSUME ResumeInit
              PROVE  ResumeInv
  OBVIOUS
<1>1. /\ pass = NoPass /\ corpus = {} /\ checkpoint = << >> /\ results = << >>
      /\ passReceipt = NoPassReceipt /\ finished = {} /\ passes = 0
      /\ lane \in Lanes /\ storeDir = FALSE
  BY DEF ResumeInit
<1>2. pass \in Passes /\ pass.at = "idle"
  BY <1>1, EmptyPass
<1>3. 0 \in 0 .. MaxPasses
  BY ResumeAssumption
<1>4. ResumeTyped
  BY <1>1, <1>2, <1>3, EmptySeq DEF ResumeTyped, NoPassReceipt
<1>5. LanesFit /\ SearchedWasTried
  BY <1>2 DEF LanesFit, SearchedWasTried
<1>6. StoreFits
  BY <1>1, <1>2 DEF StoreFits
<1>7. AnswersFit
  BY <1>1, <1>2, RangeOfNothing DEF AnswersFit, AnsweredIn
<1>8. GoodPassHasAll
  BY <1>2 DEF GoodPassHasAll
<1>. QED
  BY <1>4, <1>5, <1>6, <1>7, <1>8 DEF ResumeInv

LEMMA ResumeStepInv == ResumeInv /\ [ResumeNext]_resumeVars => ResumeInv'
<1>. SUFFICES ASSUME ResumeInv, [ResumeNext]_resumeVars
              PROVE  ResumeInv'
  OBVIOUS
<1>1. CASE StartPass
  BY <1>1, StartPassInv
<1>2. CASE NoteAdmitted
  BY <1>2, NoteAdmittedInv
<1>3. CASE AllTried
  BY <1>3, AllTriedInv
<1>4. CASE WritePassReceipt
  BY <1>4, WritePassReceiptInv
<1>5. CASE AllAsked
  BY <1>5, AllAskedInv
<1>6. CASE EndPass
  BY <1>6, EndPassInv
<1>7. CASE KillPass
  BY <1>7, KillPassInv
<1>8. CASE RemoveStore
  BY <1>8, RemoveStoreInv
<1>9. CASE \E q \in Questions : Admit(q) \/ SearchOne(q) \/ Ask(q)
  BY <1>9, AdmitInv, SearchOneInv, AskInv
<1>11. CASE \E row \in finished : AppendAnswer(row)
  BY <1>11, AppendAnswerInv
<1>10. CASE UNCHANGED resumeVars
  BY <1>10 DEF resumeVars, ResumeInv, ResumeTyped, LanesFit, StoreFits, SearchedWasTried,
               AnswersFit, GoodPassHasAll, Searched, Listed, AnsweredIn, IsTorn, ToAsk
<1>. QED
  BY <1>1, <1>2, <1>3, <1>4, <1>5, <1>6, <1>7, <1>8, <1>9, <1>10, <1>11 DEF ResumeNext

\* In each lane, with any number of passes, kills and torn lines, the state has
\* its types.
THEOREM ResumeTypeCorrect == ResumeSpec => []ResumeTypeOK
<1>1. ResumeInv => ResumeTypeOK
  <2>. SUFFICES ASSUME ResumeInv
                PROVE  ResumeTypeOK
    OBVIOUS
  <2>1. Range(checkpoint) \subseteq Questions \union {TornLine}
    BY RangeOfFile DEF ResumeInv, ResumeTyped
  <2>2. pass.at \in {"idle", "aborted", "admit", "note", "search", "ask", "done"}
    BY PassParts DEF ResumeInv, ResumeTyped
  <2>3. passReceipt.status \in {"none", "good", "degraded"}
    BY DEF ResumeInv, ResumeTyped
  <2>. QED
    BY <2>1, <2>2, <2>3 DEF ResumeInv, ResumeTyped, ResumeTypeOK, RowsOfLanes
<1>. QED
  BY <1>1, ResumeInitInv, ResumeStepInv, PTL DEF ResumeSpec

\* However often the passes of a resumable benchmark are killed and started again, a
\* good receipt is about a store that holds the whole corpus, and the host is never
\* asked what has a readable answer, or twice in a pass.
THEOREM ResumedPassesAreExact == ResumeSpec => []ResumeIsExact
<1>1. ResumeInv => ResumeIsExact
  <2>. SUFFICES ASSUME ResumeInv
                PROVE  ResumeIsExact
    OBVIOUS
  <2>1. AnsweredOnce
    BY DEF ResumeInv, AnswersFit, AnsweredOnce, ToAsk
  <2>. QED
    BY <2>1 DEF ResumeInv, ResumeIsExact
<1>. QED
  BY <1>1, ResumeInitInv, ResumeStepInv, PTL DEF ResumeSpec

-----------------------------------------------------------------------------
(* Paid model grading. *)

CallRecord == [tries : 0 .. Tries, status : {"none", "succeeded", "failed"}, usage : Usage]
GradingStates == {"idle", "target", "judge", "measured", "not_tested", "refused"}

GradingTyped ==
    /\ grading \in GradingStates /\ batch \in {SmokeBatch, RestBatch}
    /\ calls \in [Jobs(1 .. Cases) -> CallRecord]
    /\ verdicts \in [1 .. Cases -> [Dims -> BOOLEAN] \union {NoVerdict}]
    /\ judged \in [1 .. Cases -> SUBSET Answers]
    /\ receipt \in [correct : Nat, total : Nat] /\ receipt.correct <= receipt.total

\* A call that has no status yet has an attempt left.
TriesLeft == \A j \in Jobs(1 .. Cases) : calls[j].status = "none" => calls[j].tries < Tries

\* A verdict is what the case's one judge said.
VerdictsTrue ==
    \A c \in 1 .. Cases :
      \/ judged[c] = {} /\ verdicts[c] = NoVerdict
      \/ \E answer \in Answers : judged[c] = {answer} /\ verdicts[c] = Evaluation(answer)

\* The other cases wait for the smoke, and leave it alone.
SmokeFirst ==
    /\ grading = "idle" => batch = SmokeBatch
    /\ batch = SmokeBatch => \A j \in Jobs(RestBatch) : calls[j].tries = 0
    /\ batch = RestBatch => SmokeComplete

GradingInv == GradingTyped /\ TriesLeft /\ VerdictsTrue /\ SmokeFirst /\ ScoresAreTheJudges

LEMMA BatchesFit ==
    /\ SmokeBatch \subseteq 1 .. Cases /\ RestBatch \subseteq 1 .. Cases
    /\ SmokeBatch \intersect RestBatch = {} /\ SmokeBatch # RestBatch
    /\ Cases \in Nat /\ SmokeCases \in Nat
BY GradingAssumption DEF SmokeBatch, RestBatch

LEMMA JobsFit ==
    /\ \A some \in SUBSET (1 .. Cases) : Jobs(some) \subseteq Jobs(1 .. Cases)
    /\ \A j \in Jobs(1 .. Cases) : j[1] \in 1 .. Cases
    /\ \A j \in Jobs(RestBatch) : j \notin Jobs(SmokeBatch) /\ j[1] \notin SmokeBatch
BY BatchesFit DEF Jobs

\* What one field of a call becomes.
LEMMA CallTries ==
    ASSUME NEW J, NEW all \in [J -> CallRecord], NEW j \in J, NEW n \in 0 .. Tries
    PROVE  LET new == [all EXCEPT ![j].tries = n]
           IN  /\ new \in [J -> CallRecord] /\ new[j].tries = n
               /\ new[j].status = all[j].status /\ new[j].usage = all[j].usage
               /\ \A k \in J : k # j => new[k] = all[k]
BY DEF CallRecord

LEMMA CallAnswered ==
    ASSUME NEW J, NEW all \in [J -> CallRecord], NEW j \in J, NEW one \in CallRecord
    PROVE  LET new == [all EXCEPT ![j] = one]
           IN  /\ new \in [J -> CallRecord] /\ new[j] = one
               /\ \A k \in J : k # j => new[k] = all[k]
OBVIOUS

-----------------------------------------------------------------------------
(* Counting. *)

LEMMA EvaluationSays ==
    ASSUME NEW answer \in Answers
    PROVE  /\ Evaluation(answer) \in [Dims -> BOOLEAN] \union {NoVerdict}
           /\ answer.inContract <=> Evaluation(answer) # NoVerdict
           /\ answer.inContract => Evaluation(answer) = answer.pass
<1>1. /\ answer.inContract \in BOOLEAN /\ answer.pass \in [Dims -> BOOLEAN]
  BY DEF Answers
<1>2. NoVerdict \notin [Dims -> BOOLEAN]
  BY GradingAssumption
<1>3. CASE answer.inContract
  BY <1>1, <1>2, <1>3 DEF Evaluation
<1>4. CASE ~answer.inContract
  BY <1>1, <1>2, <1>4 DEF Evaluation
<1>. QED
  BY <1>1, <1>3, <1>4

\* The cases of a batch that have a verdict.
Judged(cases) == {c \in cases : verdicts[c] # NoVerdict}

LEMMA DecidedAre ==
    ASSUME VerdictsTrue, NEW cases \in SUBSET (1 .. Cases)
    PROVE  Decided(cases) = Judged(cases) \X Dims
<1>1. ASSUME NEW c \in cases
      PROVE  (\E answer \in judged[c] : answer.inContract) <=> verdicts[c] # NoVerdict
  <2>1. CASE judged[c] = {} /\ verdicts[c] = NoVerdict
    BY <2>1
  <2>2. CASE \E answer \in Answers : judged[c] = {answer} /\ verdicts[c] = Evaluation(answer)
    BY <2>2, EvaluationSays
  <2>. QED
    BY <2>1, <2>2 DEF VerdictsTrue
<1>. QED
  BY <1>1 DEF Decided, Judged

LEMMA CorrectAre ==
    ASSUME VerdictsTrue, NEW cases \in SUBSET (1 .. Cases)
    PROVE  Correct(cases) = Cardinality(
             {p \in Decided(cases) : \E answer \in judged[p[1]] : answer.pass[p[2]]})
<1>1. ASSUME NEW c \in cases, NEW d \in Dims
      PROVE  (verdicts[c] # NoVerdict /\ verdicts[c][d])
             <=> (\E answer \in judged[c] : answer.inContract)
                 /\ (\E answer \in judged[c] : answer.pass[d])
  <2>1. CASE judged[c] = {} /\ verdicts[c] = NoVerdict
    BY <2>1
  <2>2. CASE \E answer \in Answers : judged[c] = {answer} /\ verdicts[c] = Evaluation(answer)
    <3>1. PICK answer \in Answers : judged[c] = {answer} /\ verdicts[c] = Evaluation(answer)
      BY <2>2
    <3>2. CASE answer.inContract
      BY <3>1, <3>2, EvaluationSays
    <3>3. CASE ~answer.inContract
      BY <3>1, <3>3, EvaluationSays
    <3>. QED
      BY <3>2, <3>3
  <2>. QED
    BY <2>1, <2>2 DEF VerdictsTrue
<1>2. {p \in cases \X Dims : verdicts[p[1]] # NoVerdict /\ verdicts[p[1]][p[2]]}
        = {p \in Decided(cases) : \E answer \in judged[p[1]] : answer.pass[p[2]]}
  BY <1>1 DEF Decided
<1>. QED
  BY <1>2 DEF Correct

LEMMA ScoredAre ==
    ASSUME NEW cases \in SUBSET (1 .. Cases)
    PROVE  /\ Scored(cases) = Cardinality(Judged(cases) \X Dims)
           /\ IsFiniteSet(Judged(cases)) /\ IsFiniteSet(Judged(cases) \X Dims)
           /\ IsFiniteSet(cases \X Dims)
           /\ Cardinality(cases \X Dims) = Cardinality(cases) * Cardinality(Dims)
<1>1. IsFiniteSet(1 .. Cases)
  BY BatchesFit, FS_Interval
<1>2. IsFiniteSet(cases)
  BY <1>1, FS_Subset
<1>3. Judged(cases) \in SUBSET cases
  BY DEF Judged
<1>4. IsFiniteSet(Judged(cases))
  BY <1>2, <1>3, FS_Subset
<1>5. IsFiniteSet(Dims)
  BY GradingAssumption
<1>6. /\ IsFiniteSet(Judged(cases) \X Dims)
      /\ Cardinality(Judged(cases) \X Dims) = Cardinality(Judged(cases)) * Cardinality(Dims)
  BY <1>4, <1>5, FS_Product
<1>7. /\ IsFiniteSet(cases \X Dims)
      /\ Cardinality(cases \X Dims) = Cardinality(cases) * Cardinality(Dims)
  BY <1>2, <1>5, FS_Product
<1>. QED
  BY <1>4, <1>6, <1>7 DEF Scored, Judged

\* What a receipt of these cases says.
LEMMA ReceiptFits ==
    ASSUME VerdictsTrue, NEW cases \in SUBSET (1 .. Cases)
    PROVE  /\ Correct(cases) \in Nat /\ Scored(cases) \in Nat /\ Correct(cases) <= Scored(cases)
           /\ Scored(cases) = Cardinality(Decided(cases))
           /\ Correct(cases) = Cardinality(
                {p \in Decided(cases) : \E answer \in judged[p[1]] : answer.pass[p[2]]})
<1>. DEFINE right == {p \in Decided(cases) : \E answer \in judged[p[1]] : answer.pass[p[2]]}
<1>1. Decided(cases) = Judged(cases) \X Dims
  BY DecidedAre
<1>2. Scored(cases) = Cardinality(Decided(cases)) /\ IsFiniteSet(Decided(cases))
  BY <1>1, ScoredAre
<1>3. Correct(cases) = Cardinality(right)
  BY CorrectAre
<1>4. right \in SUBSET Decided(cases)
  OBVIOUS
<1>. HIDE DEF right
<1>5. IsFiniteSet(right) /\ Cardinality(right) <= Cardinality(Decided(cases))
  BY <1>2, <1>4, FS_Subset
<1>6. Cardinality(right) \in Nat /\ Cardinality(Decided(cases)) \in Nat
  BY <1>2, <1>5, FS_CardinalityType
<1>. QED
  BY <1>2, <1>3, <1>5, <1>6 DEF right

\* A complete smoke has a verdict of each case.
LEMMA CompleteIsJudged ==
    ASSUME VerdictsTrue, SmokeComplete
    PROVE  Failures(SmokeBatch) = {} /\ Decided(SmokeBatch) = SmokeBatch \X Dims
<1>1. SmokeBatch \in SUBSET (1 .. Cases)
  BY BatchesFit
<1>2. Cardinality(SmokeBatch) = SmokeCases
  <2>1. SmokeCases \in Nat /\ 1 <= SmokeCases
    BY GradingAssumption
  <2>. QED
    BY <2>1, FS_Interval DEF SmokeBatch
<1>3. Cardinality(Judged(SmokeBatch) \X Dims) = Cardinality(SmokeBatch \X Dims)
  BY <1>1, <1>2, ScoredAre DEF SmokeComplete
<1>4. Judged(SmokeBatch) \X Dims \in SUBSET (SmokeBatch \X Dims)
  BY DEF Judged
<1>5. IsFiniteSet(SmokeBatch \X Dims)
  BY <1>1, ScoredAre
<1>6. Judged(SmokeBatch) \X Dims = SmokeBatch \X Dims
  BY <1>3, <1>4, <1>5, FS_Subset
<1>. QED
  BY <1>1, <1>6, DecidedAre DEF SmokeComplete

-----------------------------------------------------------------------------
(* Steps of a batch. *)

\* The calls of a batch do not touch the verdicts: its receipt is yet to come.
LEMMA CallsChange ==
    ASSUME GradingInv, calls' \in [Jobs(1 .. Cases) -> CallRecord], TriesLeft', SmokeFirst',
           grading' \in GradingStates, grading' \notin {"measured", "not_tested"},
           batch' \in {SmokeBatch, RestBatch},
           verdicts' = verdicts, judged' = judged, receipt' = receipt
    PROVE  GradingInv'
<1>1. GradingTyped'
  BY DEF GradingInv, GradingTyped
<1>2. VerdictsTrue'
  BY DEF GradingInv, VerdictsTrue
<1>3. ScoresAreTheJudges'
  BY DEF ScoresAreTheJudges
<1>. QED
  BY <1>1, <1>2, <1>3 DEF GradingInv

\* One call of the running batch.
LEMMA OneCall ==
    ASSUME GradingInv, NEW j \in Jobs(batch), batch' = batch, grading' # "idle",
           calls' \in [Jobs(1 .. Cases) -> CallRecord],
           \A k \in Jobs(1 .. Cases) : k # j => calls'[k] = calls[k],
           calls'[j].status = "none" => calls'[j].tries < Tries,
           \A c \in 1 .. Cases : c # j[1] => verdicts'[c] = verdicts[c]
    PROVE  j \in Jobs(1 .. Cases) /\ j[1] \in 1 .. Cases /\ TriesLeft' /\ SmokeFirst'
<1>1. batch \in {SmokeBatch, RestBatch} /\ batch \subseteq 1 .. Cases
  BY BatchesFit DEF GradingInv, GradingTyped
<1>2. j \in Jobs(1 .. Cases) /\ j[1] \in 1 .. Cases
  BY <1>1, JobsFit
<1>3. TriesLeft'
  <2>. SUFFICES ASSUME NEW k \in Jobs(1 .. Cases), calls'[k].status = "none"
                PROVE  calls'[k].tries < Tries
    BY DEF TriesLeft, Jobs
  <2>1. CASE k = j
    BY <2>1
  <2>2. CASE k # j
    BY <2>2 DEF GradingInv, TriesLeft
  <2>. QED
    BY <2>1, <2>2
<1>4. CASE batch = SmokeBatch
  <2>1. \A k \in Jobs(RestBatch) : k # j /\ k \in Jobs(1 .. Cases)
    BY <1>4, JobsFit, BatchesFit
  <2>2. \A k \in Jobs(RestBatch) : calls'[k].tries = 0
    BY <1>4, <2>1 DEF GradingInv, SmokeFirst
  <2>3. batch' # RestBatch
    BY <1>4, BatchesFit
  <2>. QED
    BY <1>2, <1>3, <2>2, <2>3 DEF SmokeFirst, Jobs, RestBatch, SmokeBatch
<1>5. CASE batch = RestBatch
  <2>1. /\ j \notin Jobs(SmokeBatch) /\ j[1] \notin SmokeBatch
        /\ SmokeBatch \subseteq 1 .. Cases /\ Jobs(SmokeBatch) \subseteq Jobs(1 .. Cases)
    BY <1>5, JobsFit, BatchesFit
  <2>2. \A k \in Jobs(SmokeBatch) : calls'[k] = calls[k]
    BY <2>1
  <2>3. \A c \in SmokeBatch : verdicts'[c] = verdicts[c]
    BY <2>1
  <2>4. Failures(SmokeBatch)' = Failures(SmokeBatch)
    BY <2>2 DEF Failures, Jobs, SmokeBatch
  <2>5. Scored(SmokeBatch)' = Scored(SmokeBatch)
    BY <2>3 DEF Scored, SmokeBatch
  <2>6. SmokeComplete'
    BY <1>5, <2>4, <2>5 DEF GradingInv, SmokeFirst, SmokeComplete
  <2>7. batch' # SmokeBatch
    BY <1>5, BatchesFit
  <2>. QED
    BY <1>2, <1>3, <2>6, <2>7 DEF SmokeFirst, SmokeBatch
<1>. QED
  BY <1>1, <1>4, <1>5

LEMMA CallFailsInv ==
    ASSUME GradingInv, NEW j \in Jobs(batch), CallFails(j)
    PROVE  GradingInv'
<1>. DEFINE status == IF calls[j].tries + 1 = Tries THEN "failed" ELSE "none"
            n == calls[j].tries + 1
            one == [calls EXCEPT ![j].tries = n]
<1>1. /\ calls' = [calls EXCEPT ![j].tries = n, ![j].status = status]
      /\ Pending(j) /\ grading' = grading /\ batch' = batch /\ verdicts' = verdicts
      /\ judged' = judged /\ receipt' = receipt
  BY DEF CallFails
<1>2. /\ calls \in [Jobs(1 .. Cases) -> CallRecord] /\ batch \in SUBSET (1 .. Cases)
      /\ batch \in {SmokeBatch, RestBatch} /\ grading \in GradingStates
  BY BatchesFit DEF GradingInv, GradingTyped
<1>3. j \in Jobs(1 .. Cases) /\ calls[j].status = "none"
      /\ grading \notin {"idle", "measured", "not_tested"}
  BY <1>1, <1>2, JobsFit DEF Pending
<1>4. n \in 0 .. Tries /\ (n = Tries \/ n < Tries)
  <2>1. calls[j].tries < Tries
    BY <1>3 DEF GradingInv, TriesLeft
  <2>2. calls[j].tries \in 0 .. Tries
    BY <1>2, <1>3 DEF CallRecord
  <2>3. Tries \in Nat
    BY GradingAssumption
  <2>. QED
    BY <2>1, <2>2, <2>3
<1>5. calls' = [one EXCEPT ![j].status = status]
  BY <1>1, <1>2, <1>3
<1>6. status \in {"none", "succeeded", "failed"} /\ (status = "none" => n # Tries)
  OBVIOUS
<1>. HIDE DEF status, n
<1>7. /\ one \in [Jobs(1 .. Cases) -> CallRecord] /\ one[j].tries = n
      /\ \A k \in Jobs(1 .. Cases) : k # j => one[k] = calls[k]
  BY <1>2, <1>3, <1>4, CallTries
<1>. HIDE DEF one
<1>8. /\ calls' \in [Jobs(1 .. Cases) -> CallRecord] /\ calls'[j].status = status
      /\ calls'[j].tries = n /\ \A k \in Jobs(1 .. Cases) : k # j => calls'[k] = one[k]
  BY <1>3, <1>5, <1>6, <1>7 DEF CallRecord
<1>9. /\ \A k \in Jobs(1 .. Cases) : k # j => calls'[k] = calls[k]
      /\ calls'[j].status = "none" => calls'[j].tries < Tries
  BY <1>4, <1>6, <1>7, <1>8
<1>10. TriesLeft' /\ SmokeFirst'
  BY <1>1, <1>3, <1>8, <1>9, OneCall
<1>. QED
  BY <1>1, <1>2, <1>3, <1>8, <1>10, CallsChange

LEMMA TargetAnswersInv ==
    ASSUME GradingInv, NEW j \in Jobs(batch), TargetAnswers(j)
    PROVE  GradingInv'
<1>1. PICK usage \in Usage :
         calls' = [calls EXCEPT ![j] = [tries |-> calls[j].tries + 1, status |-> "succeeded",
                                        usage |-> usage]]
  BY DEF TargetAnswers
<1>. DEFINE one == [tries |-> calls[j].tries + 1, status |-> "succeeded", usage |-> usage]
<1>2. /\ Pending(j) /\ grading' = grading /\ batch' = batch /\ verdicts' = verdicts
      /\ judged' = judged /\ receipt' = receipt
  BY DEF TargetAnswers
<1>3. /\ calls \in [Jobs(1 .. Cases) -> CallRecord] /\ batch \in SUBSET (1 .. Cases)
      /\ batch \in {SmokeBatch, RestBatch} /\ grading \in GradingStates
  BY BatchesFit DEF GradingInv, GradingTyped
<1>4. j \in Jobs(1 .. Cases) /\ calls[j].status = "none"
      /\ grading \notin {"idle", "measured", "not_tested"}
  BY <1>2, <1>3, JobsFit DEF Pending
<1>5. calls[j].tries + 1 \in 0 .. Tries
  <2>1. calls[j].tries < Tries
    BY <1>4 DEF GradingInv, TriesLeft
  <2>2. calls[j].tries \in 0 .. Tries
    BY <1>3, <1>4 DEF CallRecord
  <2>3. Tries \in Nat
    BY GradingAssumption
  <2>. QED
    BY <2>1, <2>2, <2>3
<1>6. one \in CallRecord /\ one.status = "succeeded"
  BY <1>5 DEF CallRecord
<1>. HIDE DEF one
<1>7. calls' = [calls EXCEPT ![j] = one]
  BY <1>1 DEF one
<1>8. /\ calls' \in [Jobs(1 .. Cases) -> CallRecord] /\ calls'[j] = one
      /\ \A k \in Jobs(1 .. Cases) : k # j => calls'[k] = calls[k]
  BY <1>3, <1>4, <1>6, <1>7, CallAnswered
<1>9. TriesLeft' /\ SmokeFirst'
  BY <1>2, <1>4, <1>6, <1>8, OneCall
<1>. QED
  BY <1>2, <1>3, <1>4, <1>8, <1>9, CallsChange

LEMMA JudgeAnswersInv ==
    ASSUME GradingInv, NEW j \in Jobs(batch), JudgeAnswers(j)
    PROVE  GradingInv'
<1>1. PICK usage \in Usage, answer \in Answers :
         /\ calls' = [calls EXCEPT ![j] =
              [tries |-> calls[j].tries + 1, usage |-> usage,
               status |-> IF Evaluation(answer) = NoVerdict THEN "failed" ELSE "succeeded"]]
         /\ verdicts' = [verdicts EXCEPT ![j[1]] = Evaluation(answer)]
         /\ judged' = [judged EXCEPT ![j[1]] = {answer}]
  BY DEF JudgeAnswers
<1>. DEFINE status == IF Evaluation(answer) = NoVerdict THEN "failed" ELSE "succeeded"
            one == [tries |-> calls[j].tries + 1, usage |-> usage, status |-> status]
<1>2. /\ Pending(j) /\ grading' = grading /\ batch' = batch /\ receipt' = receipt
  BY DEF JudgeAnswers
<1>3. /\ calls \in [Jobs(1 .. Cases) -> CallRecord] /\ batch \in SUBSET (1 .. Cases)
      /\ batch \in {SmokeBatch, RestBatch} /\ grading \in GradingStates
      /\ verdicts \in [1 .. Cases -> [Dims -> BOOLEAN] \union {NoVerdict}]
      /\ judged \in [1 .. Cases -> SUBSET Answers]
      /\ receipt \in [correct : Nat, total : Nat] /\ receipt.correct <= receipt.total
  BY BatchesFit DEF GradingInv, GradingTyped
<1>4. j \in Jobs(1 .. Cases) /\ calls[j].status = "none" /\ j[1] \in 1 .. Cases
      /\ grading \notin {"idle", "measured", "not_tested"}
  BY <1>2, <1>3, JobsFit DEF Pending
<1>5. calls[j].tries + 1 \in 0 .. Tries
  <2>1. calls[j].tries < Tries
    BY <1>4 DEF GradingInv, TriesLeft
  <2>2. calls[j].tries \in 0 .. Tries
    BY <1>3, <1>4 DEF CallRecord
  <2>3. Tries \in Nat
    BY GradingAssumption
  <2>. QED
    BY <2>1, <2>2, <2>3
<1>6. status \in {"failed", "succeeded"}
  OBVIOUS
<1>. HIDE DEF status
<1>7. one \in CallRecord /\ one.status # "none"
  BY <1>5, <1>6 DEF CallRecord
<1>. HIDE DEF one
<1>8. calls' = [calls EXCEPT ![j] = one]
  BY <1>1 DEF one, status
<1>9. /\ calls' \in [Jobs(1 .. Cases) -> CallRecord] /\ calls'[j] = one
      /\ \A k \in Jobs(1 .. Cases) : k # j => calls'[k] = calls[k]
  BY <1>3, <1>4, <1>7, <1>8, CallAnswered
<1>10. /\ verdicts' \in [1 .. Cases -> [Dims -> BOOLEAN] \union {NoVerdict}]
       /\ judged' \in [1 .. Cases -> SUBSET Answers]
       /\ verdicts'[j[1]] = Evaluation(answer) /\ judged'[j[1]] = {answer}
       /\ \A c \in 1 .. Cases : c # j[1] => verdicts'[c] = verdicts[c] /\ judged'[c] = judged[c]
  <2>1. Evaluation(answer) \in [Dims -> BOOLEAN] \union {NoVerdict}
    BY EvaluationSays
  <2>. QED
    BY <1>1, <1>3, <1>4, <2>1
<1>11. TriesLeft' /\ SmokeFirst'
  BY <1>2, <1>4, <1>7, <1>9, <1>10, OneCall
<1>12. GradingTyped'
  BY <1>2, <1>3, <1>9, <1>10 DEF GradingTyped
<1>13. VerdictsTrue'
  <2>. SUFFICES ASSUME NEW c \in 1 .. Cases
                PROVE  \/ judged'[c] = {} /\ verdicts'[c] = NoVerdict
                       \/ \E said \in Answers : judged'[c] = {said} /\ verdicts'[c] = Evaluation(said)
    BY DEF VerdictsTrue, Evaluation, Answers
  <2>1. CASE c = j[1]
    BY <1>10, <2>1
  <2>2. CASE c # j[1]
    BY <1>10, <2>2 DEF GradingInv, VerdictsTrue
  <2>. QED
    BY <2>1, <2>2
<1>14. ScoresAreTheJudges'
  BY <1>2, <1>4 DEF ScoresAreTheJudges
<1>. QED
  BY <1>11, <1>12, <1>13, <1>14 DEF GradingInv

LEMMA StartGradingInv ==
    ASSUME GradingInv, StartGrading
    PROVE  GradingInv'
<1>1. /\ grading' = "target" /\ batch' = SmokeBatch /\ calls' = calls /\ verdicts' = verdicts
      /\ judged' = judged /\ receipt' = receipt /\ batch = SmokeBatch
  BY DEF StartGrading, GradingInv, SmokeFirst
<1>2. calls \in [Jobs(1 .. Cases) -> CallRecord]
  BY DEF GradingInv, GradingTyped
<1>3. TriesLeft'
  BY <1>1 DEF GradingInv, TriesLeft, Jobs
<1>4. SmokeFirst'
  <2>1. \A j \in Jobs(RestBatch) : calls'[j].tries = 0
    BY <1>1 DEF GradingInv, SmokeFirst
  <2>2. batch' # RestBatch
    BY <1>1, BatchesFit
  <2>. QED
    BY <1>1, <2>1, <2>2 DEF SmokeFirst, Jobs, SmokeBatch, RestBatch
<1>5. calls' \in [Jobs(1 .. Cases) -> CallRecord] /\ batch' \in {SmokeBatch, RestBatch}
      /\ grading' \in GradingStates /\ grading' \notin {"measured", "not_tested"}
  BY <1>1, <1>2 DEF GradingStates
<1>. QED
  BY <1>1, <1>3, <1>4, <1>5, CallsChange

LEMMA TargetsDoneInv ==
    ASSUME GradingInv, TargetsDone
    PROVE  GradingInv'
<1>1. /\ grading' = "judge" /\ batch' = batch /\ calls' = calls /\ verdicts' = verdicts
      /\ judged' = judged /\ receipt' = receipt
  BY DEF TargetsDone
<1>2. /\ calls \in [Jobs(1 .. Cases) -> CallRecord] /\ batch \in {SmokeBatch, RestBatch}
  BY DEF GradingInv, GradingTyped
<1>3. TriesLeft'
  BY <1>1 DEF GradingInv, TriesLeft, Jobs
<1>4. SmokeFirst'
  BY <1>1 DEF GradingInv, SmokeFirst, SmokeComplete, Failures, Scored, Jobs, SmokeBatch, RestBatch
<1>5. calls' \in [Jobs(1 .. Cases) -> CallRecord] /\ batch' \in {SmokeBatch, RestBatch}
      /\ grading' \in GradingStates /\ grading' \notin {"measured", "not_tested"}
  BY <1>1, <1>2 DEF GradingStates
<1>. QED
  BY <1>1, <1>3, <1>4, <1>5, CallsChange

\* The smoke ends: the other cases are called only after a complete one.
LEMMA EndSmokeInv ==
    ASSUME GradingInv, EndSmoke
    PROVE  GradingInv'
<1>1. /\ calls' = calls /\ verdicts' = verdicts /\ judged' = judged
      /\ batch = SmokeBatch /\ grading = "judge"
  BY DEF EndSmoke, AllJudged
<1>2. /\ calls \in [Jobs(1 .. Cases) -> CallRecord]
      /\ verdicts \in [1 .. Cases -> [Dims -> BOOLEAN] \union {NoVerdict}]
      /\ judged \in [1 .. Cases -> SUBSET Answers]
      /\ receipt \in [correct : Nat, total : Nat] /\ receipt.correct <= receipt.total
      /\ VerdictsTrue
  BY DEF GradingInv, GradingTyped
<1>3. TriesLeft' /\ VerdictsTrue'
  BY <1>1 DEF GradingInv, TriesLeft, VerdictsTrue, Jobs
<1>4. \A j \in Jobs(RestBatch) : calls'[j].tries = 0
  BY <1>1 DEF GradingInv, SmokeFirst
<1>5. SmokeComplete' <=> SmokeComplete
  BY <1>1 DEF SmokeComplete, Failures, Scored, Jobs, SmokeBatch
<1>6. CASE SmokeComplete
  <2>1. /\ grading' \in {"refused", "target"} /\ receipt' = receipt
        /\ batch' \in {SmokeBatch, RestBatch}
    BY <1>6 DEF EndSmoke
  <2>2. SmokeFirst'
    <3>1. (\A j \in Jobs(RestBatch) : calls[j].tries = 0)'
      BY <1>4 DEF Jobs, RestBatch
    <3>. QED
      BY <1>5, <1>6, <2>1, <3>1 DEF SmokeFirst
  <2>3. calls' \in [Jobs(1 .. Cases) -> CallRecord]
        /\ grading' \in GradingStates /\ grading' \notin {"measured", "not_tested"}
    BY <1>1, <1>2, <2>1 DEF GradingStates
  <2>. QED
    BY <1>1, <1>3, <2>1, <2>2, <2>3, CallsChange
<1>7. CASE ~SmokeComplete
  <2>1. /\ grading' = "not_tested" /\ batch' = SmokeBatch
        /\ receipt' = [correct |-> Correct(SmokeBatch), total |-> Scored(SmokeBatch)]
    BY <1>7 DEF EndSmoke
  <2>2. /\ Correct(SmokeBatch) \in Nat /\ Scored(SmokeBatch) \in Nat
        /\ Correct(SmokeBatch) <= Scored(SmokeBatch)
        /\ Scored(SmokeBatch) = Cardinality(Decided(SmokeBatch))
        /\ Correct(SmokeBatch) = Cardinality(
             {p \in Decided(SmokeBatch) : \E answer \in judged[p[1]] : answer.pass[p[2]]})
    BY <1>2, BatchesFit, ReceiptFits
  <2>3. GradingTyped'
    BY <1>1, <1>2, <2>1, <2>2 DEF GradingTyped, GradingStates
  <2>4. SmokeFirst'
    <3>1. (\A j \in Jobs(RestBatch) : calls[j].tries = 0)'
      BY <1>4 DEF Jobs, RestBatch
    <3>2. batch' # RestBatch
      BY <2>1, BatchesFit
    <3>. QED
      BY <2>1, <3>1, <3>2 DEF SmokeFirst, SmokeBatch
  <2>5. ScoresAreTheJudges'
    <3>1. Decided(SmokeBatch)' = Decided(SmokeBatch)
      BY <1>1 DEF Decided, SmokeBatch
    <3>2. receipt'.total = Cardinality(Decided(SmokeBatch))
          /\ receipt'.correct = Cardinality(
               {p \in Decided(SmokeBatch) : \E answer \in judged'[p[1]] : answer.pass[p[2]]})
      BY <1>1, <2>1, <2>2
    <3>. QED
      BY <2>1, <3>1, <3>2 DEF ScoresAreTheJudges
  <2>. QED
    BY <1>3, <2>3, <2>4, <2>5 DEF GradingInv
<1>. QED
  BY <1>6, <1>7

\* The run ends: its receipt counts what the judges said of all cases.
LEMMA EndGradingInv ==
    ASSUME GradingInv, EndGrading
    PROVE  GradingInv'
<1>1. /\ calls' = calls /\ verdicts' = verdicts /\ judged' = judged
      /\ batch = RestBatch /\ batch' = batch /\ grading = "judge"
      /\ \/ grading' = "refused" /\ receipt' = receipt
         \/ /\ grading' = "measured"
            /\ receipt' = [correct |-> Correct(1 .. Cases), total |-> Scored(1 .. Cases)]
  BY DEF EndGrading, AllJudged
<1>2. /\ calls \in [Jobs(1 .. Cases) -> CallRecord]
      /\ verdicts \in [1 .. Cases -> [Dims -> BOOLEAN] \union {NoVerdict}]
      /\ judged \in [1 .. Cases -> SUBSET Answers]
      /\ VerdictsTrue /\ batch \in {SmokeBatch, RestBatch}
  BY DEF GradingInv, GradingTyped
<1>3. TriesLeft' /\ VerdictsTrue'
  BY <1>1 DEF GradingInv, TriesLeft, VerdictsTrue, Jobs
<1>4. SmokeFirst'
  <2>1. SmokeComplete'
    BY <1>1 DEF GradingInv, SmokeFirst, SmokeComplete, Failures, Scored, Jobs, SmokeBatch
  <2>2. batch' # SmokeBatch /\ grading' # "idle"
    BY <1>1, BatchesFit
  <2>. QED
    BY <2>1, <2>2 DEF SmokeFirst, SmokeBatch
<1>5. CASE grading' = "refused" /\ receipt' = receipt
  <2>1. calls' \in [Jobs(1 .. Cases) -> CallRecord]
        /\ grading' \in GradingStates /\ grading' \notin {"measured", "not_tested"}
    BY <1>1, <1>2, <1>5 DEF GradingStates
  <2>. QED
    BY <1>1, <1>2, <1>3, <1>4, <1>5, <2>1, CallsChange
<1>6. CASE /\ grading' = "measured"
           /\ receipt' = [correct |-> Correct(1 .. Cases), total |-> Scored(1 .. Cases)]
  <2>1. /\ Correct(1 .. Cases) \in Nat /\ Scored(1 .. Cases) \in Nat
        /\ Correct(1 .. Cases) <= Scored(1 .. Cases)
        /\ Scored(1 .. Cases) = Cardinality(Decided(1 .. Cases))
        /\ Correct(1 .. Cases) = Cardinality(
             {p \in Decided(1 .. Cases) : \E answer \in judged[p[1]] : answer.pass[p[2]]})
    BY <1>2, ReceiptFits
  <2>2. GradingTyped'
    BY <1>1, <1>2, <1>6, <2>1 DEF GradingTyped, GradingStates
  <2>3. ScoresAreTheJudges'
    <3>1. Decided(1 .. Cases)' = Decided(1 .. Cases)
      BY <1>1 DEF Decided
    <3>2. receipt'.total = Cardinality(Decided(1 .. Cases))
          /\ receipt'.correct = Cardinality(
               {p \in Decided(1 .. Cases) : \E answer \in judged'[p[1]] : answer.pass[p[2]]})
      BY <1>1, <1>6, <2>1
    <3>. QED
      BY <1>6, <3>1, <3>2 DEF ScoresAreTheJudges
  <2>. QED
    BY <1>3, <1>4, <2>2, <2>3 DEF GradingInv
<1>. QED
  BY <1>1, <1>5, <1>6

LEMMA GradingInitInv == GradingInit => GradingInv
<1>. SUFFICES ASSUME GradingInit
              PROVE  GradingInv
  OBVIOUS
<1>1. /\ grading = "idle" /\ batch = SmokeBatch
      /\ calls = [j \in Jobs(1 .. Cases) |-> [tries |-> 0, status |-> "none", usage |-> "none"]]
      /\ verdicts = [c \in 1 .. Cases |-> NoVerdict] /\ judged = [c \in 1 .. Cases |-> {}]
      /\ receipt = [correct |-> 0, total |-> 0]
  BY DEF GradingInit
<1>2. 0 \in 0 .. Tries /\ 0 < Tries
  BY GradingAssumption
<1>3. [tries |-> 0, status |-> "none", usage |-> "none"] \in CallRecord
  BY <1>2 DEF CallRecord, Usage
<1>4. GradingTyped
  BY <1>1, <1>3 DEF GradingTyped, GradingStates
<1>5. TriesLeft /\ VerdictsTrue
  BY <1>1, <1>2 DEF TriesLeft, VerdictsTrue
<1>6. SmokeFirst
  <2>1. \A j \in Jobs(RestBatch) : calls[j].tries = 0
    BY <1>1, BatchesFit, JobsFit
  <2>. QED
    BY <1>1, <2>1, BatchesFit DEF SmokeFirst
<1>7. ScoresAreTheJudges
  BY <1>1 DEF ScoresAreTheJudges
<1>. QED
  BY <1>4, <1>5, <1>6, <1>7 DEF GradingInv

LEMMA GradingStepInv == GradingInv /\ [GradingNext]_gradingVars => GradingInv'
<1>. SUFFICES ASSUME GradingInv, [GradingNext]_gradingVars
              PROVE  GradingInv'
  OBVIOUS
<1>1. CASE StartGrading
  BY <1>1, StartGradingInv
<1>2. CASE TargetsDone
  BY <1>2, TargetsDoneInv
<1>3. CASE EndSmoke
  BY <1>3, EndSmokeInv
<1>4. CASE EndGrading
  BY <1>4, EndGradingInv
<1>5. CASE \E j \in Jobs(batch) : CallFails(j) \/ TargetAnswers(j) \/ JudgeAnswers(j)
  BY <1>5, CallFailsInv, TargetAnswersInv, JudgeAnswersInv
<1>6. CASE UNCHANGED gradingVars
  BY <1>6 DEF gradingVars, GradingInv, GradingTyped, TriesLeft, VerdictsTrue, SmokeFirst,
              ScoresAreTheJudges, SmokeComplete, Failures, Scored, Decided, Jobs
<1>. QED
  BY <1>1, <1>2, <1>3, <1>4, <1>5, <1>6 DEF GradingNext

\* For any number of cases, dimensions, attempts and misses, the state of a paid
\* grading has its types.
THEOREM GradingTypeCorrect == GradingSpec => []GradingTypeOK
<1>1. GradingInv => GradingTypeOK
  BY DEF GradingInv, GradingTyped, GradingTypeOK, GradingStates, CallRecord
<1>. QED
  BY <1>1, GradingInitInv, GradingStepInv, PTL DEF GradingSpec

\* A full run is paid for only after a smoke in which every call succeeded and every
\* dimension was judged, and a receipt counts what judges answered in the contract,
\* in whatever order the calls of the pool fail, are retried and come back.
THEOREM PaidGradesAreEarned == GradingSpec => []GradesAreEarned
<1>1. GradingInv => GradesAreEarned
  <2>. SUFFICES ASSUME GradingInv
                PROVE  GradesAreEarned
    OBVIOUS
  <2>1. ASSUME \E j \in Jobs(RestBatch) : calls[j].tries > 0
        PROVE  Failures(SmokeBatch) = {} /\ Decided(SmokeBatch) = SmokeBatch \X Dims
    <3>1. batch = RestBatch
      BY <2>1 DEF GradingInv, GradingTyped, SmokeFirst
    <3>. QED
      BY <3>1, CompleteIsJudged DEF GradingInv, SmokeFirst
  <2>2. FullRunWasAuthorised
    BY <2>1 DEF FullRunWasAuthorised
  <2>. QED
    BY <2>2 DEF GradingInv, GradesAreEarned
<1>. QED
  BY <1>1, GradingInitInv, GradingStepInv, PTL DEF GradingSpec

-----------------------------------------------------------------------------
(* The scores. *)

\* An order holds candidates, each once.
LEMMA OrderShape ==
    ASSUME NEW order \in Orders
    PROVE  /\ order \in Seq(Candidates) /\ Len(order) <= Cardinality(Candidates)
           /\ Cardinality(Candidates) \in Nat
           /\ \A m, n \in DOMAIN order : order[m] = order[n] => m = n
<1>1. IsFiniteSet(Candidates)
    <2>1. IsFiniteSet({"current", "stale", "conflict"})
        <3>1. IsFiniteSet({"current"}) /\ {"current", "stale", "conflict"}
                    = ({"current"} \union {"stale"}) \union {"conflict"}
            BY FS_Singleton
        <3> QED BY <3>1, FS_AddElement
    <2> QED
        BY <2>1, ScoringAssumption, FS_Union DEF Candidates
<1>2. PICK S \in SUBSET Candidates : order \in SetToSeqs(S)
    BY DEF Orders
<1>3. IsFiniteSet(S) /\ Cardinality(S) <= Cardinality(Candidates)
    BY <1>1, FS_Subset
<1>4. Cardinality(S) \in Nat /\ Cardinality(Candidates) \in Nat
    BY <1>1, <1>3, FS_CardinalityType
<1> DEFINE c == Cardinality(S)
<1>5. order \in [1..c -> S] /\ \A i, j \in 1..c : i /= j => order[i] /= order[j]
    BY <1>2 DEF SetToSeqs
<1> HIDE DEF c
<1>6. order \in Seq(Candidates) /\ Len(order) = c /\ DOMAIN order = 1..c
    BY <1>4, <1>5 DEF c
<1> QED
    BY <1>3, <1>4, <1>5, <1>6 DEF c

\* Who reads the first n has seen a candidate if its position is one of them.
LEMMA SeenByThen ==
    ASSUME NEW order \in Orders, NEW k, NEW n \in Nat
    PROVE  /\ Position(order, k) \in 0..Len(order) /\ Len(order) \in Nat
           /\ k \in Prefix(order, n) <=> Position(order, k) /= 0 /\ Position(order, k) <= n
<1> DEFINE at == Position(order, k)
           L == Len(order)
           m == IF L < n THEN L ELSE n
<1>1. /\ order \in Seq(Candidates) /\ DOMAIN order = 1..L /\ L \in Nat
      /\ \A i, j \in 1..L : order[i] = order[j] => i = j
    BY OrderShape
<1>2. /\ at \in 0..L
      /\ at /= 0 => order[at] = k
      /\ at = 0 => \A i \in 1..L : order[i] /= k
    <2>1. CASE k \in Range(order)
        <3>1. \E i \in 1..L : order[i] = k
            BY <1>1, <2>1 DEF Range
        <3>2. at = CHOOSE i \in 1..L : order[i] = k
            BY <1>1, <2>1 DEF Position
        <3> HIDE DEF at, L
        <3> QED
            BY <1>1, <3>1, <3>2
    <2>2. CASE k \notin Range(order)
        BY <1>1, <2>2 DEF Position, Range
    <2> QED
        BY <2>1, <2>2
<1>3. m \in 0..L /\ m <= n
    BY <1>1
<1>4. Prefix(order, n) = {order[i] : i \in 1..m}
    <2> DEFINE head == SubSeq(order, 1, m)
    <2>1. \A i \in 1..m : order[i] \in Candidates
        BY <1>1, <1>3
    <2> HIDE DEF m
    <2>2. head \in Seq(Candidates) /\ Len(head) = m /\ \A i \in 1..m : head[i] = order[i]
        BY <1>1, <1>3, <2>1, SubSeqProperties
    <2>3. DOMAIN head = 1..m
        BY <2>2
    <2>4. Prefix(order, n) = Range(head)
        BY DEF Prefix, First, m
    <2> HIDE DEF head
    <2> QED
        BY <2>2, <2>3, <2>4 DEF Range
<1> HIDE DEF at
<1>5. k \in Prefix(order, n) => at /= 0 /\ at <= n
    <2> SUFFICES ASSUME NEW i \in 1..m, order[i] = k
                 PROVE  at /= 0 /\ at <= n
        BY <1>4
    <2>1. i \in 1..L /\ i <= n
        BY <1>1, <1>3
    <2>2. at /= 0 /\ at \in 1..L
        BY <1>1, <1>2, <2>1
    <2>3. at = i
        BY <1>1, <1>2, <2>1, <2>2
    <2> QED
        BY <2>1, <2>2, <2>3
<1>6. at /= 0 /\ at <= n => k \in Prefix(order, n)
    <2> HAVE at /= 0 /\ at <= n
    <2>1. at \in 1..m
        BY <1>1, <1>2
    <2> QED
        BY <1>2, <1>4, <2>1
<1> QED
    BY <1>1, <1>2, <1>5, <1>6 DEF at

-----------------------------------------------------------------------------
(* Sums over finite sets. *)

\* A set of naturals that is not empty has a least member.
LEMMA LeastNumber ==
    ASSUME NEW B \in SUBSET Nat, B /= {}
    PROVE  \E k \in B : \A j \in B : k <= j
<1>1. PICK k \in B : \A j \in B : <<j, k>> \notin OpToRel(<, Nat)
    BY NatLessThanWellFounded, WFMin
<1>2. \A j \in B : ~(j < k)
    BY <1>1 DEF OpToRel
<1> QED
    BY <1>2

\* What holds of a set when it holds of the smaller ones holds of every subset of a
\* finite set: `Good` are those of which it holds.
LEMMA BySize ==
    ASSUME NEW S, IsFiniteSet(S), NEW Good,
           \A T \in SUBSET S :
               (\A U \in SUBSET S : Cardinality(U) < Cardinality(T) => U \in Good) => T \in Good
    PROVE  \A T \in SUBSET S : T \in Good
<1> DEFINE Sizes == {n \in Nat : \E T \in SUBSET S : T \notin Good /\ Cardinality(T) = n}
<1>1. SUFFICES ASSUME NEW T0 \in SUBSET S, T0 \notin Good
               PROVE  FALSE
    OBVIOUS
<1>2. \A T \in SUBSET S : Cardinality(T) \in Nat
    BY FS_Subset, FS_CardinalityType
<1>3. PICK n \in Sizes : \A m \in Sizes : n <= m
    <2>1. Sizes \in SUBSET Nat /\ Sizes /= {}
        BY <1>1, <1>2
    <2> HIDE DEF Sizes
    <2> QED
        BY <2>1, LeastNumber
<1>4. PICK T \in SUBSET S : T \notin Good /\ Cardinality(T) = n
    BY <1>3
<1>5. ASSUME NEW U \in SUBSET S, Cardinality(U) < n
      PROVE  U \in Good
    BY <1>2, <1>3, <1>5
<1> QED
    BY <1>4, <1>5

\* One member of a set, as the fold of the community modules takes it.
OneOf(T) == CHOOSE x \in T : TRUE

SumsOver(f, S, sum) ==
    sum = [T \in SUBSET S |-> IF T = {} THEN 0 ELSE f[OneOf(T)] + sum[T \ {OneOf(T)}]]

LEMMA SumIsOver ==
    ASSUME NEW f, NEW S
    PROVE  SumFunctionOnSet(f, S) = (CHOOSE sum : SumsOver(f, S, sum))[S]
BY DEF SumFunctionOnSet, FoldFunctionOnSet, MapThenFoldSet, SumsOver, OneOf

\* There is a function that sums over the subsets with at most n members.
SumsUpTo(f, S, n, sum) ==
    \A T \in SUBSET S : Cardinality(T) <= n =>
        sum[T] = IF T = {} THEN 0 ELSE f[OneOf(T)] + sum[T \ {OneOf(T)}]

LEMMA OneLess ==
    ASSUME NEW S, IsFiniteSet(S), NEW T \in SUBSET S, T /= {}
    PROVE  /\ OneOf(T) \in T /\ T \ {OneOf(T)} \in SUBSET S
           /\ Cardinality(T) \in Nat /\ Cardinality(T) /= 0
           /\ Cardinality(T \ {OneOf(T)}) = Cardinality(T) - 1
<1>1. OneOf(T) \in T
    BY DEF OneOf
<1>2. IsFiniteSet(T) /\ Cardinality(T) \in Nat /\ Cardinality(T) /= 0
    BY FS_Subset, FS_CardinalityType, FS_EmptySet
<1> QED
    BY <1>1, <1>2, FS_RemoveElement

LEMMA SumsUpToExist ==
    ASSUME NEW f, NEW S, IsFiniteSet(S), NEW n \in Nat
    PROVE  \E sum : SumsUpTo(f, S, n, sum)
<1> DEFINE Bad == {k \in Nat : ~ \E sum : SumsUpTo(f, S, k, sum)}
<1>0. \A T \in SUBSET S : IsFiniteSet(T) /\ Cardinality(T) \in Nat /\ (Cardinality(T) = 0 <=> T = {})
    BY FS_Subset, FS_CardinalityType, FS_EmptySet
<1>1. SUFFICES ASSUME Bad /= {} PROVE FALSE
    OBVIOUS
<1>2. PICK k \in Bad : \A m \in Bad : k <= m
    <2>1. Bad \in SUBSET Nat
        OBVIOUS
    <2> HIDE DEF Bad
    <2> QED
        BY <1>1, <2>1, LeastNumber
<1>3. k /= 0
    <2> DEFINE none == [T \in SUBSET S |-> 0]
    <2>1. \A T \in SUBSET S : Cardinality(T) <= 0 => none[T] = 0 /\ T = {}
        BY <1>0
    <2> HIDE DEF none
    <2>2. SumsUpTo(f, S, 0, none)
        BY <2>1 DEF SumsUpTo
    <2> QED
        BY <1>2, <2>2
<1>4. PICK sum : SumsUpTo(f, S, k - 1, sum)
    BY <1>2, <1>3
<1> DEFINE more == [T \in SUBSET S |-> IF T = {} THEN 0 ELSE f[OneOf(T)] + sum[T \ {OneOf(T)}]]
<1>5. ASSUME NEW T \in SUBSET S, Cardinality(T) <= k
      PROVE  more[T] = IF T = {} THEN 0 ELSE f[OneOf(T)] + more[T \ {OneOf(T)}]
    <2>1. CASE T = {}
        BY <2>1
    <2>2. CASE T /= {}
        <3> DEFINE U == T \ {OneOf(T)}
        <3>1. U \in SUBSET S /\ Cardinality(U) <= k - 1
            BY <1>5, <2>2, OneLess
        <3> HIDE DEF U
        <3>2. sum[U] = IF U = {} THEN 0 ELSE f[OneOf(U)] + sum[U \ {OneOf(U)}]
            BY <1>4, <3>1 DEF SumsUpTo
        <3>3. more[U] = sum[U]
            BY <3>1, <3>2
        <3>4. more[T] = f[OneOf(T)] + sum[U]
            BY <2>2 DEF U
        <3> HIDE DEF more
        <3> QED
            BY <2>2, <3>3, <3>4 DEF U
    <2> QED
        BY <2>1, <2>2
<1> HIDE DEF more
<1>6. SumsUpTo(f, S, k, more)
    BY <1>5 DEF SumsUpTo
<1> QED
    BY <1>2, <1>6

LEMMA SumsExist ==
    ASSUME NEW f, NEW S, IsFiniteSet(S)
    PROVE  \E sum : SumsOver(f, S, sum)
<1>1. Cardinality(S) \in Nat
    BY FS_CardinalityType
<1>2. PICK sum : SumsUpTo(f, S, Cardinality(S), sum)
    BY <1>1, SumsUpToExist
<1>3. \A T \in SUBSET S : Cardinality(T) <= Cardinality(S)
    BY FS_Subset
<1> DEFINE all == [T \in SUBSET S |-> sum[T]]
<1>4. ASSUME NEW T \in SUBSET S
      PROVE  all[T] = IF T = {} THEN 0 ELSE f[OneOf(T)] + all[T \ {OneOf(T)}]
    <2>1. sum[T] = IF T = {} THEN 0 ELSE f[OneOf(T)] + sum[T \ {OneOf(T)}]
        BY <1>2, <1>3 DEF SumsUpTo
    <2> QED
        BY <2>1
<1>5. all = [T \in SUBSET S |-> all[T]]
    OBVIOUS
<1> HIDE DEF all
<1>6. SumsOver(f, S, all)
    BY <1>4, <1>5 DEF SumsOver
<1> QED
    BY <1>6

\* A sum over a set is a function of the set that takes its elements one by one.
LEMMA SumTakesOne ==
    ASSUME NEW f, NEW S, IsFiniteSet(S)
    PROVE  SumFunctionOnSet(f, S) = IF S = {} THEN 0
                ELSE f[OneOf(S)] + SumFunctionOnSet(f, S \ {OneOf(S)})
<1> DEFINE sum(T) == CHOOSE g : SumsOver(f, T, g)
<1>1. ASSUME NEW T \in SUBSET S
      PROVE  SumsOver(f, T, sum(T)) /\ SumFunctionOnSet(f, T) = sum(T)[T]
    <2>1. IsFiniteSet(T)
        BY FS_Subset
    <2> QED
        BY <2>1, SumsExist, SumIsOver
<1> HIDE DEF sum
<1>2. CASE S = {}
    BY <1>1, <1>2 DEF SumsOver
<1>3. CASE S /= {}
    <2> DEFINE R == S \ {OneOf(S)}
    <2>1. R \in SUBSET S /\ IsFiniteSet(R)
        BY FS_Subset
    <2> DEFINE Good == {T \in SUBSET R : sum(S)[T] = sum(R)[T]}
    <2>2. sum(S)[S] = f[OneOf(S)] + sum(S)[R]
        BY <1>1, <1>3 DEF SumsOver
    <2> HIDE DEF R
    <2>3. SumsOver(f, S, sum(S)) /\ SumsOver(f, R, sum(R))
        BY <1>1, <2>1
    <2>4. \A T \in SUBSET R : T \in Good
        <3>1. ASSUME NEW T \in SUBSET R,
                     \A U \in SUBSET R : Cardinality(U) < Cardinality(T) => U \in Good
              PROVE  T \in Good
            <4>1. CASE T = {}
                BY <2>1, <2>3, <4>1 DEF SumsOver
            <4>2. CASE T /= {}
                <5>1. /\ T \ {OneOf(T)} \in SUBSET R /\ Cardinality(T) \in Nat
                      /\ Cardinality(T \ {OneOf(T)}) = Cardinality(T) - 1
                    BY <2>1, <4>2, OneLess
                <5>2. T \ {OneOf(T)} \in Good
                    BY <3>1, <5>1
                <5>3. /\ sum(S)[T] = f[OneOf(T)] + sum(S)[T \ {OneOf(T)}]
                      /\ sum(R)[T] = f[OneOf(T)] + sum(R)[T \ {OneOf(T)}]
                    BY <2>1, <2>3, <4>2 DEF SumsOver
                <5> QED
                    BY <5>2, <5>3
            <4> QED
                BY <4>1, <4>2
        <3> HIDE DEF Good
        <3> QED
            BY <2>1, <3>1, BySize
    <2> QED
        BY <1>1, <1>3, <2>1, <2>2, <2>4 DEF R
<1> QED
    BY <1>2, <1>3

\* Any element may be the one that is taken.
LEMMA SumTakesAny ==
    ASSUME NEW f, NEW S, IsFiniteSet(S), \A x \in S : f[x] \in Nat
    PROVE  /\ SumFunctionOnSet(f, S) \in Nat
           /\ \A x \in S : SumFunctionOnSet(f, S) = f[x] + SumFunctionOnSet(f, S \ {x})
<1> DEFINE sum(T) == SumFunctionOnSet(f, T)
           Good == {T \in SUBSET S : /\ sum(T) \in Nat
                                     /\ \A x \in T : sum(T) = f[x] + sum(T \ {x})}
<1>1. \A T \in SUBSET S : IsFiniteSet(T) /\ Cardinality(T) \in Nat
    BY FS_Subset, FS_CardinalityType
<1>2. \A T \in SUBSET S : \A x \in T : Cardinality(T \ {x}) < Cardinality(T)
    <2>1. ASSUME NEW T \in SUBSET S, NEW x \in T
          PROVE  Cardinality(T \ {x}) < Cardinality(T)
        <3>1. IsFiniteSet(T) /\ Cardinality(T) \in Nat
            BY <1>1
        <3>2. Cardinality(T \ {x}) = Cardinality(T) - 1
            BY <3>1, FS_RemoveElement
        <3> QED
            BY <3>1, <3>2
    <2> QED
        BY <2>1
<1>3. ASSUME NEW T \in SUBSET S,
             \A U \in SUBSET S : Cardinality(U) < Cardinality(T) => U \in Good
      PROVE  T \in Good
    <2>1. CASE T = {}
        <3>1. sum(T) = 0
            BY <1>1, <2>1, SumTakesOne
        <3> QED
            BY <2>1, <3>1
    <2>2. CASE T /= {}
        <3> DEFINE c == OneOf(T)
        <3>1. c \in T /\ T \ {c} \in SUBSET S /\ sum(T) = f[c] + sum(T \ {c})
            BY <1>1, <2>2, SumTakesOne DEF OneOf
        <3> HIDE DEF c
        <3>2. T \ {c} \in Good /\ f[c] \in Nat
            BY <1>2, <1>3, <3>1
        <3>3. ASSUME NEW x \in T, x /= c
              PROVE  sum(T) = f[x] + sum(T \ {x})
            <4> DEFINE U == (T \ {c}) \ {x}
            <4>1. sum(T \ {c}) = f[x] + sum(U)
                BY <3>2, <3>3
            <4>2. T \ {x} \in Good /\ U = (T \ {x}) \ {c} /\ c \in T \ {x}
                BY <1>2, <1>3, <3>1, <3>3
            <4>3. sum(T \ {x}) = f[c] + sum(U)
                BY <4>2
            <4>4. U \in Good
                <5>1. U \in SUBSET S /\ Cardinality(U) < Cardinality(T \ {c})
                    BY <1>2, <3>1, <3>3
                <5>2. Cardinality(T \ {c}) < Cardinality(T)
                    BY <1>2, <3>1
                <5>3. /\ Cardinality(U) \in Nat /\ Cardinality(T) \in Nat
                      /\ Cardinality(T \ {c}) \in Nat
                    BY <1>1, <3>1, <5>1
                <5> QED
                    BY <1>3, <5>1, <5>2, <5>3
            <4>5. sum(U) \in Nat /\ f[x] \in Nat
                BY <4>4
            <4> HIDE DEF U, sum, Good
            <4> QED
                BY <3>1, <3>2, <4>1, <4>3, <4>5
        <3>4. sum(T \ {c}) \in Nat
            BY <3>2
        <3>5. sum(T) \in Nat /\ \A x \in T : sum(T) = f[x] + sum(T \ {x})
            <4> HIDE DEF sum, Good
            <4> QED
                BY <3>1, <3>2, <3>3, <3>4
        <3> QED
            BY <3>5
    <2> QED
        BY <2>1, <2>2
<1> HIDE DEF Good
<1>4. S \in Good
    BY <1>3, BySize
<1> QED
    BY <1>4 DEF Good

\* Sums of equal terms, over sets that correspond, are equal.
LEMMA SumsCorrespond ==
    ASSUME NEW f, NEW g, NEW h, NEW S, IsFiniteSet(S), \A x \in S : f[x] \in Nat,
           \A x, y \in S : h[x] = h[y] => x = y, \A x \in S : g[h[x]] = f[x]
    PROVE  SumFunctionOnSet(f, S) = SumFunctionOnSet(g, {h[x] : x \in S})
<1> DEFINE Good == {T \in SUBSET S :
                     SumFunctionOnSet(f, T) = SumFunctionOnSet(g, {h[x] : x \in T})}
<1>1. ASSUME NEW T \in SUBSET S
      PROVE  IsFiniteSet(T) /\ IsFiniteSet({h[x] : x \in T})
    <2> DEFINE image == [x \in T |-> h[x]]
    <2>1. image \in Surjection(T, {h[x] : x \in T})
        BY DEF Surjection
    <2>2. IsFiniteSet(T)
        BY FS_Subset
    <2> QED
        BY <2>1, <2>2, FS_Surjection
<1>2. ASSUME NEW T \in SUBSET S,
             \A U \in SUBSET S : Cardinality(U) < Cardinality(T) => U \in Good
      PROVE  T \in Good
    <2>1. CASE T = {}
        <3>1. {h[x] : x \in T} = {} /\ IsFiniteSet({})
            BY <2>1, FS_EmptySet
        <3>2. SumFunctionOnSet(f, {}) = 0 /\ SumFunctionOnSet(g, {}) = 0
            BY <3>1, SumTakesOne
        <3> QED
            BY <2>1, <3>1, <3>2
    <2>2. CASE T /= {}
        <3> DEFINE c == OneOf(T)
                   U == T \ {c}
                   image(V) == {h[x] : x \in V}
        <3>1. /\ c \in T /\ U \in SUBSET S /\ Cardinality(T) \in Nat
              /\ Cardinality(U) = Cardinality(T) - 1
            BY <2>2, OneLess
        <3>2. U \in Good
            BY <1>2, <3>1
        <3>3. SumFunctionOnSet(f, T) = f[c] + SumFunctionOnSet(f, U)
            <4>1. IsFiniteSet(T) /\ c \in T /\ \A x \in T : f[x] \in Nat
                BY <1>1, <3>1
            <4> HIDE DEF c
            <4> QED
                BY <4>1, SumTakesAny
        <3>4. image(T) \ {h[c]} = image(U) /\ h[c] \in image(T)
            BY <3>1
        <3>5. IsFiniteSet(image(T)) /\ \A y \in image(T) : g[y] \in Nat
            <4>1. \A x \in T : x \in S /\ g[h[x]] \in Nat
                OBVIOUS
            <4> QED
                BY <1>1, <4>1
        <3>6. SumFunctionOnSet(g, image(T)) = g[h[c]] + SumFunctionOnSet(g, image(U))
            <4> DEFINE all == image(T)
                       y == h[c]
            <4>1. all \ {y} = image(U) /\ y \in all /\ IsFiniteSet(all) /\ \A z \in all : g[z] \in Nat
                BY <3>4, <3>5
            <4> HIDE DEF all, y
            <4>2. SumFunctionOnSet(g, all) = g[y] + SumFunctionOnSet(g, all \ {y})
                BY <4>1, SumTakesAny
            <4> QED
                BY <4>1, <4>2 DEF all, y
        <3> HIDE DEF c, U
        <3> QED
            BY <3>1, <3>2, <3>3, <3>6
    <2> QED
        BY <2>1, <2>2
<1> HIDE DEF Good
<1>3. S \in Good
    BY <1>2, BySize
<1> QED
    BY <1>3 DEF Good

\* A sum of terms of at most b each.
LEMMA SumIsBounded ==
    ASSUME NEW f, NEW S, IsFiniteSet(S), NEW b \in Nat, \A x \in S : f[x] \in 0..b
    PROVE  SumFunctionOnSet(f, S) <= b * Cardinality(S)
<1> DEFINE Good == {T \in SUBSET S : SumFunctionOnSet(f, T) <= b * Cardinality(T)}
<1>1. \A T \in SUBSET S : IsFiniteSet(T)
    BY FS_Subset
<1>2. ASSUME NEW T \in SUBSET S,
             \A U \in SUBSET S : Cardinality(U) < Cardinality(T) => U \in Good
      PROVE  T \in Good
    <2>1. CASE T = {}
        <3>1. SumFunctionOnSet(f, T) = 0 /\ Cardinality(T) = 0
            BY <1>1, <2>1, SumTakesOne, FS_EmptySet
        <3> QED
            BY <3>1
    <2>2. CASE T /= {}
        <3> DEFINE c == OneOf(T)
                   U == T \ {c}
        <3>1. /\ c \in T /\ U \in SUBSET S /\ Cardinality(T) \in Nat /\ Cardinality(T) /= 0
              /\ Cardinality(U) = Cardinality(T) - 1
            BY <2>2, OneLess
        <3>2. SumFunctionOnSet(f, U) <= b * Cardinality(U)
            BY <1>2, <3>1
        <3>3. /\ SumFunctionOnSet(f, T) = f[c] + SumFunctionOnSet(f, U)
              /\ SumFunctionOnSet(f, U) \in Nat /\ f[c] \in 0..b
            <4>1. /\ IsFiniteSet(T) /\ c \in T /\ \A x \in T : f[x] \in Nat
                  /\ IsFiniteSet(U) /\ \A x \in U : f[x] \in Nat
                BY <1>1, <3>1
            <4> HIDE DEF c
            <4>2. SumFunctionOnSet(f, T) = f[c] + SumFunctionOnSet(f, T \ {c})
                BY <4>1, SumTakesAny
            <4>3. SumFunctionOnSet(f, U) \in Nat
                <5> HIDE DEF U
                <5> QED
                    BY <4>1, SumTakesAny
            <4> QED
                BY <3>1, <4>2, <4>3
        <3>5. b * Cardinality(T) = b * Cardinality(U) + b
            <4> DEFINE n == Cardinality(U)
            <4>1. n \in Nat /\ Cardinality(T) = n + 1
                BY <3>1
            <4> HIDE DEF n
            <4>2. b * (n + 1) = b * n + b
                BY <4>1
            <4> QED
                BY <4>1, <4>2 DEF n
        <3>6. Cardinality(U) \in Nat /\ b * Cardinality(U) \in Nat
            BY <3>1
        <3> HIDE DEF c, U
        <3> QED
            BY <3>2, <3>3, <3>5, <3>6
    <2> QED
        BY <2>1, <2>2
<1> HIDE DEF Good
<1>3. S \in Good
    BY <1>2, BySize
<1> QED
    BY <1>3 DEF Good

-----------------------------------------------------------------------------
(* What a query scores. *)

LEMMA TopShape ==
    ASSUME NEW S, NEW ranked \in Seq(S)
    PROVE  /\ Len(Top(ranked)) \in 0..Cutoff /\ Len(Top(ranked)) <= Cutoff
           /\ Len(Top(ranked)) <= Len(ranked)
           /\ DOMAIN Top(ranked) = 1..Len(Top(ranked))
           /\ \A i \in DOMAIN Top(ranked) : i \in DOMAIN ranked /\ Top(ranked)[i] = ranked[i]
           /\ First(Top(ranked), Cutoff) = Top(ranked)
<1> DEFINE m == IF Len(ranked) < Cutoff THEN Len(ranked) ELSE Cutoff
<1>1. m \in 0..Cutoff /\ m <= Cutoff /\ m <= Len(ranked) /\ Len(ranked) \in Nat
    <2> DEFINE l == Len(ranked)
    <2>1. l \in Nat /\ Cutoff \in Nat
        BY ScoringAssumption
    <2> HIDE DEF l
    <2> DEFINE k == IF l < Cutoff THEN l ELSE Cutoff
    <2>2. k \in 0..Cutoff /\ k <= Cutoff /\ k <= l
        <3>1. CASE l < Cutoff
            BY <2>1, <3>1
        <3>2. CASE ~(l < Cutoff)
            BY <2>1, <3>2
        <3> QED
            BY <3>1, <3>2
    <2> QED
        BY <2>1, <2>2 DEF l
<1>2. Top(ranked) = SubSeq(ranked, 1, m)
    BY ScoringAssumption DEF Top, First
<1> HIDE DEF m
<1>3. Top(ranked) \in Seq(S) /\ Len(Top(ranked)) = m /\ \A i \in 1..m : Top(ranked)[i] = ranked[i]
    BY <1>1, <1>2
<1>4. First(Top(ranked), Cutoff) = SubSeq(Top(ranked), 1, Len(Top(ranked)))
    BY <1>1, <1>3, ScoringAssumption DEF First
<1>5. SubSeq(Top(ranked), 1, Len(Top(ranked))) = Top(ranked)
    BY <1>3
<1> QED
    BY <1>1, <1>3, <1>4, <1>5

\* The least of some positions.
LEMMA LeastPosition ==
    ASSUME NEW B \in SUBSET Nat, B /= {}
    PROVE  Min(B) \in B /\ \A j \in B : Min(B) <= j
BY LeastNumber DEF Min

\* A relevant document that is found has a first rank, and each first rank is of one.
LEMMA FirstRanks ==
    ASSUME NEW S, NEW ranked \in Seq(S), NEW relevant
    PROVE  LET docs == {d \in DOMAIN relevant : d \in Range(Top(ranked))}
               rank(d) == Min({i \in DOMAIN ranked : ranked[i] = d})
               hits == HitRanks(relevant, ranked)
           IN  /\ \A d \in docs : rank(d) \in hits /\ ranked[rank(d)] = d
               /\ \A i \in hits : ranked[i] \in docs /\ rank(ranked[i]) = i
<1> DEFINE docs == {d \in DOMAIN relevant : d \in Range(Top(ranked))}
           places(d) == {i \in DOMAIN ranked : ranked[i] = d}
           hits == HitRanks(relevant, ranked)
<1>1. /\ DOMAIN Top(ranked) = 1..Len(Top(ranked)) /\ Len(Top(ranked)) \in Nat
      /\ \A i \in DOMAIN Top(ranked) : i \in DOMAIN ranked /\ Top(ranked)[i] = ranked[i]
      /\ DOMAIN ranked = 1..Len(ranked) /\ Len(ranked) \in Nat
      /\ Len(Top(ranked)) <= Len(ranked)
    BY TopShape
<1>2. ASSUME NEW d \in docs
      PROVE  Min(places(d)) \in hits /\ ranked[Min(places(d))] = d
    <2>1. PICK j \in DOMAIN Top(ranked) : ranked[j] = d
        BY <1>1 DEF Range
    <2>2. places(d) \in SUBSET Nat /\ j \in places(d)
        BY <1>1, <2>1
    <2>3. Min(places(d)) \in places(d) /\ \A i \in places(d) : Min(places(d)) <= i
        <3> HIDE DEF places
        <3> QED
            BY <2>2, LeastPosition
    <2> DEFINE k == Min(places(d))
    <2> HIDE DEF k
    <2>4. /\ k \in DOMAIN ranked /\ ranked[k] = d /\ k <= j
          /\ \A i \in DOMAIN ranked : ranked[i] = d => k <= i
        BY <2>2, <2>3 DEF k
    <2>5. k \in DOMAIN Top(ranked) /\ \A i \in 1..(k - 1) : ranked[i] # ranked[k]
        BY <1>1, <2>1, <2>4
    <2>6. k \in hits
        BY <2>4, <2>5 DEF HitRanks
    <2> QED
        BY <2>4, <2>6 DEF k
<1>3. ASSUME NEW i \in hits
      PROVE  ranked[i] \in docs /\ Min(places(ranked[i])) = i
    <2>1. /\ i \in DOMAIN Top(ranked) /\ ranked[i] \in DOMAIN relevant
          /\ \A j \in 1..(i - 1) : ranked[j] # ranked[i]
        BY DEF HitRanks
    <2> DEFINE B == places(ranked[i])
    <2>2. B \in SUBSET Nat /\ i \in B /\ \A j \in B : i <= j
        BY <1>1, <2>1
    <2>3. Min(B) = i
        <3> HIDE DEF B
        <3>1. Min(B) \in B /\ \A j \in B : Min(B) <= j
            BY <2>2, LeastPosition
        <3> QED
            BY <2>2, <3>1, Min(B) \in Nat, i \in Nat
    <2>4. ranked[i] \in docs
        BY <1>1, <2>1 DEF Range
    <2> QED
        BY <2>3, <2>4
<1> QED
    BY <1>2, <1>3

LEMMA RanksAreFinite ==
    ASSUME NEW S \in SUBSET (1..Cutoff)
    PROVE  IsFiniteSet(S)
<1>1. IsFiniteSet(1..Cutoff)
    BY FS_Interval, 1 \in Int, ScoringAssumption
<1> QED
    BY <1>1, FS_Subset

\* A precision is at most 1.
LEMMA PrecisionIsBounded ==
    ASSUME NEW i \in 1..Cutoff, NEW n \in 0..i
    PROVE  Precision(n, i) \in 0..Unit
<1> DEFINE q == Unit \div i
           d == i - n
<1>1. q \in Nat /\ q * i = Unit /\ i \in Nat /\ n \in Nat /\ d \in Nat /\ i = n + d
    <2>1. q \in Nat /\ q * i = Unit
        BY ScoringAssumption
    <2>2. i \in Nat
        BY ScoringAssumption
    <2>3. n \in Nat /\ d \in Nat /\ i = n + d
        BY <2>2
    <2> QED
        BY <2>1, <2>2, <2>3
<1> HIDE DEF q, d
<1>2. n * q \in Nat /\ d * q \in Nat /\ q * i = n * q + d * q
    BY <1>1
<1>3. n * q \in 0..Unit
    BY <1>1, <1>2
<1> QED
    BY <1>3 DEF Precision, q

\* Counting documents by their first ranks is counting those ranks.
LEMMA PrecisionOfDocuments ==
    ASSUME NEW S, NEW ranked \in Seq(S), NEW relevant
    PROVE  LET docs == {d \in DOMAIN relevant : d \in Range(Top(ranked))}
               rank(d) == Min({i \in DOMAIN ranked : ranked[i] = d})
           IN  /\ PrecisionSum(relevant, ranked) = SumFunction([d \in docs |->
                      Precision(Cardinality({e \in docs : rank(e) <= rank(d)}), rank(d))])
               /\ PrecisionSum(relevant, ranked) <= Unit * Cardinality(docs)
<1> DEFINE docs == {d \in DOMAIN relevant : d \in Range(Top(ranked))}
           rank(d) == Min({i \in DOMAIN ranked : ranked[i] = d})
           hits == HitRanks(relevant, ranked)
           upTo(i) == {j \in hits : j <= i}
           before(d) == {e \in docs : rank(e) <= rank(d)}
           f == [i \in hits |-> Precision(Cardinality(upTo(i)), i)]
           g == [d \in docs |-> Precision(Cardinality(before(d)), rank(d))]
           h == [i \in hits |-> ranked[i]]
<1>1. /\ \A d \in docs : rank(d) \in hits /\ ranked[rank(d)] = d
      /\ \A i \in hits : ranked[i] \in docs /\ rank(ranked[i]) = i
    BY FirstRanks
<1>2. hits \in SUBSET (1..Cutoff)
    <2>1. /\ Len(Top(ranked)) \in 0..Cutoff /\ DOMAIN Top(ranked) = 1..Len(Top(ranked))
          /\ Cutoff \in Nat
        BY TopShape, ScoringAssumption
    <2> QED
        BY <2>1 DEF HitRanks
<1>3. IsFiniteSet(hits)
    BY <1>2, RanksAreFinite
<1>4. PrecisionSum(relevant, ranked) = SumFunctionOnSet(f, hits)
    BY DEF PrecisionSum, SumFunction
<1>5. SumFunction(g) = SumFunctionOnSet(g, docs)
    BY DEF SumFunction
<1> HIDE DEF docs, rank, hits
<1>6. ASSUME NEW i \in hits
      PROVE  IsFiniteSet(upTo(i)) /\ Cardinality(upTo(i)) \in 0..i
    <2>1. upTo(i) \in SUBSET (1..i) /\ i \in Nat
        <3>1. \A j \in hits : j \in 1..Cutoff /\ Cutoff \in Nat
            BY <1>2, ScoringAssumption
        <3> QED
            BY <3>1
    <2>2. IsFiniteSet(1..i) /\ Cardinality(1..i) = i
        BY <2>1, FS_Interval
    <2>3. IsFiniteSet(upTo(i)) /\ Cardinality(upTo(i)) <= i /\ Cardinality(upTo(i)) \in Nat
        <3> HIDE DEF upTo
        <3> QED
            BY <2>1, <2>2, FS_Subset, FS_CardinalityType
    <2> QED
        BY <2>1, <2>3
<1>7. \A i \in hits : f[i] \in 0..Unit
    BY <1>2, <1>6, PrecisionIsBounded
<1>8. ASSUME NEW i \in hits
      PROVE  Cardinality(before(ranked[i])) = Cardinality(upTo(i))
    <2> DEFINE A == upTo(i)
               B == before(ranked[i])
               k == [j \in A |-> ranked[j]]
    <2>1. \A e : e \in B <=> e \in docs /\ rank(e) <= i
        BY <1>1
    <2>2. \A j \in A : j \in hits /\ j <= i
        OBVIOUS
    <2>3. k \in [A -> B]
        BY <1>1, <2>1, <2>2
    <2>4. \A j, l \in A : k[j] = k[l] => j = l
        BY <1>1, <2>2
    <2>5. \A e \in B : rank(e) \in A /\ k[rank(e)] = e
        BY <1>1, <2>1
    <2>6. IsFiniteSet(A)
        BY <1>6
    <2> HIDE DEF A, B, k
    <2>7. k \in Bijection(A, B)
        BY <2>3, <2>4, <2>5 DEF Bijection, Injection, Surjection, IsInjective
    <2> QED
        BY <2>6, <2>7, FS_Bijection DEF A, B, ExistsBijection
<1>9. \A i \in hits : g[h[i]] = f[i]
    BY <1>1, <1>8
<1>10. \A i, j \in hits : h[i] = h[j] => i = j
    BY <1>1
<1>11. {h[i] : i \in hits} = docs
    BY <1>1
<1>12. Unit \in Nat /\ \A i \in hits : f[i] \in Nat
    BY <1>7, ScoringAssumption
<1>13. Cardinality(docs) = Cardinality(hits)
    <2>1. h \in Bijection(hits, docs)
        BY <1>1, <1>10 DEF Bijection, Injection, Surjection, IsInjective
    <2> HIDE DEF h
    <2> QED
        BY <1>3, <2>1, FS_Bijection DEF ExistsBijection
<1> HIDE DEF f, g, h, before, upTo
<1>14. SumFunctionOnSet(f, hits) = SumFunctionOnSet(g, {h[i] : i \in hits})
    BY <1>3, <1>9, <1>10, <1>12, SumsCorrespond
<1>15. SumFunctionOnSet(f, hits) <= Unit * Cardinality(hits)
    BY <1>3, <1>7, <1>12, SumIsBounded
<1>16. PrecisionSum(relevant, ranked) = SumFunction(g)
    BY <1>4, <1>5, <1>11, <1>14
<1>17. PrecisionSum(relevant, ranked) <= Unit * Cardinality(docs)
    BY <1>4, <1>13, <1>15
<1> QED
    BY <1>16, <1>17 DEF docs, rank, g, before


\* A sum with a member of the set, or with something that is none.
LEMMA SumWithout ==
    ASSUME NEW f, NEW S, IsFiniteSet(S), \A x \in S : f[x] \in Nat, NEW x
    PROVE  SumFunctionOnSet(f, S) =
               (IF x \in S THEN f[x] ELSE 0) + SumFunctionOnSet(f, S \ {x})
<1>1. CASE x \in S
    BY <1>1, SumTakesAny
<1>2. CASE x \notin S
    <2>1. S \ {x} = S
        BY <1>2
    <2>2. SumFunctionOnSet(f, S) \in Nat
        BY SumTakesAny
    <2> QED
        BY <1>2, <2>1, <2>2
<1> QED
    BY <1>1, <1>2

\* What a rank counts for, in a sum of gains.
LEMMA Gains ==
    ASSUME NEW i \in 1..Cutoff
    PROVE  Gain(1, i) = Weights[i] /\ Gain(2, i) = 3 * Weights[i] /\ Weights[i] \in Nat
<1>1. 2^1 = 2 /\ 2^2 = 4
    OBVIOUS
<1>2. Weights[i] \in Nat
    BY ScoringAssumption
<1>3. Gain(1, i) = (2^1 - 1) * Weights[i] /\ Gain(2, i) = (2^2 - 1) * Weights[i]
    BY DEF Gain
<1> QED
    BY <1>1, <1>2, <1>3

\* The gains of the graded ranks, as the ranks of a grade or more count.
LEMMA GainsByGrade ==
    ASSUME NEW S \in SUBSET (1..Cutoff), NEW grade \in [S -> 1..2]
    PROVE  SumFunction([i \in S |-> Gain(grade[i], i)]) =
               SumFunctionOnSet(Weights, S)
               + 2 * SumFunctionOnSet(Weights, {i \in S : grade[i] >= 2})
<1> DEFINE f == [i \in S |-> Gain(grade[i], i)]
           w == Weights
           top(U) == {i \in U : grade[i] >= 2}
           Good == {U \in SUBSET S : SumFunctionOnSet(f, U) =
                        SumFunctionOnSet(w, U) + 2 * SumFunctionOnSet(w, top(U))}
<1>1. IsFiniteSet(S) /\ \A U \in SUBSET S : IsFiniteSet(U) /\ top(U) \in SUBSET S
    BY RanksAreFinite, FS_Subset
<1>2. \A i \in S : w[i] \in Nat
    BY Gains
<1>3. \A i \in S : f[i] = IF i \in top(S) THEN 3 * w[i] ELSE w[i]
    <2> SUFFICES ASSUME NEW i \in S
                 PROVE  f[i] = IF i \in top(S) THEN 3 * w[i] ELSE w[i]
        OBVIOUS
    <2>1. f[i] = Gain(grade[i], i) /\ i \in 1..Cutoff /\ grade[i] \in {1, 2}
        OBVIOUS
    <2>2. (i \in top(S) <=> grade[i] = 2)
        BY <2>1
    <2> HIDE DEF f, top
    <2> QED
        BY <2>1, <2>2, Gains
<1>4. \A i \in S : f[i] \in Nat
    BY <1>2, <1>3
<1>5. ASSUME NEW U \in SUBSET S
      PROVE  SumFunctionOnSet(w, U) \in Nat /\ SumFunctionOnSet(f, U) \in Nat
    <2>1. IsFiniteSet(U) /\ \A i \in U : w[i] \in Nat /\ f[i] \in Nat
        BY <1>1, <1>2, <1>4
    <2> HIDE DEF f, w
    <2> QED
        BY <2>1, SumTakesAny
<1>6. ASSUME NEW U \in SUBSET S,
             \A V \in SUBSET S : Cardinality(V) < Cardinality(U) => V \in Good
      PROVE  U \in Good
    <2>1. CASE U = {}
        <3>1. SumFunctionOnSet(f, {}) = 0 /\ SumFunctionOnSet(w, {}) = 0
            BY FS_EmptySet, SumTakesOne
        <3>2. top(U) = {}
            BY <2>1
        <3> HIDE DEF f, w, top
        <3> QED
            BY <2>1, <3>1, <3>2
    <2>2. CASE U # {}
        <3> DEFINE c == OneOf(U)
                   V == U \ {c}
        <3>1. /\ c \in U /\ c \in S /\ V \in SUBSET S /\ Cardinality(U) \in Nat
              /\ Cardinality(V) = Cardinality(U) - 1
            BY <1>1, <2>2, OneLess
        <3>2. V \in Good
            BY <1>6, <3>1
        <3>3. top(U) \ {c} = top(V) /\ (c \in top(U) <=> c \in top(S))
            BY <3>1
        <3>4. /\ IsFiniteSet(U) /\ (\A i \in U : f[i] \in Nat) /\ (\A i \in U : w[i] \in Nat)
              /\ IsFiniteSet(top(U)) /\ (\A i \in top(U) : w[i] \in Nat)
            BY <1>1, <1>2, <1>4
        <3>5. f[c] = (IF c \in top(S) THEN 3 * w[c] ELSE w[c]) /\ w[c] \in Nat
            BY <1>2, <1>3, <3>1
        <3>6. top(V) \in SUBSET S
            OBVIOUS
        <3>7. SumFunctionOnSet(f, V) = SumFunctionOnSet(w, V) + 2 * SumFunctionOnSet(w, top(V))
            BY <3>2
        <3> HIDE DEF f, w, top, Good, c
        <3>8. /\ SumFunctionOnSet(f, U) = f[c] + SumFunctionOnSet(f, V)
              /\ SumFunctionOnSet(w, U) = w[c] + SumFunctionOnSet(w, V)
            <4> DEFINE A == U
            <4>1. IsFiniteSet(A) /\ c \in A /\ \A i \in A : f[i] \in Nat
                BY <3>1, <3>4
            <4>2. \A i \in A : w[i] \in Nat
                BY <3>4
            <4> HIDE DEF A
            <4>3. SumFunctionOnSet(f, A) = f[c] + SumFunctionOnSet(f, A \ {c})
                BY <4>1, SumTakesAny
            <4>4. SumFunctionOnSet(w, A) = w[c] + SumFunctionOnSet(w, A \ {c})
                BY <4>1, <4>2, SumTakesAny
            <4> QED
                BY <4>3, <4>4 DEF A
        <3>9. SumFunctionOnSet(w, top(U)) =
                 (IF c \in top(U) THEN w[c] ELSE 0) + SumFunctionOnSet(w, top(V))
            <4> DEFINE A == top(U)
            <4>1. IsFiniteSet(A) /\ (\A i \in A : w[i] \in Nat) /\ A \ {c} = top(V)
                BY <3>3, <3>4
            <4> HIDE DEF A
            <4>2. SumFunctionOnSet(w, A) =
                     (IF c \in A THEN w[c] ELSE 0) + SumFunctionOnSet(w, A \ {c})
                BY <4>1, SumWithout
            <4> QED
                BY <4>1, <4>2 DEF A
        <3>10. SumFunctionOnSet(w, V) \in Nat /\ SumFunctionOnSet(w, top(V)) \in Nat
            BY <1>5, <3>1, <3>6
        <3>11. SumFunctionOnSet(f, U) = SumFunctionOnSet(w, U) + 2 * SumFunctionOnSet(w, top(U))
            <4>1. CASE c \in top(S)
                BY <3>3, <3>5, <3>7, <3>8, <3>9, <3>10, <4>1
            <4>2. CASE c \notin top(S)
                BY <3>3, <3>5, <3>7, <3>8, <3>9, <3>10, <4>2
            <4> QED
                BY <4>1, <4>2
        <3> QED
            BY <3>11 DEF Good
    <2> QED
        BY <2>1, <2>2
<1> HIDE DEF Good
<1>7. S \in Good
    BY <1>1, <1>6, BySize
<1>8. SumFunction(f) = SumFunctionOnSet(f, S)
    BY DEF SumFunction
<1> HIDE DEF f, w
<1> QED
    BY <1>7, <1>8 DEF Good, f, w

\* A sum over more is not less.
LEMMA SumOfMore ==
    ASSUME NEW f, NEW S, IsFiniteSet(S), \A x \in S : f[x] \in Nat, NEW U \in SUBSET S
    PROVE  SumFunctionOnSet(f, U) <= SumFunctionOnSet(f, S)
<1> DEFINE Good == {T \in SUBSET S : U \subseteq T =>
                        SumFunctionOnSet(f, U) <= SumFunctionOnSet(f, T)}
<1>1. ASSUME NEW T \in SUBSET S
      PROVE  IsFiniteSet(T) /\ SumFunctionOnSet(f, T) \in Nat
    <2>1. IsFiniteSet(T) /\ \A x \in T : f[x] \in Nat
        BY FS_Subset
    <2> QED
        BY <2>1, SumTakesAny
<1>2. ASSUME NEW T \in SUBSET S,
             \A V \in SUBSET S : Cardinality(V) < Cardinality(T) => V \in Good
      PROVE  T \in Good
    <2>1. CASE ~(U \subseteq T) \/ U = T
        BY <1>1, <2>1
    <2>2. CASE U \subseteq T /\ U # T
        <3>1. PICK x \in T : x \notin U
            BY <2>2
        <3> DEFINE V == T \ {x}
        <3>2. /\ V \in SUBSET S /\ U \subseteq V /\ f[x] \in Nat
              /\ \A y \in T : f[y] \in Nat
            BY <2>2, <3>1
        <3>3. Cardinality(V) < Cardinality(T)
            <4>1. IsFiniteSet(T) /\ Cardinality(T) \in Nat
                BY <1>1, FS_CardinalityType
            <4>2. Cardinality(V) = Cardinality(T) - 1
                BY <3>1, <4>1, FS_RemoveElement
            <4> QED
                BY <4>1, <4>2
        <3>4. SumFunctionOnSet(f, U) <= SumFunctionOnSet(f, V)
            BY <1>2, <3>2, <3>3
        <3>5. SumFunctionOnSet(f, T) = f[x] + SumFunctionOnSet(f, V)
            BY <1>1, <3>1, <3>2, SumTakesAny
        <3>6. SumFunctionOnSet(f, V) \in Nat /\ SumFunctionOnSet(f, U) \in Nat
            BY <1>1, <3>2
        <3> HIDE DEF V
        <3> QED
            BY <3>2, <3>4, <3>5, <3>6
    <2> QED
        BY <2>1, <2>2
<1> HIDE DEF Good
<1>3. S \in Good
    BY <1>2, BySize
<1> QED
    BY <1>3 DEF Good

\* No ranks weigh more than as many ranks from the first one on.
LEMMA FirstOnesWeighMost ==
    ASSUME NEW S \in SUBSET (1..Cutoff)
    PROVE  /\ SumFunctionOnSet(Weights, S) <= SumFunctionOnSet(Weights, 1..Cardinality(S))
           /\ Cardinality(S) \in 0..Cutoff
<1> DEFINE w == Weights
           Good == {T \in SUBSET S :
                      SumFunctionOnSet(w, T) <= SumFunctionOnSet(w, 1..Cardinality(T))}
<1>0. Cutoff \in Nat /\ \A i, j \in 1..Cutoff : w[i] \in Nat /\ (i <= j => w[j] <= w[i])
    BY ScoringAssumption
<1>1. ASSUME NEW T \in SUBSET (1..Cutoff)
      PROVE  IsFiniteSet(T) /\ Cardinality(T) \in 0..Cutoff /\ SumFunctionOnSet(w, T) \in Nat
    <2>1. IsFiniteSet(1..Cutoff) /\ Cardinality(1..Cutoff) = Cutoff
        BY <1>0, FS_Interval, 1 \in Int
    <2>2. IsFiniteSet(T) /\ Cardinality(T) <= Cutoff /\ Cardinality(T) \in Nat
        BY <2>1, FS_Subset, FS_CardinalityType
    <2>3. \A i \in T : w[i] \in Nat
        BY <1>0
    <2> HIDE DEF w
    <2>4. SumFunctionOnSet(w, T) \in Nat
        BY <2>2, <2>3, SumTakesAny
    <2> QED
        BY <1>0, <2>2, <2>4
<1>2. ASSUME NEW T \in SUBSET S,
             \A U \in SUBSET S : Cardinality(U) < Cardinality(T) => U \in Good
      PROVE  T \in Good
    <2> DEFINE n == Cardinality(T)
    <2>1. n \in 0..Cutoff /\ T \in SUBSET (1..Cutoff) /\ IsFiniteSet(T)
        BY <1>1
    <2>2. CASE T = {}
        <3>1. n = 0 /\ 1..0 = {}
            BY <2>2, FS_EmptySet
        <3>2. SumFunctionOnSet(w, {}) <= SumFunctionOnSet(w, {})
            BY <1>1
        <3> QED
            BY <2>2, <3>1, <3>2
    <2>3. CASE T # {}
        <3>1. n # 0
            BY <2>1, <2>3, FS_EmptySet
        <3>2. PICK c \in T : c >= n
            <4>1. SUFFICES ASSUME \A c \in T : c <= n - 1
                           PROVE  FALSE
                BY <1>0, <2>1
            <4>2. T \in SUBSET (1..(n - 1))
                BY <1>0, <2>1, <3>1, <4>1
            <4>3. IsFiniteSet(1..(n - 1)) /\ Cardinality(1..(n - 1)) = n - 1
                <5> DEFINE k == n - 1
                <5>1. k \in Nat
                    BY <2>1, <3>1
                <5> HIDE DEF k
                <5>2. IsFiniteSet(1..k) /\ Cardinality(1..k) = k
                    BY <5>1, FS_Interval, 1 \in Int
                <5> QED
                    BY <5>2 DEF k
            <4>4. n <= n - 1
                <5> HIDE DEF n
                <5>1. Cardinality(T) <= Cardinality(1..(n - 1))
                    BY <4>2, <4>3, FS_Subset
                <5> QED
                    BY <4>3, <5>1 DEF n
            <4> QED
                BY <2>1, <4>4
        <3> DEFINE U == T \ {c}
                   k == n - 1
        <3>3. /\ c \in 1..Cutoff /\ n \in 1..Cutoff /\ U \in SUBSET S
              /\ Cardinality(U) = k /\ k \in Nat
            <4>1. Cardinality(U) = k
                BY <2>1, FS_RemoveElement
            <4>2. c \in 1..Cutoff /\ U \in SUBSET S
                BY <2>1
            <4>3. n \in 1..Cutoff /\ k \in Nat
                <5> HIDE DEF n
                <5> QED
                    BY <1>0, <2>1, <3>1
            <4> QED
                BY <4>1, <4>2, <4>3
        <3>4. U \in Good
            BY <1>2, <3>3
        <3>5. SumFunctionOnSet(w, T) = w[c] + SumFunctionOnSet(w, U)
            <4> DEFINE A == T
                       x == c
            <4>1. IsFiniteSet(A) /\ x \in A /\ \A i \in A : w[i] \in Nat
                BY <1>0, <2>1
            <4> HIDE DEF w, A, x
            <4>2. SumFunctionOnSet(w, A) = w[x] + SumFunctionOnSet(w, A \ {x})
                BY <4>1, SumTakesAny
            <4> QED
                BY <4>2 DEF A, x
        <3>6. SumFunctionOnSet(w, 1..n) = w[n] + SumFunctionOnSet(w, 1..k)
            <4>1. /\ (1..n) \ {n} = 1..k /\ n \in 1..n /\ 1..n \in SUBSET (1..Cutoff)
                  /\ \A i \in 1..n : w[i] \in Nat
                BY <1>0, <3>3
            <4>2. IsFiniteSet(1..n)
                BY <1>1, <4>1
            <4> DEFINE I == 1..n
            <4>3. I \ {n} = 1..k /\ n \in I /\ IsFiniteSet(I) /\ (\A i \in I : w[i] \in Nat)
                BY <4>1, <4>2
            <4> HIDE DEF w, n, k, I
            <4>4. SumFunctionOnSet(w, I) = w[n] + SumFunctionOnSet(w, I \ {n})
                BY <4>3, SumTakesAny
            <4> QED
                BY <4>3, <4>4 DEF I
        <3>7. SumFunctionOnSet(w, U) <= SumFunctionOnSet(w, 1..k)
            BY <3>3, <3>4
        <3>8. w[c] <= w[n] /\ w[c] \in Nat /\ w[n] \in Nat
            BY <1>0, <3>2, <3>3
        <3>9. SumFunctionOnSet(w, U) \in Nat /\ SumFunctionOnSet(w, 1..k) \in Nat
            <4>1. U \in SUBSET (1..Cutoff) /\ 1..k \in SUBSET (1..Cutoff)
                BY <1>0, <2>1, <3>3
            <4> QED
                BY <1>1, <4>1
        <3>10. SumFunctionOnSet(w, T) <= SumFunctionOnSet(w, 1..n)
            <4> HIDE DEF w, n, k, U
            <4> QED
                BY <3>5, <3>6, <3>7, <3>8, <3>9
        <3> QED
            BY <3>10
    <2> QED
        BY <2>2, <2>3
<1>3. IsFiniteSet(S)
    BY <1>1
<1> HIDE DEF Good
<1>4. S \in Good
    BY <1>2, <1>3, BySize
<1> QED
    BY <1>1, <1>4 DEF Good

LEMMA FirstRanksWeighMost ==
    ASSUME NEW S \in SUBSET (1..Cutoff), NEW m \in Nat, Cardinality(S) <= m
    PROVE  SumFunctionOnSet(Weights, S)
              <= SumFunctionOnSet(Weights, {i \in 1..Cutoff : i <= m})
<1> DEFINE T == {i \in 1..Cutoff : i <= m}
           U == 1..Cardinality(S)
           w == Weights
<1>1. /\ SumFunctionOnSet(w, S) <= SumFunctionOnSet(w, U)
      /\ Cardinality(S) \in 0..Cutoff /\ Cutoff \in Nat
    BY FirstOnesWeighMost, ScoringAssumption
<1>2. U \in SUBSET T /\ T \in SUBSET (1..Cutoff)
    BY <1>1
<1>3. IsFiniteSet(T) /\ IsFiniteSet(S) /\ IsFiniteSet(U)
    BY <1>2, RanksAreFinite
<1>4. \A i \in 1..Cutoff : w[i] \in Nat
    BY ScoringAssumption
<1>5. (\A i \in T : w[i] \in Nat) /\ (\A i \in S : w[i] \in Nat) /\ (\A i \in U : w[i] \in Nat)
    BY <1>2, <1>4
<1> HIDE DEF T, U, w
<1>6. SumFunctionOnSet(w, U) <= SumFunctionOnSet(w, T)
    BY <1>2, <1>3, <1>5, SumOfMore
<1>7. /\ SumFunctionOnSet(w, U) \in Nat /\ SumFunctionOnSet(w, T) \in Nat
      /\ SumFunctionOnSet(w, S) \in Nat
    BY <1>3, <1>5, SumTakesAny
<1>8. SumFunctionOnSet(w, S) <= SumFunctionOnSet(w, T)
    BY <1>1, <1>6, <1>7
<1> QED
    BY <1>8 DEF T, w

\* The documents of a grade or more.
Graded(relevant, g) == {d \in DOMAIN relevant : relevant[d] >= g}

LEMMA GradedCounts ==
    ASSUME NEW found \in SUBSET Docs, NEW relevant \in [found -> 1..2]
    PROVE  /\ \A g : IsFiniteSet(Graded(relevant, g)) /\ Cardinality(Graded(relevant, g)) \in Nat
           /\ Graded(relevant, 1) = DOMAIN relevant
           /\ Cardinality(Graded(relevant, 2)) <= Cardinality(DOMAIN relevant)
           /\ Cardinality(Graded(relevant, 3)) = 0
<1>1. IsFiniteSet(found)
    BY ScoringAssumption, FS_Subset
<1>2. \A g : Graded(relevant, g) \in SUBSET found
    BY DEF Graded
<1>3. \A g : IsFiniteSet(Graded(relevant, g)) /\ Cardinality(Graded(relevant, g)) \in Nat
             /\ Cardinality(Graded(relevant, g)) <= Cardinality(found)
    BY <1>1, <1>2, FS_Subset, FS_CardinalityType
<1>4. Graded(relevant, 1) = DOMAIN relevant /\ Graded(relevant, 3) = {}
    BY DEF Graded
<1> QED
    BY <1>3, <1>4, FS_EmptySet

\* The n-th grade of the sorted ones is 2 for as many as there are of that grade.
LEMMA SortedGrades ==
    ASSUME NEW found \in SUBSET Docs, NEW relevant \in [found -> 1..2],
           NEW n \in Nat \ {0}, n <= Cardinality(DOMAIN relevant)
    PROVE  SortedGrade(relevant, n) =
               IF n <= Cardinality(Graded(relevant, 2)) THEN 2 ELSE 1
<1> DEFINE two == Cardinality(Graded(relevant, 2))
           all == Cardinality(DOMAIN relevant)
           fits(g) == /\ Cardinality({d \in DOMAIN relevant : relevant[d] > g}) < n
                      /\ Cardinality({d \in DOMAIN relevant : relevant[d] >= g}) >= n
           right == IF n <= two THEN 2 ELSE 1
<1>1. /\ {d \in DOMAIN relevant : relevant[d] > 1} = Graded(relevant, 2)
      /\ {d \in DOMAIN relevant : relevant[d] >= 1} = Graded(relevant, 1)
      /\ {d \in DOMAIN relevant : relevant[d] > 2} = Graded(relevant, 3)
      /\ {d \in DOMAIN relevant : relevant[d] >= 2} = Graded(relevant, 2)
    BY DEF Graded
<1>2. two \in Nat /\ all \in Nat /\ two <= all /\ n <= all
    BY GradedCounts
<1>3. (fits(1) <=> two < n /\ n <= all) /\ (fits(2) <=> n <= two)
    <2>1. /\ Graded(relevant, 1) = DOMAIN relevant
          /\ Cardinality(Graded(relevant, 3)) = 0
        BY GradedCounts
    <2>2. n > 0
        OBVIOUS
    <2>3. fits(1) <=> two < n /\ all >= n
        BY <1>1, <2>1
    <2>4. fits(2) <=> 0 < n /\ two >= n
        BY <1>1, <2>1
    <2> HIDE DEF fits
    <2> QED
        BY <1>2, <2>2, <2>3, <2>4
<1>4. Range(relevant) \subseteq {1, 2}
    BY DEF Range
<1>5. right \in Range(relevant)
    <2>1. CASE n <= two
        <3>1. PICK d \in DOMAIN relevant : relevant[d] >= 2
            <4>1. Graded(relevant, 2) /= {}
                BY <1>2, <2>1, FS_EmptySet
            <4> QED
                BY <4>1 DEF Graded
        <3>2. relevant[d] = 2
            BY <3>1
        <3> QED
            BY <2>1, <3>2 DEF Range
    <2>2. CASE ~(n <= two)
        <3>1. Graded(relevant, 2) /= DOMAIN relevant
            BY <1>2, <2>2
        <3>2. PICK d \in DOMAIN relevant : ~(relevant[d] >= 2)
            BY <3>1 DEF Graded
        <3>3. relevant[d] = 1
            BY <3>2
        <3> QED
            BY <2>2, <3>3 DEF Range
    <2> QED
        BY <2>1, <2>2
<1>6. \A g \in Range(relevant) : fits(g) <=> g = right
    <2> HIDE DEF fits
    <2>1. (fits(1) <=> right = 1) /\ (fits(2) <=> right = 2)
        BY <1>2, <1>3
    <2> HIDE DEF right
    <2> QED
        BY <1>4, <2>1
<1>7. SortedGrade(relevant, n) = CHOOSE g \in Range(relevant) : fits(g)
    BY DEF SortedGrade
<1> HIDE DEF fits, right
<1>8. (CHOOSE g \in Range(relevant) : fits(g)) = right
    BY <1>5, <1>6
<1> QED
    BY <1>7, <1>8 DEF right

\* Where no document is returned twice, no order gains more than the sorted grades.
LEMMA IdealIsBest ==
    ASSUME NEW found \in SUBSET Docs, NEW relevant \in [found -> 1..2],
           NEW S, NEW ranked \in Seq(S), IsInjective(ranked)
    PROVE  Dcg(relevant, ranked) <= IdealDcg(relevant)
<1> DEFINE w == Weights
           D == {j \in DOMAIN Top(ranked) : ranked[j] \in DOMAIN relevant}
           grade == [i \in D |-> relevant[ranked[i]]]
           D2 == {i \in D : grade[i] >= 2}
           I == {n \in 1..Cutoff : n <= Cardinality(DOMAIN relevant)}
           best == [i \in I |-> SortedGrade(relevant, i)]
           I2 == {i \in I : best[i] >= 2}
           two == Cardinality(Graded(relevant, 2))
           all == Cardinality(DOMAIN relevant)
<1>1. /\ two \in Nat /\ all \in Nat /\ two <= all /\ Cutoff \in Nat \ {0}
    BY GradedCounts, ScoringAssumption
<1>2. /\ D \in SUBSET (1..Cutoff)
      /\ \A i \in D : i \in DOMAIN ranked
    BY <1>1, TopShape
<1>3. I \in SUBSET (1..Cutoff)
    BY <1>1
<1>4. grade \in [D -> 1..2] /\ D2 \in SUBSET (1..Cutoff)
    BY <1>2
<1>5. /\ best \in [I -> 1..2]
      /\ I2 = {i \in 1..Cutoff : i <= two}
    <2>1. \A i \in I : best[i] = IF i <= two THEN 2 ELSE 1
        BY <1>3, SortedGrades
    <2>2. \A i \in 1..Cutoff : i <= two => i \in I
        BY <1>1
    <2> QED
        BY <2>1, <2>2
<1>6. Cardinality(D) <= all /\ Cardinality(D2) <= two
    <2>1. ASSUME NEW K \in SUBSET D, NEW g \in {1, 2}, \A i \in K : grade[i] >= g
          PROVE  Cardinality(K) <= Cardinality(Graded(relevant, g))
        <3> DEFINE h == [i \in K |-> ranked[i]]
                   G == Graded(relevant, g)
        <3>1. h \in [K -> G]
            BY <2>1 DEF Graded
        <3>2. \A i, j \in K : h[i] = h[j] => i = j
            BY <1>2 DEF IsInjective
        <3>3. h \in Injection(K, G)
            <4> HIDE DEF h, G
            <4> QED
                BY <3>1, <3>2 DEF Injection, IsInjective
        <3>4. IsFiniteSet(G)
            BY GradedCounts
        <3> HIDE DEF h, G
        <3> QED
            BY <3>3, <3>4, FS_Injection DEF G
    <2>2. Cardinality(D) <= Cardinality(Graded(relevant, 1))
        BY <1>4, <2>1
    <2>3. Cardinality(D2) <= Cardinality(Graded(relevant, 2))
        BY <2>1
    <2> QED
        BY <2>2, <2>3, GradedCounts
<1>7. Dcg(relevant, ranked) = SumFunction([i \in D |-> Gain(grade[i], i)])
    <2>1. [i \in D |-> Gain(grade[i], i)] = [i \in D |-> Gain(relevant[ranked[i]], i)]
        OBVIOUS
    <2> QED
        BY <2>1 DEF Dcg
<1>8. IdealDcg(relevant) = SumFunction([i \in I |-> Gain(best[i], i)])
    <2>1. [i \in I |-> Gain(best[i], i)] = [i \in I |-> Gain(SortedGrade(relevant, i), i)]
        OBVIOUS
    <2> QED
        BY <2>1 DEF IdealDcg
<1>9. \A K \in SUBSET (1..Cutoff) : SumFunctionOnSet(w, K) \in Nat
    <2> SUFFICES ASSUME NEW K \in SUBSET (1..Cutoff) PROVE SumFunctionOnSet(w, K) \in Nat
        OBVIOUS
    <2>1. \A i \in K : w[i] \in Nat
        BY Gains
    <2> HIDE DEF w
    <2> QED
        BY <2>1, RanksAreFinite, SumTakesAny
<1>10. I = {i \in 1..Cutoff : i <= all} /\ I2 \in SUBSET (1..Cutoff)
    BY <1>1, <1>5
<1> HIDE DEF D, grade, I, best, two, all
<1>11. /\ SumFunction([i \in D |-> Gain(grade[i], i)]) =
            SumFunctionOnSet(w, D) + 2 * SumFunctionOnSet(w, D2)
       /\ SumFunction([i \in I |-> Gain(best[i], i)]) =
            SumFunctionOnSet(w, I) + 2 * SumFunctionOnSet(w, I2)
    BY <1>2, <1>3, <1>4, <1>5, GainsByGrade
<1> HIDE DEF D2, I2
<1>12. /\ SumFunctionOnSet(w, D) <= SumFunctionOnSet(w, I)
       /\ SumFunctionOnSet(w, D2) <= SumFunctionOnSet(w, I2)
    BY <1>1, <1>2, <1>4, <1>5, <1>6, <1>10, FirstRanksWeighMost
<1> DEFINE sum(K) == SumFunctionOnSet(w, K)
<1>13. sum(D) \in Nat /\ sum(D2) \in Nat /\ sum(I) \in Nat /\ sum(I2) \in Nat
    BY <1>2, <1>3, <1>4, <1>9, <1>10
<1>14. sum(D) + 2 * sum(D2) <= sum(I) + 2 * sum(I2)
    <2>1. sum(D) <= sum(I) /\ sum(D2) <= sum(I2)
        BY <1>12
    <2> HIDE DEF sum
    <2> QED
        BY <1>13, <2>1
<1> QED
    BY <1>7, <1>8, <1>11, <1>14


\* A query is measured when each result is marked, and is ranked as it was answered.
LEMMA AllMarked ==
    ASSUME NEW n \in Nat, NEW answers \in [1..n -> Docs \union {Unmarked}],
           Len(DocIds(answers)) = Len(answers)
    PROVE  DocIds(answers) \in Seq(Docs)
<1> DEFINE marked == {i \in DOMAIN answers : answers[i] # Unmarked}
           nth(i) == Cardinality({j \in marked : j <= i})
           m == Cardinality(marked)
<1>1. marked \in SUBSET (1..n)
    OBVIOUS
<1>2. IsFiniteSet(1..n) /\ Cardinality(1..n) = n
    BY FS_Interval, n \in Int, 1 \in Int
<1>3. m \in Nat
    BY <1>1, <1>2, FS_Subset, FS_CardinalityType
<1>4. DocIds(answers) = [k \in 1..m |-> answers[CHOOSE i \in marked : nth(i) = k]]
    BY DEF DocIds
<1>5. m = n
    <2> DEFINE g == [k \in 1..m |-> answers[CHOOSE i \in marked : nth(i) = k]]
    <2> HIDE DEF m
    <2>1. DocIds(answers) = g
        BY <1>4
    <2>2. Len(g) = m
        BY <1>3
    <2>3. Len(answers) = n
        OBVIOUS
    <2> HIDE DEF g
    <2> QED
        BY <2>1, <2>2, <2>3
<1>6. marked = 1..n
    <2> HIDE DEF marked
    <2>1. marked \in SUBSET (1..n) /\ Cardinality(marked) = Cardinality(1..n)
        BY <1>1, <1>2, <1>5
    <2> QED
        BY <1>2, <2>1, FS_Subset
<1>7. ASSUME NEW k \in 1..n
      PROVE  nth(k) = k
    <2>1. {j \in marked : j <= k} = 1..k
        BY <1>6
    <2>2. Cardinality(1..k) = k
        BY FS_Interval, k \in Int, 1 \in Int
    <2> QED
        BY <2>1, <2>2
<1>8. \A k \in 1..n : answers[k] \in Docs
    BY <1>6
<1> HIDE DEF nth, marked, m
<1>9. ASSUME NEW k \in 1..n
      PROVE  DocIds(answers)[k] \in Docs
    <2> DEFINE i == CHOOSE j \in marked : nth(j) = k
    <2>1. i \in 1..n
        BY <1>6, <1>7
    <2>2. DocIds(answers)[k] = answers[i]
        BY <1>3, <1>4, <1>5
    <2> QED
        BY <1>8, <2>1, <2>2
<1>10. \E e : DocIds(answers) = [k \in 1..n |-> e[k]]
    <2> DEFINE e == [k \in 1..m |-> answers[CHOOSE i \in marked : nth(i) = k]]
    <2>1. DocIds(answers) = [k \in 1..n |-> e[k]]
        BY <1>4, <1>5
    <2> QED
        BY <2>1
<1>11. PICK e : DocIds(answers) = [k \in 1..n |-> e[k]]
    BY <1>10
<1>12. \A k \in 1..n : e[k] \in Docs
    BY <1>9, <1>11
<1> QED
    BY <1>11, <1>12

LEMMA QueryOfScore ==
    ASSUME NEW found \in SUBSET Docs, NEW relevant \in [found -> 1..2], NEW ranked \in Seq(Docs)
    PROVE  LET s == ScoreOf(relevant, ranked)
               docs == {d \in DOMAIN relevant : d \in Range(Top(ranked))}
               rank(d) == Min({i \in DOMAIN ranked : ranked[i] = d})
           IN  /\ s.precision = SumFunction([d \in docs |->
                      Precision(Cardinality({e \in docs : rank(e) <= rank(d)}), rank(d))])
               /\ s.precision <= Unit * Cardinality(docs)
               /\ s.recall[Cutoff] = docs
               /\ IsInjective(ranked) => s.dcg <= s.ideal
<1> DEFINE s == ScoreOf(relevant, ranked)
           docs == {d \in DOMAIN relevant : d \in Range(Top(ranked))}
           rank(d) == Min({i \in DOMAIN ranked : ranked[i] = d})
           sum == SumFunction([d \in docs |->
                      Precision(Cardinality({e \in docs : rank(e) <= rank(d)}), rank(d))])
<1>1. /\ s.precision = PrecisionSum(relevant, ranked)
      /\ s.dcg = Dcg(relevant, ranked) /\ s.ideal = IdealDcg(relevant)
      /\ s.recall = [k \in 1..Cutoff |-> Range(First(Top(ranked), k)) \intersect DOMAIN relevant]
    BY DEF ScoreOf
<1>2. PrecisionSum(relevant, ranked) = sum /\ PrecisionSum(relevant, ranked) <= Unit * Cardinality(docs)
    BY PrecisionOfDocuments
<1>3. s.recall[Cutoff] = docs
    <2>1. Cutoff \in 1..Cutoff /\ First(Top(ranked), Cutoff) = Top(ranked)
        BY ScoringAssumption, TopShape
    <2> HIDE DEF s
    <2>2. s.recall[Cutoff] = Range(Top(ranked)) \intersect DOMAIN relevant
        BY <1>1, <2>1
    <2> QED
        BY <2>2
<1>4. IsInjective(ranked) => s.dcg <= s.ideal
    BY <1>1, IdealIsBest
<1>5. s.precision = sum /\ s.precision <= Unit * Cardinality(docs)
    <2> HIDE DEF s, sum, docs
    <2> QED
        BY <1>1, <1>2
<1> HIDE DEF s, sum
<1>6. /\ s.precision = sum
      /\ s.precision <= Unit * Cardinality(docs)
      /\ s.recall[Cutoff] = docs
      /\ IsInjective(ranked) => s.dcg <= s.ideal
    BY <1>3, <1>4, <1>5
<1> QED
    BY <1>6 DEF s, sum

-----------------------------------------------------------------------------
(* The scores of every input. *)

\* What has been scored is a score of something.
ScoringInv ==
    \/ scored = Unscored
    \/ /\ scored.lane = "ranking"
       /\ scored.orders \in [RankedProbes -> Orders]
       /\ scored.score \subseteq {RankingScore(scored.orders)}
    \/ /\ scored.lane = "query"
       /\ scored.status = "measured" => \E found \in SUBSET Docs :
             /\ scored.relevant \in [found -> 1..2] /\ scored.ranked \in Seq(Docs)
             /\ scored.score = ScoreOf(scored.relevant, scored.ranked)
    \/ /\ scored.lane = "adapter" /\ scored.fixture \in Fixtures
       /\ scored.status = "passed" => Credited(scored.fixture, scored.ablated, scored.enabled)

LEMMA ScoringInvInductive ==
    /\ ScoringInit => ScoringInv
    /\ ScoringInv /\ [ScoringNext]_scoringVars => ScoringInv'
<1>1. ScoringInit => ScoringInv
    BY DEF ScoringInit, ScoringInv
<1>2. ASSUME ScoringInv, [ScoringNext]_scoringVars
      PROVE  ScoringInv'
    <2>1. ASSUME NEW copies \in 1..2, NEW leaks \in BOOLEAN, ScoreRanking(copies, leaks)
          PROVE  ScoringInv'
        <3>1. PICK orders \in [RankedProbes -> Orders] :
                scored' = [lane |-> "ranking", orders |-> orders,
                           score |-> IF Contract(copies, leaks) = "identifiable"
                                     THEN {RankingScore(orders)} ELSE {}]
            BY <2>1 DEF ScoreRanking
        <3>2. /\ scored'.lane = "ranking" /\ scored'.orders = orders
              /\ scored'.score \subseteq {RankingScore(orders)}
            BY <3>1
        <3> QED
            BY <3>2 DEF ScoringInv
    <2>2. ASSUME ScoreQuery PROVE ScoringInv'
        <3>1. PICK found \in SUBSET Docs, n \in 0..(Cutoff + 1) :
                \E relevant \in [found -> 1..2], answers \in [1..n -> Docs \union {Unmarked}] :
                    scored' = [lane |-> "query", relevant |-> relevant, ranked |-> DocIds(answers),
                               status |-> IF Len(DocIds(answers)) = Len(answers)
                                          THEN "measured" ELSE "failed",
                               score |-> IF Len(DocIds(answers)) = Len(answers)
                                         THEN ScoreOf(relevant, DocIds(answers)) ELSE ZeroScore]
            BY <2>2 DEF ScoreQuery
        <3>2. PICK relevant \in [found -> 1..2], answers \in [1..n -> Docs \union {Unmarked}] :
                scored' = [lane |-> "query", relevant |-> relevant, ranked |-> DocIds(answers),
                           status |-> IF Len(DocIds(answers)) = Len(answers)
                                      THEN "measured" ELSE "failed",
                           score |-> IF Len(DocIds(answers)) = Len(answers)
                                     THEN ScoreOf(relevant, DocIds(answers)) ELSE ZeroScore]
            BY <3>1
        <3>3. n \in Nat
            BY <3>1, ScoringAssumption
        <3>4. Len(DocIds(answers)) = Len(answers) => DocIds(answers) \in Seq(Docs)
            BY <3>3, AllMarked
        <3>5. /\ scored'.lane = "query" /\ scored'.relevant \in [found -> 1..2]
              /\ scored'.status = "measured" =>
                    /\ scored'.ranked \in Seq(Docs)
                    /\ scored'.score = ScoreOf(scored'.relevant, scored'.ranked)
            BY <3>2, <3>4
        <3> QED
            BY <3>5 DEF ScoringInv
    <2>3. ASSUME NEW usable \in BOOLEAN, ScoreAdapter(usable)
          PROVE  ScoringInv'
        <3>1. PICK fixture \in Fixtures, ablated \in Outputs, enabled \in Outputs :
                scored' = [lane |-> "adapter", fixture |-> fixture,
                           ablated |-> ablated, enabled |-> enabled,
                           status |-> IF ~usable THEN "not_tested"
                                      ELSE IF /\ HeldOut(fixture) # {}
                                              /\ Credited(fixture, ablated, enabled)
                                           THEN "passed" ELSE "failed"]
            BY <2>3 DEF ScoreAdapter
        <3>2. /\ scored'.lane = "adapter" /\ scored'.fixture = fixture
              /\ scored'.ablated = ablated /\ scored'.enabled = enabled
              /\ scored'.status = "passed" => Credited(fixture, ablated, enabled)
            BY <3>1
        <3> QED
            BY <3>2 DEF ScoringInv
    <2>4. CASE UNCHANGED scoringVars
        BY <1>2, <2>4 DEF scoringVars, ScoringInv
    <2> QED
        BY <1>2, <2>1, <2>2, <2>3, <2>4 DEF ScoringNext
<1> QED
    BY <1>1, <1>2

LEMMA RankingOfOrders ==
    ASSUME NEW orders \in [RankedProbes -> Orders], NEW p \in RankedProbes
    PROVE  LET s == RankingScore(orders)
               first(n) == Prefix(orders[p], n)
           IN  /\ \A k \in {1, 3, 5} : p \in s.recall[k] <=> "current" \in first(k)
               /\ p \in s.ordered <=> \E n \in 1..Cardinality(Candidates) :
                      "current" \in first(n) /\ "stale" \notin first(n)
               /\ p \in s.safe <=>
                    \E n \in 1..3 : first(n) \intersect {"current", "stale", "conflict"} = {"current"}
<1> DEFINE order == orders[p]
           s == RankingScore(orders)
           c == Position(order, "current")
           t == Position(order, "stale")
           f == Position(order, "conflict")
           first(n) == Prefix(order, n)
           N == Cardinality(Candidates)
           L == Len(order)
<1>1. order \in Orders
    OBVIOUS
<1>2. L \in Nat /\ N \in Nat /\ L <= N
    BY <1>1, OrderShape
<1>3. /\ c \in 0..L /\ t \in 0..L /\ f \in 0..L
      /\ \A n \in Nat : /\ "current" \in first(n) <=> c /= 0 /\ c <= n
                        /\ "stale" \in first(n) <=> t /= 0 /\ t <= n
                        /\ "conflict" \in first(n) <=> f /= 0 /\ f <= n
    BY <1>1, SeenByThen
<1>4. /\ \A k \in {1, 3, 5} : p \in s.recall[k] <=> c \in 1..k
      /\ p \in s.ordered <=> Before(c, t)
      /\ p \in s.safe <=> c \in 1..3 /\ Before(c, t) /\ Before(c, f)
    BY DEF RankingScore, CurrentAt, Safe
<1> HIDE DEF c, t, f, first, N, L, s, order
<1>5. \A k \in {1, 3, 5} : p \in s.recall[k] <=> "current" \in first(k)
    BY <1>2, <1>3, <1>4
<1>6. p \in s.ordered <=> \E n \in 1..N : "current" \in first(n) /\ "stale" \notin first(n)
    <2>1. ASSUME Before(c, t)
          PROVE  c \in 1..N /\ "current" \in first(c) /\ "stale" \notin first(c)
        BY <1>2, <1>3, <2>1 DEF Before
    <2>2. ASSUME NEW n \in 1..N, "current" \in first(n), "stale" \notin first(n)
          PROVE  Before(c, t)
        BY <1>2, <1>3, <2>2 DEF Before
    <2> QED
        BY <1>4, <2>1, <2>2
<1>7. p \in s.safe <=>
        \E n \in 1..3 : first(n) \intersect {"current", "stale", "conflict"} = {"current"}
    <2>1. ASSUME c \in 1..3, Before(c, t), Before(c, f)
          PROVE  first(c) \intersect {"current", "stale", "conflict"} = {"current"}
        <3>1. "current" \in first(c) /\ "stale" \notin first(c) /\ "conflict" \notin first(c)
            BY <1>2, <1>3, <2>1 DEF Before
        <3> QED
            BY <3>1
    <2>2. ASSUME NEW n \in 1..3, first(n) \intersect {"current", "stale", "conflict"} = {"current"}
          PROVE  c \in 1..3 /\ Before(c, t) /\ Before(c, f)
        <3>1. "current" \in first(n) /\ "stale" \notin first(n) /\ "conflict" \notin first(n)
            BY <2>2
        <3> QED
            BY <1>2, <1>3, <3>1 DEF Before
    <2> QED
        BY <1>4, <2>1, <2>2
<1> QED
    BY <1>5, <1>6, <1>7 DEF first, N, s, order

\* One input is scored, in one of the lanes.
THEOREM ScoringTypeCorrect == ScoringSpec => []ScoringTypeOK
<1>1. ScoringInv => ScoringTypeOK
    BY DEF ScoringInv, ScoringTypeOK, Unscored
<1> QED
    BY <1>1, ScoringInvInductive, PTL DEF ScoringSpec

\* For any candidates, probes, documents, cutoff, fixtures and outputs: only the order of the
\* candidates is scored, as a reader of its prefixes would; a query's average precision
\* is that of its documents' first ranks, one at most for each, and no order of different
\* documents gains more than the sorted grades; and a stage gets no credit but for a
\* held-out case that it solves and its ablation does not.
THEOREM EveryScoreIsRight == ScoringSpec => []ScoresAreRight
<1>2. ScoringInv => RankingsAreRight
    <2> SUFFICES ASSUME ScoringInv, scored.lane = "ranking",
                        NEW s \in scored.score, NEW p \in RankedProbes
                 PROVE  LET first(n) == Prefix(scored.orders[p], n) IN
                        /\ \A k \in {1, 3, 5} : p \in s.recall[k] <=> "current" \in first(k)
                        /\ p \in s.ordered <=> \E n \in 1..Cardinality(Candidates) :
                               "current" \in first(n) /\ "stale" \notin first(n)
                        /\ p \in s.safe <=>
                             \E n \in 1..3 : first(n) \intersect {"current", "stale", "conflict"} = {"current"}
        BY DEF RankingsAreRight
    <2>1. scored.orders \in [RankedProbes -> Orders] /\ s = RankingScore(scored.orders)
        BY DEF ScoringInv, Unscored
    <2> QED
        BY <2>1, RankingOfOrders
<1>3. ScoringInv => QueriesAreRight
    <2> SUFFICES ASSUME ScoringInv, scored.lane = "query", scored.status = "measured"
                 PROVE  QueriesAreRight
        BY DEF QueriesAreRight
    <2>1. scored /= Unscored /\ scored.lane /= "ranking" /\ scored.lane /= "adapter"
        BY DEF Unscored
    <2>2. \E found \in SUBSET Docs :
             /\ scored.relevant \in [found -> 1..2] /\ scored.ranked \in Seq(Docs)
             /\ scored.score = ScoreOf(scored.relevant, scored.ranked)
        BY <2>1, Zenon DEF ScoringInv
    <2> DEFINE relevant == scored.relevant
               ranked == scored.ranked
               docs == {d \in DOMAIN relevant : d \in Range(Top(ranked))}
               rank(d) == Min({i \in DOMAIN ranked : ranked[i] = d})
    <2>3. PICK found \in SUBSET Docs :
             /\ relevant \in [found -> 1..2] /\ ranked \in Seq(Docs)
             /\ scored.score = ScoreOf(relevant, ranked)
        BY <2>2
    <2> HIDE DEF relevant, ranked
    <2>4. /\ ScoreOf(relevant, ranked).precision = SumFunction([d \in docs |->
                 Precision(Cardinality({e \in docs : rank(e) <= rank(d)}), rank(d))])
          /\ ScoreOf(relevant, ranked).precision <= Unit * Cardinality(docs)
          /\ ScoreOf(relevant, ranked).recall[Cutoff] = docs
          /\ IsInjective(ranked) => ScoreOf(relevant, ranked).dcg <= ScoreOf(relevant, ranked).ideal
        BY <2>3, QueryOfScore
    <2> QED
        BY <2>3, <2>4 DEF QueriesAreRight, relevant, ranked
<1>4. ScoringInv => CreditIsEarned
    <2> SUFFICES ASSUME ScoringInv, scored.lane = "adapter", scored.status = "passed",
                        Solved(scored.fixture, scored.enabled)
                            \ Solved(scored.fixture, scored.ablated) = {}
                 PROVE  FALSE
        BY DEF CreditIsEarned
    <2> DEFINE e == Solved(scored.fixture, scored.enabled)
               a == Solved(scored.fixture, scored.ablated)
    <2>1. scored.fixture \in Fixtures /\ Cardinality(e) > Cardinality(a)
        BY DEF ScoringInv, Unscored, Credited
    <2>2. IsFiniteSet(DOMAIN scored.fixture)
        BY <2>1, FS_Interval DEF Fixtures
    <2>3. a \in SUBSET DOMAIN scored.fixture
        BY DEF Solved, HeldOut
    <2>4. e \in SUBSET a
        OBVIOUS
    <2>5. IsFiniteSet(a) /\ IsFiniteSet(e)
        BY <2>2, <2>3, <2>4, FS_Subset
    <2>6. Cardinality(e) \in Nat /\ Cardinality(a) \in Nat /\ Cardinality(e) <= Cardinality(a)
        BY <2>4, <2>5, FS_Subset, FS_CardinalityType
    <2> HIDE DEF e, a
    <2> QED
        BY <2>1, <2>6
<1> QED
    BY <1>2, <1>3, <1>4, ScoringInvInductive, PTL DEF ScoringSpec, ScoresAreRight
=============================================================================
