----------------------------- MODULE HostProofs -----------------------------
(***************************************************************************)
(* Proofs about what faces the agent's host: the kits' MCP servers, where   *)
(* each request of the host gets its own answer, the health checks, where a  *)
(* green report rests on what was seen, and the installers, which share     *)
(* their files with the user and lose nothing of it.                        *)
(***************************************************************************)
EXTENDS McpStdio, HealthChecks, Installation, SequenceTheorems, FiniteSetTheorems,
        NaturalsInduction, WellFoundedInduction, TLAPS

-----------------------------------------------------------------------------
(* The MCP servers. *)

\* What the host may write in a line, and what a server may print.
ToolNames == {"", "sm_search"} \union UNION {DOMAIN Tools[k] : k \in DOMAIN Tools}
Methods == {"initialize", "tools/list", "tools/call", "notifications/initialized",
            "notifications/cancelled", "no JSON", "no object"}
Lines == [id : Int,
          method : Methods,
          tool : ToolNames,
          args : {{}} \union UNION {{Tools[k][t] : t \in DOMAIN Tools[k]} : k \in DOMAIN Tools}]
Printed == [id : Int, is : {"result", "error", "silence", "dies"}, to : Int]

McpTyped ==
    /\ server \in [kind : DOMAIN Tools, alive : BOOLEAN, in : Seq(Lines), out : Seq(Printed)]
    /\ host \in [next : Nat, first : Nat, pending : SUBSET Nat,
                 taken : UNION {[ids -> Printed] : ids \in SUBSET Nat}, once : SUBSET Methods]

\* The ids the host has given away.
IdsGiven ==
    /\ host.first <= host.next
    /\ host.pending \subseteq host.first .. (host.next - 1)
    /\ DOMAIN host.taken \subseteq host.first .. (host.next - 1)
    /\ \A n \in DOMAIN server.in :
          server.in[n].id = Null \/ server.in[n].id \in host.first .. (host.next - 1)

\* Nothing is asked, given up or notified before `initialize` is answered, and
\* then nobody waits for an answer to it.
GreetingFirst ==
    /\ Started => host.first \notin host.pending
    /\ \A id \in host.pending : id = host.first \/ Started
    /\ \A n \in DOMAIN server.in :
          /\ server.in[n].id = Null => Started
          /\ server.in[n].method \in Unanswered => server.in[n].id = Null

\* What a server printed answers a request, or a notification under an id that
\* is nobody's or that of a greeting answered before.
OutputTrue ==
    \A n \in DOMAIN server.out :
        \/ server.out[n].to = server.out[n].id /\ server.out[n].id \in host.first .. (host.next - 1)
        \/ server.out[n].to = Null /\ server.out[n].id \in {Null, 0} /\ Started

McpInv ==
    /\ McpTyped /\ IdsGiven /\ GreetingFirst /\ OutputTrue
    /\ AnswersMatch /\ NothingIsLost

\* The parts of the state and their types.
LEMMA McpParts ==
    ASSUME McpTyped
    PROVE  /\ server = [kind |-> server.kind, alive |-> server.alive, in |-> server.in,
                        out |-> server.out]
           /\ server.kind \in DOMAIN Tools /\ server.alive \in BOOLEAN
           /\ server.in \in Seq(Lines) /\ server.out \in Seq(Printed)
           /\ host = [next |-> host.next, first |-> host.first, pending |-> host.pending,
                      taken |-> host.taken, once |-> host.once]
           /\ host.next \in Nat /\ host.first \in Nat /\ host.pending \subseteq Nat
           /\ host.once \subseteq Methods
           /\ \E ids \in SUBSET Nat : host.taken \in [ids -> Printed]
BY DEF McpTyped

\* An answer that is kept is found under its id, and the others stay.
LEMMA KeptAnswers ==
    ASSUME NEW ids \in SUBSET Nat, NEW taken \in [ids -> Printed], NEW answer \in Printed,
           answer.id \in Nat
    PROVE  /\ Kept(taken, answer) \in [ids \union {answer.id} -> Printed]
           /\ Kept(taken, answer)[answer.id] = answer
           /\ \A id \in ids \ {answer.id} : Kept(taken, answer)[id] = taken[id]
BY DEF Kept

\* Every answer to a line has its id and is of it, or the line was a
\* notification; a request is answered or ends the server.
LEMMA EveryReply ==
    ASSUME NEW line \in Lines, server.kind \in DOMAIN Tools, NEW r \in Replies(line)
    PROVE  /\ r \in Printed
           /\ line.id = Null /\ r.is # "silence" => r.to = Null /\ r.id \in {Null, 0}
           /\ line.id # Null /\ r.is # "silence" => r.to = line.id /\ r.id = line.id
           /\ line.method \notin Unanswered => r.is # "silence"
<1>. DEFINE Good(x) ==
       /\ x \in Printed
       /\ line.id = Null /\ x.is # "silence" => x.to = Null /\ x.id \in {Null, 0}
       /\ line.id # Null /\ x.is # "silence" => x.to = line.id /\ x.id = line.id
       /\ line.method \notin Unanswered => x.is # "silence"
<1>1. line.id \in Int /\ Null \in Int /\ LineId(line) \in Int
  BY DEF Lines, LineId, Null
<1>2. ASSUME NEW is \in {"result", "error", "dies"}
      PROVE  /\ Good(Answer(line.id, is, line))
             /\ Good(Answer(LineId(line), is, line))
  BY <1>1, <1>2 DEF Answer, Printed, LineId, Null
<1>3. line.method \in Unanswered => Good(Silence)
  BY <1>1 DEF Silence, Printed, Null
<1>4. /\ GovernorCall(line) \subseteq {"result", "error"}
      /\ LedgerCall(line) \subseteq {"result", "error"}
      /\ ForgeCall(line) \subseteq {"result", "dies"}
  BY DEF GovernorCall, LedgerCall, ForgeCall
<1>. HIDE DEF Good
<1>5. \A x \in GovernorReply(line) : Good(x)
  BY <1>2, <1>3, <1>4 DEF GovernorReply, Lines, Methods, Unanswered, Known
<1>6. \A x \in LedgerReply(line) : Good(x)
  BY <1>2, <1>3, <1>4 DEF LedgerReply, Lines, Methods, Unanswered, Known
<1>7. \A x \in ForgeReply(line) : Good(x)
  BY <1>2, <1>3, <1>4 DEF ForgeReply, Lines, Methods, Unanswered, Known
<1>8. \A x \in GuardReply(line) : Good(x)
  BY <1>2, <1>3 DEF GuardReply, Unanswered
<1>9. Good(r)
  BY <1>5, <1>6, <1>7, <1>8 DEF Replies, Tools
<1>. QED
  BY <1>9 DEF Good

LEMMA InitMcpInv == McpInit => McpInv
<1>. SUFFICES ASSUME McpInit
              PROVE  McpInv
  OBVIOUS
<1>1. PICK k \in DOMAIN Tools : server = [kind |-> k, alive |-> TRUE, in |-> <<>>, out |-> <<>>]
  BY DEF McpInit
<1>2. PICK f \in FirstIds : host = [next |-> f, first |-> f, pending |-> {}, taken |-> <<>>,
                                    once |-> {}]
  BY DEF McpInit
<1>3. f \in Nat
  BY McpAssumption
<1>4. <<>> \in Seq(Lines) /\ <<>> \in Seq(Printed)
  BY EmptySeq
<1>5. server.kind = k /\ server.in = <<>> /\ server.out = <<>> /\ server.alive \in BOOLEAN
  BY <1>1
<1>6. /\ host.next = f /\ host.first = f /\ host.pending = {} /\ host.taken = <<>>
      /\ host.once \subseteq Methods
  BY <1>2
<1>7. DOMAIN <<>> = {}
  OBVIOUS
<1>8. <<>> \in UNION {[ids -> Printed] : ids \in SUBSET Nat}
  <2>1. <<>> \in [{} -> Printed]
    BY <1>7
  <2>2. {} \in SUBSET Nat
    OBVIOUS
  <2>. QED
    BY <2>1, <2>2
<1>9. McpTyped
  <2>1. server \in [kind : DOMAIN Tools, alive : BOOLEAN, in : Seq(Lines), out : Seq(Printed)]
    BY <1>1, <1>4
  <2>2. host \in [next : Nat, first : Nat, pending : SUBSET Nat,
                  taken : UNION {[ids -> Printed] : ids \in SUBSET Nat}, once : SUBSET Methods]
    BY <1>2, <1>3, <1>8
  <2>. QED
    BY <2>1, <2>2 DEF McpTyped
<1>10. IdsGiven /\ GreetingFirst /\ OutputTrue /\ AnswersMatch /\ NothingIsLost
  BY <1>3, <1>5, <1>6, <1>7
     DEF IdsGiven, GreetingFirst, OutputTrue, AnswersMatch, NothingIsLost, Started
<1>. QED
  BY <1>9, <1>10 DEF McpInv

\* A line that is sent comes after the others.
LEMMA SentLine ==
    ASSUME McpTyped, NEW line \in Lines, Sent(line)
    PROVE  /\ server' \in [kind : DOMAIN Tools, alive : BOOLEAN, in : Seq(Lines),
                           out : Seq(Printed)]
           /\ server'.alive = server.alive /\ server'.out = server.out
           /\ \A n \in DOMAIN server'.in : server'.in[n] = line
                                           \/ \E m \in DOMAIN server.in : server'.in[n] = server.in[m]
           /\ \A m \in DOMAIN server.in : m \in DOMAIN server'.in /\ server'.in[m] = server.in[m]
           /\ \E n \in DOMAIN server'.in : server'.in[n] = line
<1>1. server' = [kind |-> server.kind, alive |-> server.alive, in |-> Append(server.in, line),
                 out |-> server.out]
  BY McpParts DEF Sent
<1>2. /\ server'.alive = server.alive /\ server'.out = server.out
      /\ server'.in = Append(server.in, line)
  BY <1>1
<1>3. server.in \in Seq(Lines)
  BY McpParts
<1>4. /\ Append(server.in, line) \in Seq(Lines)
      /\ Len(Append(server.in, line)) = Len(server.in) + 1
      /\ \A i \in 1 .. Len(server.in) : Append(server.in, line)[i] = server.in[i]
      /\ Append(server.in, line)[Len(server.in) + 1] = line
  BY <1>3, AppendProperties
<1>5. /\ DOMAIN server.in = 1 .. Len(server.in) /\ Len(server.in) \in Nat
      /\ DOMAIN Append(server.in, line) = 1 .. (Len(server.in) + 1)
  BY <1>3, <1>4, LenProperties
<1>6. server' \in [kind : DOMAIN Tools, alive : BOOLEAN, in : Seq(Lines), out : Seq(Printed)]
  BY <1>1, <1>4, McpParts
<1>. QED
  BY <1>2, <1>4, <1>5, <1>6

\* A request: the first is sent at once, the others after its answer.
LEMMA SendInv ==
    ASSUME McpInv, NEW line \in Lines, line.id = host.next,
           line.method \notin Unanswered,
           host.next = host.first \/ Started, Send(line)
    PROVE  McpInv'
<1>1. /\ McpTyped /\ IdsGiven /\ GreetingFirst /\ OutputTrue /\ AnswersMatch /\ NothingIsLost
      /\ Sent(line) /\ host.next \in Nat /\ host.first \in Nat
  BY McpParts DEF McpInv, Send
<1>2. host' = [next |-> host.next + 1, first |-> host.first,
               pending |-> host.pending \union {host.next}, taken |-> host.taken,
               once |-> host.once]
  BY <1>1, McpParts DEF Send
<1>3. /\ host'.next = host.next + 1 /\ host'.first = host.first /\ host'.taken = host.taken
      /\ host'.pending = host.pending \union {host.next}
  BY <1>2
<1>4. /\ server' \in [kind : DOMAIN Tools, alive : BOOLEAN, in : Seq(Lines), out : Seq(Printed)]
      /\ server'.alive = server.alive /\ server'.out = server.out
      /\ \A n \in DOMAIN server'.in : server'.in[n] = line
                                      \/ \E m \in DOMAIN server.in : server'.in[n] = server.in[m]
      /\ \A m \in DOMAIN server.in : m \in DOMAIN server'.in /\ server'.in[m] = server.in[m]
      /\ \E n \in DOMAIN server'.in : server'.in[n] = line
  BY <1>1, SentLine
<1>5. McpTyped'
  <2>1. host' \in [next : Nat, first : Nat, pending : SUBSET Nat,
                   taken : UNION {[ids -> Printed] : ids \in SUBSET Nat}, once : SUBSET Methods]
    BY <1>1, <1>2, McpParts
  <2>. QED
    BY <1>4, <2>1 DEF McpTyped
<1>6. IdsGiven'
  BY <1>1, <1>3, <1>4 DEF IdsGiven
<1>7. GreetingFirst'
  <2>1. Started' <=> Started
    BY <1>3 DEF Started
  <2>2. Started => host.first < host.next
    BY <1>1 DEF Started, IdsGiven
  <2>3. Started' => host'.first \notin host'.pending
    BY <1>1, <1>3, <2>1, <2>2 DEF GreetingFirst
  <2>4. \A id \in host'.pending : id = host'.first \/ Started'
    BY <1>1, <1>3, <2>1 DEF GreetingFirst
  <2>5. ASSUME NEW n \in DOMAIN server'.in
        PROVE  /\ server'.in[n].id = Null => Started'
               /\ server'.in[n].method \in Unanswered => server'.in[n].id = Null
    BY <1>1, <1>4, <2>1 DEF GreetingFirst, Null
  <2>. QED
    BY <2>3, <2>4, <2>5 DEF GreetingFirst
<1>8. OutputTrue'
  <2>1. Started' <=> Started
    BY <1>3 DEF Started
  <2>. QED
    BY <1>1, <1>3, <1>4, <2>1 DEF OutputTrue
<1>9. AnswersMatch'
  BY <1>1, <1>3 DEF AnswersMatch
<1>10. NothingIsLost'
  <2>. SUFFICES ASSUME server'.alive, NEW id \in host'.pending
                PROVE  \/ \E n \in DOMAIN server'.in : server'.in[n].id = id
                       \/ \E n \in DOMAIN server'.out : server'.out[n].id = id
    BY DEF NothingIsLost
  <2>1. CASE id = host.next
    BY <1>4, <2>1
  <2>2. CASE id \in host.pending
    BY <1>1, <1>4, <2>2 DEF NothingIsLost
  <2>. QED
    BY <1>3, <2>1, <2>2
<1>. QED
  BY <1>5, <1>6, <1>7, <1>8, <1>9, <1>10 DEF McpInv

\* A notification: the host may wait for less afterwards.
LEMMA NotifyInv ==
    ASSUME McpInv, Started, NEW line \in Lines, line.id = Null, Sent(line),
           NEW pending, pending \subseteq host.pending, NEW once \in SUBSET Methods,
           host' = [next |-> host.next, first |-> host.first, pending |-> pending,
                    taken |-> host.taken, once |-> once]
    PROVE  McpInv'
<1>1. /\ McpTyped /\ IdsGiven /\ GreetingFirst /\ OutputTrue /\ AnswersMatch /\ NothingIsLost
      /\ host.next \in Nat /\ host.first \in Nat /\ host.pending \subseteq Nat
  BY McpParts DEF McpInv
<1>2. /\ host'.next = host.next /\ host'.first = host.first /\ host'.taken = host.taken
      /\ host'.pending = pending
  OBVIOUS
<1>3. /\ server' \in [kind : DOMAIN Tools, alive : BOOLEAN, in : Seq(Lines), out : Seq(Printed)]
      /\ server'.alive = server.alive /\ server'.out = server.out
      /\ \A n \in DOMAIN server'.in : server'.in[n] = line
                                      \/ \E m \in DOMAIN server.in : server'.in[n] = server.in[m]
      /\ \A m \in DOMAIN server.in : m \in DOMAIN server'.in /\ server'.in[m] = server.in[m]
  BY <1>1, SentLine
<1>4. McpTyped'
  <2>1. host' \in [next : Nat, first : Nat, pending : SUBSET Nat,
                   taken : UNION {[ids -> Printed] : ids \in SUBSET Nat}, once : SUBSET Methods]
    BY <1>1, McpParts
  <2>. QED
    BY <1>3, <2>1 DEF McpTyped
<1>5. Started'
  BY <1>2 DEF Started
<1>6. IdsGiven'
  BY <1>1, <1>2, <1>3 DEF IdsGiven
<1>7. GreetingFirst'
  BY <1>1, <1>2, <1>3, <1>5 DEF GreetingFirst
<1>8. OutputTrue'
  BY <1>1, <1>2, <1>3, <1>5 DEF OutputTrue
<1>9. AnswersMatch'
  BY <1>1, <1>2 DEF AnswersMatch
<1>10. NothingIsLost'
  <2>. SUFFICES ASSUME server'.alive, NEW id \in host'.pending
                PROVE  \/ \E n \in DOMAIN server'.in : server'.in[n].id = id
                       \/ \E n \in DOMAIN server'.out : server'.out[n].id = id
    BY DEF NothingIsLost
  <2>1. \/ \E n \in DOMAIN server.in : server.in[n].id = id
        \/ \E n \in DOMAIN server.out : server.out[n].id = id
    BY <1>1, <1>2, <1>3 DEF NothingIsLost
  <2>. QED
    BY <1>3, <2>1
<1>. QED
  BY <1>4, <1>6, <1>7, <1>8, <1>9, <1>10 DEF McpInv

\* What is left of a sequence of which the head was taken.
LEMMA WithoutHead ==
    ASSUME NEW S, NEW s \in Seq(S), s # <<>>
    PROVE  /\ Head(s) \in S /\ Tail(s) \in Seq(S)
           /\ \E n \in DOMAIN s : s[n] = Head(s)
           /\ \A n \in DOMAIN Tail(s) : \E m \in DOMAIN s : Tail(s)[n] = s[m]
           /\ \A m \in DOMAIN s : s[m] = Head(s) \/ \E n \in DOMAIN Tail(s) : Tail(s)[n] = s[m]
<1>1. Len(s) \in Nat \ {0} /\ DOMAIN s = 1 .. Len(s)
  BY EmptySeq, LenProperties
<1>2. /\ Head(s) \in S /\ Tail(s) \in Seq(S) /\ Len(Tail(s)) = Len(s) - 1
      /\ \A i \in 1 .. Len(Tail(s)) : Tail(s)[i] = s[i + 1]
  BY HeadTailProperties
<1>3. DOMAIN Tail(s) = 1 .. (Len(s) - 1)
  BY <1>2, LenProperties
<1>4. Head(s) = s[1]
  OBVIOUS
<1>5. ASSUME NEW m \in DOMAIN s
      PROVE  s[m] = Head(s) \/ \E n \in DOMAIN Tail(s) : Tail(s)[n] = s[m]
  <2>1. CASE m = 1
    BY <1>4, <2>1
  <2>2. CASE m # 1
    <3>1. m - 1 \in DOMAIN Tail(s) /\ Tail(s)[m - 1] = s[m]
      BY <1>1, <1>2, <1>3, <2>2
    <3>. QED
      BY <3>1
  <2>. QED
    BY <2>1, <2>2
<1>6. ASSUME NEW n \in DOMAIN Tail(s)
      PROVE  \E m \in DOMAIN s : Tail(s)[n] = s[m]
  <2>1. n + 1 \in DOMAIN s /\ Tail(s)[n] = s[n + 1]
    BY <1>1, <1>2, <1>3
  <2>. QED
    BY <2>1
<1>. QED
  BY <1>1, <1>2, <1>4, <1>5, <1>6

\* The host takes an answer.
LEMMA TakeInv == McpInv /\ Take => McpInv'
<1>. SUFFICES ASSUME McpInv, Take
              PROVE  McpInv'
  OBVIOUS
<1>1. /\ McpTyped /\ IdsGiven /\ GreetingFirst /\ OutputTrue /\ AnswersMatch /\ NothingIsLost
      /\ host.next \in Nat /\ host.first \in Nat /\ host.pending \subseteq Nat
      /\ server.out \in Seq(Printed) /\ server.out # <<>>
  BY McpParts DEF McpInv, Take
<1>. DEFINE answer == Head(server.out)
            rest == Tail(server.out)
<1>2. /\ answer \in Printed /\ rest \in Seq(Printed)
      /\ \E n \in DOMAIN server.out : server.out[n] = answer
      /\ \A n \in DOMAIN rest : \E m \in DOMAIN server.out : rest[n] = server.out[m]
      /\ \A m \in DOMAIN server.out :
            server.out[m] = answer \/ \E n \in DOMAIN rest : rest[n] = server.out[m]
  BY <1>1, WithoutHead
<1>3. /\ server' = [kind |-> server.kind, alive |-> server.alive, in |-> server.in, out |-> rest]
      /\ host' = IF answer.id \in host.pending
                 THEN [host EXCEPT !.pending = @ \ {answer.id}, !.taken = Kept(@, answer)]
                 ELSE host
  BY <1>1, McpParts DEF Take
<1>. HIDE DEF answer, rest
<1>4. /\ server'.in = server.in /\ server'.out = rest /\ server'.alive = server.alive
      /\ server' \in [kind : DOMAIN Tools, alive : BOOLEAN, in : Seq(Lines), out : Seq(Printed)]
  <2>1. server.kind \in DOMAIN Tools /\ server.alive \in BOOLEAN /\ server.in \in Seq(Lines)
    BY <1>1, McpParts
  <2>. QED
    BY <1>2, <1>3, <2>1
<1>5. \/ answer.to = answer.id /\ answer.id \in host.first .. (host.next - 1)
      \/ answer.to = Null /\ answer.id \in {Null, 0} /\ Started
  BY <1>1, <1>2 DEF OutputTrue
<1>6. answer.id \in host.pending => answer.to = answer.id
  <2>. SUFFICES ASSUME answer.id \in host.pending, answer.id \in {Null, 0}, Started
                PROVE  FALSE
    BY <1>5
  <2>1. answer.id = 0 /\ host.first = 0
    BY <1>1 DEF IdsGiven, Null
  <2>. QED
    BY <1>1, <2>1 DEF GreetingFirst
<1>7. CASE answer.id \in host.pending
  <2>. DEFINE taken == Kept(host.taken, answer)
              pending == host.pending \ {answer.id}
  <2>1. host' = [next |-> host.next, first |-> host.first, pending |-> pending,
                 taken |-> taken, once |-> host.once]
    BY <1>1, <1>3, <1>7, McpParts
  <2>2. PICK ids \in SUBSET Nat : host.taken \in [ids -> Printed]
    BY <1>1, McpParts
  <2>3. /\ taken \in [ids \union {answer.id} -> Printed]
        /\ taken[answer.id] = answer
        /\ \A id \in ids \ {answer.id} : taken[id] = host.taken[id]
    BY <1>1, <1>2, <1>7, <2>2, KeptAnswers
  <2>4. ids \union {answer.id} \in SUBSET Nat /\ DOMAIN host.taken = ids
        /\ DOMAIN taken = ids \union {answer.id}
    BY <1>1, <1>7, <2>2, <2>3
  <2>. HIDE DEF taken, pending
  <2>5. /\ host'.next = host.next /\ host'.first = host.first /\ host'.taken = taken
        /\ host'.pending = pending
    BY <2>1
  <2>6. Started => Started'
    BY <2>4, <2>5 DEF Started
  <2>7. McpTyped'
    <3>1. pending \in SUBSET Nat /\ host.once \subseteq Methods
      BY <1>1, McpParts DEF pending
    <3>2. taken \in UNION {[i -> Printed] : i \in SUBSET Nat}
      BY <2>3, <2>4
    <3>3. host' \in [next : Nat, first : Nat, pending : SUBSET Nat,
                     taken : UNION {[i -> Printed] : i \in SUBSET Nat}, once : SUBSET Methods]
      BY <1>1, <2>1, <3>1, <3>2
    <3>. QED
      BY <1>4, <3>3 DEF McpTyped
  <2>8. IdsGiven'
    BY <1>1, <1>4, <1>7, <2>4, <2>5 DEF IdsGiven, pending
  <2>9. GreetingFirst'
    <3>1. Started' => host'.first \notin host'.pending
      <4>. SUFFICES ASSUME Started', host.first \in pending
                    PROVE  FALSE
        BY <2>5
      <4>1. host.first \in ids
        BY <2>4, <2>5 DEF Started, pending
      <4>. QED
        BY <1>1, <2>4, <4>1 DEF GreetingFirst, Started, pending
    <3>2. \A id \in host'.pending : id = host'.first \/ Started'
      BY <1>1, <2>5, <2>6 DEF GreetingFirst, pending
    <3>3. \A n \in DOMAIN server'.in :
             /\ server'.in[n].id = Null => Started'
             /\ server'.in[n].method \in Unanswered => server'.in[n].id = Null
      BY <1>1, <1>4, <2>6 DEF GreetingFirst
    <3>. QED
      BY <3>1, <3>2, <3>3 DEF GreetingFirst
  <2>10. OutputTrue'
    BY <1>1, <1>2, <1>4, <2>5, <2>6 DEF OutputTrue
  <2>11. AnswersMatch'
    BY <1>1, <1>6, <1>7, <2>3, <2>4, <2>5 DEF AnswersMatch
  <2>12. NothingIsLost'
    <3>. SUFFICES ASSUME server'.alive, NEW id \in host'.pending
                  PROVE  \/ \E n \in DOMAIN server'.in : server'.in[n].id = id
                         \/ \E n \in DOMAIN server'.out : server'.out[n].id = id
      BY DEF NothingIsLost
    <3>1. id # answer.id /\ id \in host.pending
      BY <2>5 DEF pending
    <3>2. \/ \E n \in DOMAIN server.in : server.in[n].id = id
          \/ \E n \in DOMAIN server.out : server.out[n].id = id
      BY <1>1, <1>4, <3>1 DEF NothingIsLost
    <3>. QED
      BY <1>2, <1>4, <3>1, <3>2
  <2>. QED
    BY <2>7, <2>8, <2>9, <2>10, <2>11, <2>12 DEF McpInv
<1>8. CASE answer.id \notin host.pending
  <2>1. host' = host
    BY <1>3, <1>8
  <2>2. Started' <=> Started
    BY <2>1 DEF Started
  <2>3. McpTyped'
    BY <1>1, <1>4, <2>1 DEF McpTyped
  <2>4. IdsGiven' /\ GreetingFirst' /\ AnswersMatch'
    BY <1>1, <1>4, <2>1, <2>2 DEF IdsGiven, GreetingFirst, AnswersMatch
  <2>5. OutputTrue'
    BY <1>1, <1>2, <1>4, <2>1, <2>2 DEF OutputTrue
  <2>6. NothingIsLost'
    <3>. SUFFICES ASSUME server'.alive, NEW id \in host'.pending
                  PROVE  \/ \E n \in DOMAIN server'.in : server'.in[n].id = id
                         \/ \E n \in DOMAIN server'.out : server'.out[n].id = id
      BY DEF NothingIsLost
    <3>1. id # answer.id /\ id \in host.pending
      BY <1>8, <2>1
    <3>2. \/ \E n \in DOMAIN server.in : server.in[n].id = id
          \/ \E n \in DOMAIN server.out : server.out[n].id = id
      BY <1>1, <1>4, <3>1 DEF NothingIsLost
    <3>. QED
      BY <1>2, <1>4, <3>1, <3>2
  <2>. QED
    BY <2>3, <2>4, <2>5, <2>6 DEF McpInv
<1>. QED
  BY <1>7, <1>8

\* The server takes a line, and answers it if it is a request it survives.
LEMMA ServeInv == McpInv /\ Serve => McpInv'
<1>. SUFFICES ASSUME McpInv, Serve
              PROVE  McpInv'
  OBVIOUS
<1>1. /\ McpTyped /\ IdsGiven /\ GreetingFirst /\ OutputTrue /\ AnswersMatch /\ NothingIsLost
      /\ host.next \in Nat /\ host.first \in Nat /\ host.pending \subseteq Nat
      /\ server.in \in Seq(Lines) /\ server.in # <<>> /\ server.alive
      /\ server.out \in Seq(Printed) /\ server.kind \in DOMAIN Tools
      /\ host' = host
  BY McpParts DEF McpInv, Serve
<1>. DEFINE line == Head(server.in)
            rest == Tail(server.in)
<1>2. /\ line \in Lines /\ rest \in Seq(Lines)
      /\ \E n \in DOMAIN server.in : server.in[n] = line
      /\ \A n \in DOMAIN rest : \E m \in DOMAIN server.in : rest[n] = server.in[m]
      /\ \A m \in DOMAIN server.in :
            server.in[m] = line \/ \E n \in DOMAIN rest : rest[n] = server.in[m]
  BY <1>1, WithoutHead
<1>3. PICK r \in Replies(line) :
         server' = [server EXCEPT !.in = Tail(@), !.alive = r.is # "dies",
                      !.out = IF r.is \in {"silence", "dies"} THEN @ ELSE Append(@, r)]
  BY DEF Serve
<1>. DEFINE out == IF r.is \in {"silence", "dies"} THEN server.out ELSE Append(server.out, r)
            alive == r.is # "dies"
<1>4. server' = [kind |-> server.kind, alive |-> alive, in |-> rest, out |-> out]
  BY <1>1, <1>3, McpParts
<1>. HIDE DEF line, rest
<1>5. /\ r \in Printed
      /\ line.id = Null /\ r.is # "silence" => r.to = Null /\ r.id \in {Null, 0}
      /\ line.id # Null /\ r.is # "silence" => r.to = line.id /\ r.id = line.id
      /\ line.method \notin Unanswered => r.is # "silence"
  BY <1>1, <1>2, EveryReply
<1>6. /\ Append(server.out, r) \in Seq(Printed)
      /\ Len(Append(server.out, r)) = Len(server.out) + 1
      /\ \A i \in 1 .. Len(server.out) : Append(server.out, r)[i] = server.out[i]
      /\ Append(server.out, r)[Len(server.out) + 1] = r
  BY <1>1, <1>5, AppendProperties
<1>7. /\ DOMAIN server.out = 1 .. Len(server.out) /\ Len(server.out) \in Nat
      /\ DOMAIN Append(server.out, r) = 1 .. (Len(server.out) + 1)
  BY <1>1, <1>6, LenProperties
<1>8. /\ out \in Seq(Printed)
      /\ \A n \in DOMAIN out :
            \/ \E m \in DOMAIN server.out : out[n] = server.out[m]
            \/ out[n] = r /\ r.is # "silence"
      /\ \A m \in DOMAIN server.out : \E n \in DOMAIN out : out[n] = server.out[m]
      /\ r.is \notin {"silence", "dies"} => \E n \in DOMAIN out : out[n] = r
  <2>1. CASE r.is \in {"silence", "dies"}
    BY <1>1, <2>1
  <2>2. CASE r.is \notin {"silence", "dies"}
    <3>1. out = Append(server.out, r)
      BY <2>2
    <3>. HIDE DEF out
    <3>. QED
      BY <1>6, <1>7, <2>2, <3>1
  <2>. QED
    BY <2>1, <2>2
<1>9. alive \in BOOLEAN /\ (alive => r.is # "dies")
  OBVIOUS
<1>. HIDE DEF out, alive
<1>10. server'.in = rest /\ server'.out = out /\ server'.alive = alive
  BY <1>4
<1>11. Started' <=> Started
  BY <1>1 DEF Started
<1>12. /\ line.id = Null => Started
       /\ line.id = Null \/ line.id \in host.first .. (host.next - 1)
       /\ line.method \in Unanswered => line.id = Null
  BY <1>1, <1>2 DEF GreetingFirst, IdsGiven
<1>13. McpTyped'
  <2>1. server' \in [kind : DOMAIN Tools, alive : BOOLEAN, in : Seq(Lines), out : Seq(Printed)]
    BY <1>1, <1>2, <1>4, <1>8, <1>9
  <2>. QED
    BY <1>1, <2>1 DEF McpTyped
<1>14. IdsGiven' /\ AnswersMatch'
  BY <1>1, <1>2, <1>10 DEF IdsGiven, AnswersMatch
<1>15. GreetingFirst'
  BY <1>1, <1>2, <1>10, <1>11 DEF GreetingFirst
<1>16. OutputTrue'
  <2>. SUFFICES ASSUME NEW n \in DOMAIN out
                PROVE  \/ /\ out[n].to = out[n].id
                          /\ out[n].id \in host.first .. (host.next - 1)
                       \/ out[n].to = Null /\ out[n].id \in {Null, 0} /\ Started
    BY <1>1, <1>10, <1>11 DEF OutputTrue
  <2>1. CASE \E m \in DOMAIN server.out : out[n] = server.out[m]
    BY <1>1, <2>1 DEF OutputTrue
  <2>2. CASE out[n] = r /\ r.is # "silence"
    BY <1>5, <1>12, <2>2
  <2>. QED
    BY <1>8, <2>1, <2>2
<1>17. NothingIsLost'
  <2>. SUFFICES ASSUME alive, NEW id \in host.pending
                PROVE  \/ \E n \in DOMAIN rest : rest[n].id = id
                       \/ \E n \in DOMAIN out : out[n].id = id
    BY <1>1, <1>10 DEF NothingIsLost
  <2>1. \/ \E n \in DOMAIN server.in : server.in[n].id = id
        \/ \E n \in DOMAIN server.out : server.out[n].id = id
    BY <1>1 DEF NothingIsLost
  <2>2. CASE line.id = id
    <3>1. line.id # Null
      BY <1>1, <2>2 DEF Null
    <3>2. r.is \notin {"silence", "dies"} /\ r.id = id
      BY <1>5, <1>9, <1>12, <2>2, <3>1
    <3>. QED
      BY <1>8, <3>2
  <2>3. CASE line.id # id
    BY <1>2, <1>8, <2>1, <2>3
  <2>. QED
    BY <2>2, <2>3
<1>. QED
  BY <1>13, <1>14, <1>15, <1>16, <1>17 DEF McpInv

LEMMA NextMcpInv == McpInv /\ [McpNext]_mcpVars => McpInv'
<1>. SUFFICES ASSUME McpInv, [McpNext]_mcpVars
              PROVE  McpInv'
  OBVIOUS
<1>1. /\ McpTyped /\ IdsGiven /\ host.next \in Nat /\ server.kind \in DOMAIN Tools
      /\ host = [next |-> host.next, first |-> host.first, pending |-> host.pending,
                 taken |-> host.taken, once |-> host.once]
      /\ host.once \subseteq Methods
  BY McpParts DEF McpInv
<1>2. /\ Null \in Int /\ host.next \in Int
      /\ "" \in ToolNames /\ "sm_search" \in ToolNames
  BY <1>1 DEF Null, ToolNames
<1>3. ASSUME NEW method \in Methods, NEW id \in Int
      PROVE  Line(id, method) \in Lines /\ Line(id, method).id = id
             /\ Line(id, method).method = method
  BY <1>2 DEF Line, Lines, Methods
<1>4. CASE Initialize
  BY <1>2, <1>3, <1>4, SendInv DEF Initialize, Methods, Unanswered
<1>5. CASE ListTools
  BY <1>2, <1>3, <1>5, SendInv DEF ListTools, Methods, Unanswered
<1>6. CASE CallTool
  <2>1. PICK tool \in DOMAIN Tools[server.kind] :
          \E args \in {{}, Tools[server.kind][tool]} :
             Send([id |-> host.next, method |-> "tools/call", tool |-> tool, args |-> args])
    BY <1>6 DEF CallTool
  <2>2. PICK args \in {{}, Tools[server.kind][tool]} :
             Send([id |-> host.next, method |-> "tools/call", tool |-> tool, args |-> args])
    BY <2>1
  <2>. DEFINE line == [id |-> host.next, method |-> "tools/call", tool |-> tool, args |-> args]
  <2>3. tool \in ToolNames
    BY <1>1 DEF ToolNames
  <2>4. args \in {{}} \union UNION {{Tools[k][t] : t \in DOMAIN Tools[k]} : k \in DOMAIN Tools}
    BY <1>1
  <2>5. line \in Lines /\ line.id = host.next /\ line.method \notin Unanswered
    BY <1>2, <2>3, <2>4 DEF Lines, Methods, Unanswered
  <2>6. Started /\ Send(line)
    BY <1>6, <2>2 DEF CallTool
  <2>. HIDE DEF line
  <2>. QED
    BY <2>5, <2>6, SendInv
<1>7. CASE CallUnknown
  <2>. DEFINE line == [id |-> host.next, method |-> "tools/call", tool |-> "sm_search", args |-> {}]
  <2>1. line \in Lines /\ line.id = host.next /\ line.method \notin Unanswered
    BY <1>2 DEF Lines, Methods, Unanswered
  <2>2. Started /\ Send(line)
    BY <1>7 DEF CallUnknown
  <2>. HIDE DEF line
  <2>. QED
    BY <2>1, <2>2, SendInv
<1>8. ASSUME NEW method \in Methods, SendOnce(method)
      PROVE  McpInv'
  <2>. DEFINE line == Line(Null, method)
              once == host.once \union {method}
  <2>1. line \in Lines /\ line.id = Null /\ Started /\ Sent(line)
    BY <1>2, <1>3, <1>8 DEF SendOnce
  <2>2. host' = [next |-> host.next, first |-> host.first, pending |-> host.pending,
                 taken |-> host.taken, once |-> once]
    BY <1>1, <1>8 DEF SendOnce
  <2>3. once \in SUBSET Methods
    BY <1>1
  <2>. HIDE DEF line, once
  <2>. QED
    BY <2>1, <2>2, <2>3, NotifyInv
<1>9. ASSUME NEW id \in host.pending, Cancel(id)
      PROVE  McpInv'
  <2>. DEFINE line == Line(Null, "notifications/cancelled")
  <2>1. Started
    BY <1>9 DEF Cancel, McpInv, GreetingFirst
  <2>2. line \in Lines /\ line.id = Null /\ Sent(line)
    BY <1>2, <1>3, <1>9 DEF Cancel, Methods
  <2>3. host' = [next |-> host.next, first |-> host.first, pending |-> host.pending \ {id},
                 taken |-> host.taken, once |-> host.once]
    BY <1>1, <1>9 DEF Cancel
  <2>. HIDE DEF line
  <2>. QED
    BY <1>1, <2>1, <2>2, <2>3, NotifyInv
<1>10. CASE UNCHANGED mcpVars
  BY <1>10 DEF mcpVars, McpInv, McpTyped, IdsGiven, GreetingFirst, OutputTrue, AnswersMatch,
               NothingIsLost, Started
<1>. QED
  <2>1. NotifyInitialized \/ Stray => McpInv'
    BY <1>8 DEF NotifyInitialized, Stray, Methods
  <2>. QED
    BY <1>4, <1>5, <1>6, <1>7, <1>9, <1>10, <2>1, TakeInv, ServeInv DEF McpNext

LEMMA McpInvariant == McpSpec => []McpInv
BY InitMcpInv, NextMcpInv, PTL DEF McpSpec

\* The server, the host and the answers between them keep their types.
THEOREM McpTypeCorrect == McpSpec => []McpTypeOK
<1>1. McpInv => McpTypeOK
  <2>. SUFFICES ASSUME McpInv
                PROVE  McpTypeOK
    OBVIOUS
  <2>1. McpTyped /\ IdsGiven /\ OutputTrue
    BY DEF McpInv
  <2>2. /\ server.kind \in DOMAIN Tools /\ host.next \in Nat /\ host.first \in Nat
    BY <2>1, McpParts
  <2>3. \A n \in DOMAIN server.out :
           server.out[n].id \in {Null, 0} \union (host.first .. host.next)
    BY <2>1, <2>2 DEF OutputTrue
  <2>. QED
    BY <2>1, <2>2, <2>3 DEF McpTypeOK, IdsGiven
<1>. QED
  BY <1>1, McpInvariant, PTL

\* forge-admin-mcp.py, lines 199 to 206, and the loops like it: however a host
\* pipelines and gives up its requests, each has its own answer and none is lost.
THEOREM RequestsAreAnswered == McpSpec => []AnswersArrive
<1>1. McpInv => AnswersArrive
  BY DEF McpInv, AnswersArrive
<1>. QED
  BY <1>1, McpInvariant, PTL

-----------------------------------------------------------------------------
(* The health checks. *)

Results == {"passed", "noted", "critical", "crash"}
Checks == [of : Subjects, good : SUBSET Results, bad : SUBSET Results, hangs : SUBSET Results]
Blocks == {"critical", "crash"}

\* What a check of a program has to make of the parts that a green report is about.
FitFor(program, check) ==
    /\ check \in Checks
    /\ program = "daily" /\ check.of \in {"http", "unit"} =>
          check.bad \subseteq Blocks /\ check.hangs \subseteq Blocks
    /\ program \in {"doctor_all", "install"} =>
          /\ check.of \in {"server", "governor_mcp"} =>
                check.bad \subseteq Blocks /\ check.hangs \subseteq Blocks
          /\ check.of = "governor" => check.bad \subseteq Blocks
          /\ check.of = "receipts" => check.hangs \subseteq Blocks

StageFits(program, stage) ==
    /\ stage \in Seq(Checks)
    /\ \A i \in 1 .. Len(stage) : FitFor(program, stage[i])

\* The outcome of such a check.
Telling(program, o) ==
    /\ program = "daily" /\ o.of \in {"http", "unit"} /\ o.was # "good" =>
          Blocking(o.outcome)
    /\ program \in {"doctor_all", "install"} =>
          /\ o.of \in {"server", "governor_mcp"} /\ o.was # "good" => Blocking(o.outcome)
          /\ o.of = "governor" /\ o.was = "bad" => Blocking(o.outcome)
          /\ o.of = "receipts" /\ o.was = "hangs" => Blocking(o.outcome)

\* A check makes of a part what it makes of its condition.
LEMMA CheckIsTelling ==
    ASSUME NEW program, NEW check, FitFor(program, check), NEW was \in Conditions,
           NEW outcome \in check[was]
    PROVE  /\ [of |-> check.of, was |-> was, outcome |-> outcome] \in Outcomes
           /\ Telling(program, [of |-> check.of, was |-> was, outcome |-> outcome])
<1>1. check.of \in Subjects /\ check.good \subseteq Results /\ check.bad \subseteq Results
      /\ check.hangs \subseteq Results
  BY DEF FitFor, Checks
<1>2. CASE was = "good"
  <2>1. outcome \in check.good
    BY <1>2
  <2>. QED
    BY <1>1, <1>2, <2>1 DEF Outcomes, Conditions, Results, Telling
<1>3. CASE was = "bad"
  <2>1. outcome \in check.bad
    BY <1>3
  <2>. QED
    BY <1>1, <1>3, <2>1 DEF Outcomes, Conditions, Results, Telling, FitFor, Blocks, Blocking
<1>4. CASE was = "hangs"
  <2>1. outcome \in check.hangs
    BY <1>4
  <2>. QED
    BY <1>1, <1>4, <2>1 DEF Outcomes, Conditions, Results, Telling, FitFor, Blocks, Blocking
<1>. QED
  BY <1>2, <1>3, <1>4 DEF Conditions

\* The stages of the programs.
LEMMA DailyFits ==
    /\ StageFits("daily", DailyChecks) /\ Len(DailyChecks) = 8
    /\ DailyChecks[5].of = "http" /\ DailyChecks[6].of = "unit"
<1>1. /\ FitFor("daily", HookImport) /\ FitFor("daily", RecallRuns) /\ FitFor("daily", HookRuns)
      /\ FitFor("daily", TestSuites)
  BY DEF HookImport, RecallRuns, HookRuns, TestSuites, Check, FitFor, Checks, Subjects,
         Programmes, Results, Blocks
<1>2. /\ FitFor("daily", ServerHealth) /\ FitFor("daily", UnitActive)
      /\ FitFor("daily", ServerBinary) /\ FitFor("daily", PluginFiles)
      /\ ServerHealth.of = "http" /\ UnitActive.of = "unit"
  BY DEF ServerHealth, UnitActive, ServerBinary, PluginFiles, Check, FileCheck, FitFor, Checks,
         Subjects, Programmes, Files, Results, Blocks
<1>3. {HookImport, RecallRuns, HookRuns, TestSuites, ServerHealth, UnitActive, ServerBinary,
       PluginFiles} \subseteq Checks
  BY <1>1, <1>2 DEF FitFor
<1>4. DailyChecks \in Seq(Checks) /\ Len(DailyChecks) = 8
  BY <1>3 DEF DailyChecks
<1>5. /\ DailyChecks[1] = HookImport /\ DailyChecks[2] = RecallRuns /\ DailyChecks[3] = HookRuns
      /\ DailyChecks[4] = TestSuites /\ DailyChecks[5] = ServerHealth
      /\ DailyChecks[6] = UnitActive /\ DailyChecks[7] = ServerBinary
      /\ DailyChecks[8] = PluginFiles
  BY DEF DailyChecks
<1>6. ASSUME NEW i \in 1 .. 8
      PROVE  FitFor("daily", DailyChecks[i])
  <2>1. i \in {1, 2, 3, 4, 5, 6, 7, 8}
    OBVIOUS
  <2>. QED
    BY <1>1, <1>2, <1>5, <2>1
<1>. QED
  BY <1>2, <1>4, <1>5, <1>6 DEF StageFits

LEMMA CoreFits ==
    ASSUME NEW program \in {"doctor_all", "install"}, NEW deep \in BOOLEAN
    PROVE  /\ StageFits(program, CoreChecks(deep))
           /\ ~deep => /\ Len(CoreChecks(deep)) = 5
                       /\ CoreChecks(deep)[2].of = "server"
                       /\ CoreChecks(deep)[4].of = "governor_mcp"
<1>. DEFINE first == << HttpProbe, ServerTools, GovernorStatus, GovernorListing, ConfigPaths >>
            second == IF deep THEN << HookManifests, CompactSmoke, LedgerListing, ToolSurfaces >>
                      ELSE << >>
<1>1. /\ FitFor(program, HttpProbe) /\ FitFor(program, ServerTools)
      /\ FitFor(program, GovernorStatus) /\ FitFor(program, GovernorListing)
      /\ ServerTools.of = "server" /\ GovernorListing.of = "governor_mcp"
  BY DEF HttpProbe, ServerTools, GovernorStatus, GovernorListing, Check, FitFor, Checks, Subjects,
         Programmes, Results, Blocks
<1>2. /\ FitFor(program, ConfigPaths) /\ FitFor(program, HookManifests)
      /\ FitFor(program, CompactSmoke)
  BY DEF ConfigPaths, HookManifests, CompactSmoke, Check, FileCheck, FitFor, Checks, Subjects,
         Programmes, Files, Results, Blocks
<1>3. FitFor(program, LedgerListing) /\ FitFor(program, ToolSurfaces)
  BY DEF LedgerListing, ToolSurfaces, Check, FitFor, Checks, Subjects, Programmes, Results, Blocks
<1>4. StageFits(program, first) /\ Len(first) = 5 /\ first[2].of = "server"
      /\ first[4].of = "governor_mcp"
  <2>1. {HttpProbe, ServerTools, GovernorStatus, GovernorListing, ConfigPaths} \subseteq Checks
    BY <1>1, <1>2 DEF FitFor
  <2>2. first \in Seq(Checks) /\ Len(first) = 5
    BY <2>1
  <2>3. /\ first[1] = HttpProbe /\ first[2] = ServerTools /\ first[3] = GovernorStatus
        /\ first[4] = GovernorListing /\ first[5] = ConfigPaths
    OBVIOUS
  <2>. HIDE DEF first
  <2>4. ASSUME NEW i \in 1 .. 5
        PROVE  FitFor(program, first[i])
    <3>1. i \in {1, 2, 3, 4, 5}
      OBVIOUS
    <3>. QED
      BY <1>1, <1>2, <2>3, <3>1
  <2>. QED
    BY <1>1, <2>2, <2>3, <2>4 DEF StageFits
<1>5. StageFits(program, second) /\ (~deep => second = << >>)
  <2>1. CASE deep
    <3>. DEFINE more == << HookManifests, CompactSmoke, LedgerListing, ToolSurfaces >>
    <3>1. {HookManifests, CompactSmoke, LedgerListing, ToolSurfaces} \subseteq Checks
      BY <1>2, <1>3 DEF FitFor
    <3>2. more \in Seq(Checks) /\ Len(more) = 4
      BY <3>1
    <3>3. /\ more[1] = HookManifests /\ more[2] = CompactSmoke /\ more[3] = LedgerListing
          /\ more[4] = ToolSurfaces
      OBVIOUS
    <3>. HIDE DEF more
    <3>4. ASSUME NEW i \in 1 .. 4
          PROVE  FitFor(program, more[i])
      <4>1. i \in {1, 2, 3, 4}
        OBVIOUS
      <4>. QED
        BY <1>2, <1>3, <3>3, <4>1
    <3>5. second = more
      BY <2>1 DEF more
    <3>. QED
      BY <2>1, <3>2, <3>4, <3>5 DEF StageFits
  <2>2. CASE ~deep
    <3>1. second = << >>
      BY <2>2
    <3>2. << >> \in Seq(Checks) /\ Len(<< >>) = 0
      BY EmptySeq
    <3>. QED
      BY <3>1, <3>2 DEF StageFits
  <2>. QED
    BY <2>1, <2>2
<1>6. CoreChecks(deep) = first \o second
  BY DEF CoreChecks
<1>. HIDE DEF first, second
<1>7. /\ first \o second \in Seq(Checks)
      /\ Len(first \o second) = Len(first) + Len(second)
      /\ \A i \in 1 .. Len(first) + Len(second) :
            (first \o second)[i] = IF i <= Len(first) THEN first[i] ELSE second[i - Len(first)]
  BY <1>4, <1>5, ConcatProperties DEF StageFits
<1>8. Len(second) \in Nat
  BY <1>5, LenProperties DEF StageFits
<1>9. ASSUME NEW i \in 1 .. Len(first \o second)
      PROVE  FitFor(program, (first \o second)[i])
  <2>1. CASE i <= 5
    BY <1>4, <1>7, <1>8, <2>1 DEF StageFits
  <2>2. CASE ~(i <= 5)
    <3>1. i - 5 \in 1 .. Len(second) /\ (first \o second)[i] = second[i - 5]
      BY <1>4, <1>7, <1>8, <2>2
    <3>. QED
      BY <1>5, <3>1 DEF StageFits
  <2>. QED
    BY <2>1, <2>2
<1>10. ASSUME ~deep
       PROVE  first \o second = first
  BY <1>4, <1>5, <1>10, ConcatEmptySeq DEF StageFits
<1>. QED
  BY <1>4, <1>6, <1>7, <1>9, <1>10 DEF StageFits

LEMMA OthersFit ==
    /\ StageFits("codex", CodexChecks)
    /\ StageFits("pro", ProChecks)
<1>1. /\ FitFor("codex", PluginSource) /\ FitFor("codex", CodexConfig)
      /\ FitFor("codex", CodexTools) /\ FitFor("codex", CodexStats)
  BY DEF PluginSource, CodexConfig, CodexTools, CodexStats, Check, FileCheck, FitFor, Checks,
         Subjects, Programmes, Files, Results
<1>2. /\ FitFor("pro", FileCheck("pro_config", {"critical"}))
      /\ FitFor("pro", Check("license_server", {"critical"}, {"critical"}))
  BY DEF Check, FileCheck, FitFor, Checks, Subjects, Programmes, Files, Results
<1>3. StageFits("codex", CodexChecks)
  <2>1. CodexChecks \in Seq(Checks) /\ Len(CodexChecks) = 4
    BY <1>1 DEF CodexChecks, FitFor
  <2>2. ASSUME NEW i \in 1 .. 4
        PROVE  FitFor("codex", CodexChecks[i])
    <3>1. i \in {1, 2, 3, 4}
      OBVIOUS
    <3>. QED
      BY <1>1, <3>1 DEF CodexChecks
  <2>. QED
    BY <2>1, <2>2 DEF StageFits
<1>4. StageFits("pro", ProChecks)
  <2>1. ProChecks \in Seq(Checks) /\ Len(ProChecks) = 2
    BY <1>2 DEF ProChecks, FitFor
  <2>2. ASSUME NEW i \in 1 .. 2
        PROVE  FitFor("pro", ProChecks[i])
    <3>1. i \in {1, 2}
      OBVIOUS
    <3>. QED
      BY <1>2, <3>1 DEF ProChecks
  <2>. QED
    BY <2>1, <2>2 DEF StageFits
<1>. QED
  BY <1>3, <1>4

LEMMA EveryStage ==
    ASSUME NEW program \in Programs, NEW k \in 1 .. Len(Stages(program))
    PROVE  StageFits(program, Stages(program)[k])
<1>1. CASE program = "daily"
  <2>1. Stages(program) = << DailyChecks >>
    BY <1>1 DEF Stages
  <2>2. k = 1
    BY <2>1
  <2>. QED
    BY <1>1, <2>1, <2>2, DailyFits
<1>2. CASE program \in {"doctor_all", "install"}
  <2>. DEFINE deep == CoreChecks(TRUE)
              shallow == CoreChecks(FALSE)
  <2>1. Stages(program) = << deep, shallow >>
    BY <1>2 DEF Stages
  <2>2. k = 1 \/ k = 2
    BY <2>1
  <2>3. StageFits(program, deep) /\ StageFits(program, shallow)
    BY <1>2, CoreFits
  <2>. HIDE DEF deep, shallow
  <2>. QED
    BY <2>1, <2>2, <2>3
<1>3. CASE program = "codex"
  <2>1. Stages(program) = << CodexChecks >>
    BY <1>3 DEF Stages
  <2>2. k = 1
    BY <2>1
  <2>. QED
    BY <1>3, <2>1, <2>2, OthersFit
<1>4. CASE program = "pro"
  <2>1. Stages(program) = << ProChecks >>
    BY <1>4 DEF Stages
  <2>2. k = 1
    BY <2>1
  <2>. QED
    BY <1>4, <2>1, <2>2, OthersFit
<1>. QED
  BY <1>1, <1>2, <1>3, <1>4, HealthAssumption

ShallowChecks == CoreChecks(FALSE)

\* A doctor's last stage looks at the server and at the governor's MCP server.
LEMMA LastStages ==
    ASSUME NEW program \in Programs
    PROVE  /\ Len(Stages(program)) \in Nat \ {0}
           /\ program = "daily" => Len(Stages(program)) = 1 /\ Stages(program)[1] = DailyChecks
           /\ program \in {"doctor_all", "install"} =>
                 Len(Stages(program)) = 2 /\ Stages(program)[2] = ShallowChecks
<1>1. CASE program = "daily"
  BY <1>1 DEF Stages
<1>2. CASE program \in {"doctor_all", "install"}
  <2>. DEFINE deep == CoreChecks(TRUE)
  <2>1. Stages(program) = << deep, ShallowChecks >>
    BY <1>2 DEF Stages, ShallowChecks
  <2>. HIDE DEF deep
  <2>. QED
    BY <1>2, <2>1
<1>3. CASE program = "codex"
  BY <1>3 DEF Stages
<1>4. CASE program = "pro"
  BY <1>4 DEF Stages
<1>. QED
  BY <1>1, <1>2, <1>3, <1>4, HealthAssumption

-----------------------------------------------------------------------------
RunRecord == [program : Programs, number : Nat, stage : Nat, step : Nat,
              outcomes : SUBSET Outcomes, after : Nat]

HealthTyped ==
    /\ condition \in [Subjects -> Conditions]
    /\ checkRun \in [Checkers -> RunRecord \union {NoRun}]
    /\ daily \in [ok : BOOLEAN, outcomes : SUBSET Outcomes]
    /\ bundle \in [number : Nat, ok : BOOLEAN, outcomes : SUBSET Outcomes]
    /\ checksDone \in Nat

\* What a run at a step of a stage has seen: each outcome is telling, and unless a
\* check crashed, those of the stage so far have one.
SeenSoFar(program, k, step, outcomes) ==
    /\ k \in 1 .. Len(Stages(program))
    /\ step \in 1 .. (Len(Stages(program)[k]) + 1)
    /\ \A o \in outcomes : Telling(program, o)
    /\ \/ \E o \in outcomes : o.outcome = "crash"
       \/ \A i \in 1 .. (step - 1) : \E o \in outcomes : o.of = Stages(program)[k][i].of

RunTrue(r) == r # NoRun => SeenSoFar(r.program, r.stage, r.step, r.outcomes)

HealthInv ==
    /\ HealthTyped
    /\ \A c \in Checkers : RunTrue(checkRun[c])
    /\ GreenIsEarned

\* A run is known by its program.
LEMMA RunsAreRuns ==
    ASSUME NEW r \in RunRecord
    PROVE  /\ r # NoRun
           /\ r.program \in Programs /\ r.number \in Nat /\ r.stage \in Nat /\ r.step \in Nat
           /\ r.outcomes \subseteq Outcomes /\ r.after \in Nat
           /\ r = [program |-> r.program, number |-> r.number, stage |-> r.stage,
                   step |-> r.step, outcomes |-> r.outcomes, after |-> r.after]
<1>1. r.program \in Programs /\ "none" \notin Programs
  BY HealthAssumption DEF RunRecord
<1>2. NoRun.program = "none"
  BY DEF NoRun
<1>. QED
  BY <1>1, <1>2 DEF RunRecord

LEMMA NewOutcomes ==
    ASSUME NEW r, NEW outcomes,
           r = [program |-> r.program, number |-> r.number, stage |-> r.stage,
                step |-> r.step, outcomes |-> r.outcomes, after |-> r.after]
    PROVE  [r EXCEPT !.outcomes = outcomes] =
              [program |-> r.program, number |-> r.number, stage |-> r.stage,
               step |-> r.step, outcomes |-> outcomes, after |-> r.after]
OBVIOUS

LEMMA NewStep ==
    ASSUME NEW r, NEW step,
           r = [program |-> r.program, number |-> r.number, stage |-> r.stage,
                step |-> r.step, outcomes |-> r.outcomes, after |-> r.after]
    PROVE  [r EXCEPT !.step = step] =
              [program |-> r.program, number |-> r.number, stage |-> r.stage,
               step |-> step, outcomes |-> r.outcomes, after |-> r.after]
OBVIOUS

LEMMA NewStage ==
    ASSUME NEW r, NEW stage,
           r = [program |-> r.program, number |-> r.number, stage |-> r.stage,
                step |-> r.step, outcomes |-> r.outcomes, after |-> r.after]
    PROVE  [r EXCEPT !.stage = stage] =
              [program |-> r.program, number |-> r.number, stage |-> stage,
               step |-> r.step, outcomes |-> r.outcomes, after |-> r.after]
OBVIOUS

LEMMA BusyRuns ==
    ASSUME HealthTyped, NEW c \in Checkers, Busy(c)
    PROVE  checkRun[c] \in RunRecord
BY DEF HealthTyped, Busy

\* A run of a checker changes, or ends, and the reports stay.
LEMMA RunChanges ==
    ASSUME HealthInv, NEW c \in Checkers, NEW r \in RunRecord \union {NoRun}, RunTrue(r),
           checkRun' = [checkRun EXCEPT ![c] = r], condition' = condition,
           daily' = daily, bundle' = bundle, checksDone' \in Nat
    PROVE  HealthInv'
<1>1. HealthTyped /\ GreenIsEarned /\ \A d \in Checkers : RunTrue(checkRun[d])
  BY DEF HealthInv
<1>2. HealthTyped'
  BY <1>1 DEF HealthTyped
<1>3. GreenIsEarned'
  BY <1>1 DEF GreenIsEarned, Found
<1>4. ASSUME NEW d \in Checkers
      PROVE  RunTrue(checkRun'[d])
  <2>1. checkRun'[d] = IF d = c THEN r ELSE checkRun[d]
    BY <1>1 DEF HealthTyped
  <2>. QED
    BY <1>1, <2>1
<1>. QED
  BY <1>2, <1>3, <1>4 DEF HealthInv

\* The run of a checker changes and keeps its number.
RunGoesOn(c) ==
    \E r \in RunRecord : /\ checkRun' = [checkRun EXCEPT ![c] = r]
                         /\ r.number = checkRun[c].number /\ r.after = checkRun[c].after

LEMMA NoRunIsTrue == RunTrue(NoRun)
BY DEF RunTrue

LEMMA StartCheckInv ==
    ASSUME HealthInv, NEW c \in Checkers, NEW program \in Programs, StartCheck(c, program)
    PROVE  HealthInv'
<1>1. HealthTyped /\ checksDone \in Nat /\ bundle.number \in Nat
  BY DEF HealthInv, HealthTyped
<1>. DEFINE r == [program |-> program, number |-> checksDone + 1, stage |-> 1, step |-> 1,
                  outcomes |-> {}, after |-> bundle.number]
<1>2. /\ checkRun' = [checkRun EXCEPT ![c] = r] /\ condition' = condition
      /\ daily' = daily /\ bundle' = bundle /\ checksDone' = checksDone + 1
  BY DEF StartCheck
<1>3. r \in RunRecord
  BY <1>1 DEF RunRecord
<1>4. RunTrue(r)
  <2>1. Len(Stages(program)) \in Nat \ {0}
    BY LastStages
  <2>2. Len(Stages(program)[1]) \in Nat
    <3>1. 1 \in 1 .. Len(Stages(program))
      BY <2>1
    <3>2. Stages(program)[1] \in Seq(Checks)
      BY <3>1, EveryStage DEF StageFits
    <3>. QED
      BY <3>2, LenProperties
  <2>. QED
    BY <2>1, <2>2 DEF RunTrue, SeenSoFar
<1>. HIDE DEF r
<1>5. checksDone' \in Nat /\ r \in RunRecord \union {NoRun}
  BY <1>1, <1>2, <1>3
<1>. QED
  BY <1>2, <1>4, <1>5, RunChanges

\* One more check: its outcome is telling, and it is there.
LEMMA MakeCheckInv ==
    ASSUME HealthInv, NEW c \in Checkers, MakeCheck(c)
    PROVE  HealthInv' /\ RunGoesOn(c)
<1>1. /\ HealthTyped /\ checksDone \in Nat /\ condition \in [Subjects -> Conditions]
      /\ RunTrue(checkRun[c]) /\ Busy(c) /\ checkRun \in [Checkers -> RunRecord \union {NoRun}]
  BY DEF HealthInv, HealthTyped, MakeCheck
<1>. DEFINE run == checkRun[c]
            stage == Stages(run.program)[run.stage]
            check == stage[run.step]
<1>2. run \in RunRecord
  BY <1>1, BusyRuns
<1>3. /\ run # NoRun /\ run.program \in Programs /\ run.step \in Nat
      /\ run.outcomes \subseteq Outcomes /\ run.stage \in Nat /\ run.number \in Nat
      /\ run.after \in Nat
      /\ run = [program |-> run.program, number |-> run.number, stage |-> run.stage,
                step |-> run.step, outcomes |-> run.outcomes, after |-> run.after]
  BY <1>2, RunsAreRuns
<1>4. SeenSoFar(run.program, run.stage, run.step, run.outcomes)
  BY <1>1, <1>3 DEF RunTrue
<1>5. /\ run.stage \in 1 .. Len(Stages(run.program)) /\ run.step \in 1 .. (Len(stage) + 1)
      /\ run.step <= Len(stage)
  BY <1>4 DEF SeenSoFar, MakeCheck, Stage
<1>6. StageFits(run.program, stage)
  BY <1>3, <1>5, EveryStage
<1>7. Len(stage) \in Nat /\ run.step \in 1 .. Len(stage)
  <2>1. Len(stage) \in Nat
    BY <1>6, LenProperties DEF StageFits
  <2>. QED
    BY <1>5, <2>1
<1>8. FitFor(run.program, check) /\ check.of \in Subjects
  BY <1>6, <1>7 DEF StageFits, FitFor, Checks
<1>9. PICK outcome \in check[condition[check.of]] :
         checkRun' = [checkRun EXCEPT
             ![c].outcomes = @ \union {[of |-> check.of, was |-> condition[check.of],
                                        outcome |-> outcome]},
             ![c].step = IF outcome = "crash" THEN Len(Stage(c)) + 1 ELSE @ + 1]
  BY DEF MakeCheck, Stage
<1>. DEFINE was == condition[check.of]
            new == [of |-> check.of, was |-> was, outcome |-> outcome]
            outcomes == run.outcomes \union {new}
            step == IF outcome = "crash" THEN Len(stage) + 1 ELSE run.step + 1
            r == [program |-> run.program, number |-> run.number, stage |-> run.stage,
                  step |-> step, outcomes |-> outcomes, after |-> run.after]
<1>10. was \in Conditions
  BY <1>1, <1>8
<1>11. new \in Outcomes /\ Telling(run.program, new)
  BY <1>8, <1>9, <1>10, CheckIsTelling
<1>12. checkRun' = [checkRun EXCEPT ![c] = r]
  <2>. DEFINE first == [checkRun EXCEPT ![c].outcomes = @ \union {new}]
              second == [first EXCEPT ![c].step = IF outcome = "crash" THEN Len(stage) + 1
                                                  ELSE @ + 1]
  <2>1. checkRun' = second
    BY <1>9 DEF Stage
  <2>2. first = [checkRun EXCEPT ![c] = [program |-> run.program, number |-> run.number,
                    stage |-> run.stage, step |-> run.step, outcomes |-> outcomes,
                    after |-> run.after]]
    <3>1. [run EXCEPT !.outcomes = outcomes] = [program |-> run.program,
              number |-> run.number, stage |-> run.stage, step |-> run.step,
              outcomes |-> outcomes, after |-> run.after]
      <4>. HIDE DEF run, outcomes
      <4>. QED
        BY <1>3, NewOutcomes
    <3>2. first = [checkRun EXCEPT ![c] = [run EXCEPT !.outcomes = outcomes]]
      OBVIOUS
    <3>. HIDE DEF first, run, outcomes
    <3>. QED
      BY <3>1, <3>2
  <2>3. first[c] = [program |-> run.program, number |-> run.number, stage |-> run.stage,
                    step |-> run.step, outcomes |-> outcomes, after |-> run.after]
    <3>. HIDE DEF first, outcomes
    <3>. QED
      BY <1>1, <2>2
  <2>4. second = [first EXCEPT ![c] = r]
    <3>1. c \in DOMAIN first
      <4>. HIDE DEF outcomes
      <4>. QED
        BY <1>1, <2>2
    <3>2. first[c].step = run.step
      <4>. HIDE DEF first, run, outcomes
      <4>. QED
        BY <2>3
    <3>3. [first[c] EXCEPT !.step = step] = r
      <4>. DEFINE old == first[c]
      <4>1. /\ old = [program |-> old.program, number |-> old.number, stage |-> old.stage,
                      step |-> old.step, outcomes |-> old.outcomes, after |-> old.after]
            /\ old.program = run.program /\ old.number = run.number /\ old.stage = run.stage
            /\ old.outcomes = outcomes /\ old.after = run.after
        <5>. HIDE DEF first, run, outcomes
        <5>. QED
          BY <2>3
      <4>. HIDE DEF old, run, outcomes, step
      <4>2. [old EXCEPT !.step = step] =
               [program |-> old.program, number |-> old.number, stage |-> old.stage,
                step |-> step, outcomes |-> old.outcomes, after |-> old.after]
        BY <4>1, NewStep
      <4>. QED
        BY <4>1, <4>2 DEF old
    <3>4. second = [first EXCEPT ![c] = [first[c] EXCEPT !.step = step]]
      BY <3>2
    <3>. HIDE DEF first, second, r, step
    <3>. QED
      BY <3>3, <3>4
  <2>5. [first EXCEPT ![c] = r] = [checkRun EXCEPT ![c] = r]
    <3>. HIDE DEF first, outcomes, r
    <3>. QED
      BY <1>1, <2>2
  <2>. QED
    BY <2>1, <2>4, <2>5
<1>13. step \in 1 .. (Len(stage) + 1)
  BY <1>7
<1>. HIDE DEF new
<1>14. outcomes \subseteq Outcomes /\ \A o \in outcomes : Telling(run.program, o)
  BY <1>3, <1>4, <1>11 DEF SeenSoFar
<1>15. new.of = check.of /\ new.outcome = outcome
  BY DEF new
<1>16. \/ \E o \in outcomes : o.outcome = "crash"
       \/ \A i \in 1 .. (step - 1) : \E o \in outcomes : o.of = stage[i].of
  <2>1. CASE outcome = "crash"
    BY <1>15, <2>1
  <2>2. CASE \E o \in run.outcomes : o.outcome = "crash"
    BY <2>2
  <2>3. CASE /\ outcome # "crash"
             /\ ~ \E o \in run.outcomes : o.outcome = "crash"
    <3>1. \A i \in 1 .. (run.step - 1) : \E o \in run.outcomes : o.of = stage[i].of
      BY <1>4, <2>3 DEF SeenSoFar
    <3>2. step = run.step + 1
      BY <2>3
    <3>3. ASSUME NEW i \in 1 .. (step - 1)
          PROVE  \E o \in outcomes : o.of = stage[i].of
      <4>1. CASE i = run.step
        BY <1>15, <4>1
      <4>2. CASE i # run.step
        <5>1. i \in 1 .. (run.step - 1)
          BY <1>7, <3>2, <4>2
        <5>. QED
          BY <3>1, <5>1
      <4>. QED
        BY <4>1, <4>2
    <3>. QED
      BY <3>3
  <2>. QED
    BY <2>1, <2>2, <2>3
<1>17. r \in RunRecord /\ RunTrue(r)
  <2>. HIDE DEF outcomes, step
  <2>1. step \in Nat
    BY <1>7, <1>13
  <2>2. r \in RunRecord
    BY <1>3, <1>14, <2>1 DEF RunRecord
  <2>3. /\ r.program = run.program /\ r.stage = run.stage /\ r.step = step
        /\ r.outcomes = outcomes
    OBVIOUS
  <2>. HIDE DEF r, stage
  <2>4. SeenSoFar(run.program, run.stage, step, outcomes)
    BY <1>5, <1>13, <1>14, <1>16 DEF SeenSoFar, stage
  <2>. QED
    BY <2>2, <2>3, <2>4 DEF RunTrue
<1>18. r.number = run.number /\ r.after = run.after
  OBVIOUS
<1>. HIDE DEF r
<1>19. condition' = condition /\ daily' = daily /\ bundle' = bundle /\ checksDone' \in Nat
  BY <1>1 DEF MakeCheck
<1>. QED
  BY <1>12, <1>17, <1>18, <1>19, RunChanges DEF RunGoesOn

\* doctor-all goes on to the next doctor.
LEMMA NextStageInv ==
    ASSUME HealthInv, NEW c \in Checkers, NextStage(c)
    PROVE  HealthInv' /\ RunGoesOn(c)
<1>1. /\ HealthTyped /\ checksDone \in Nat /\ RunTrue(checkRun[c]) /\ Busy(c)
      /\ checkRun \in [Checkers -> RunRecord \union {NoRun}]
  BY DEF HealthInv, HealthTyped, NextStage, StageEnded
<1>. DEFINE run == checkRun[c]
            r == [program |-> run.program, number |-> run.number, stage |-> run.stage + 1,
                  step |-> 1, outcomes |-> run.outcomes, after |-> run.after]
<1>2. run \in RunRecord
  BY <1>1, BusyRuns
<1>3. /\ run # NoRun /\ run.program \in Programs /\ run.step \in Nat
      /\ run.outcomes \subseteq Outcomes /\ run.stage \in Nat /\ run.number \in Nat
      /\ run.after \in Nat
      /\ run = [program |-> run.program, number |-> run.number, stage |-> run.stage,
                step |-> run.step, outcomes |-> run.outcomes, after |-> run.after]
  BY <1>2, RunsAreRuns
<1>4. SeenSoFar(run.program, run.stage, run.step, run.outcomes)
  BY <1>1, <1>3 DEF RunTrue
<1>5. run.stage + 1 \in 1 .. Len(Stages(run.program))
  <2>1. Len(Stages(run.program)) \in Nat
    BY <1>3, LastStages
  <2>. QED
    BY <1>4, <2>1 DEF SeenSoFar, NextStage, LastStage
<1>6. Len(Stages(run.program)[run.stage + 1]) \in Nat
  <2>1. Stages(run.program)[run.stage + 1] \in Seq(Checks)
    BY <1>3, <1>5, EveryStage DEF StageFits
  <2>. QED
    BY <2>1, LenProperties
<1>7. checkRun' = [checkRun EXCEPT ![c] = r]
  <2>1. checkRun' = [checkRun EXCEPT ![c] = [[run EXCEPT !.stage = run.stage + 1] EXCEPT !.step = 1]]
    BY <1>1 DEF NextStage
  <2>2. [[run EXCEPT !.stage = run.stage + 1] EXCEPT !.step = 1] = r
    <3>. DEFINE stage == run.stage + 1
                moved == [run EXCEPT !.stage = stage]
    <3>. HIDE DEF run, stage
    <3>1. moved = [program |-> run.program, number |-> run.number, stage |-> stage,
                   step |-> run.step, outcomes |-> run.outcomes, after |-> run.after]
      BY <1>3, NewStage
    <3>2. /\ moved = [program |-> moved.program, number |-> moved.number,
                      stage |-> moved.stage, step |-> moved.step,
                      outcomes |-> moved.outcomes, after |-> moved.after]
          /\ moved.program = run.program /\ moved.number = run.number /\ moved.stage = stage
          /\ moved.outcomes = run.outcomes /\ moved.after = run.after
      <4>. HIDE DEF moved
      <4>. QED
        BY <3>1
    <3>. HIDE DEF moved
    <3>3. [moved EXCEPT !.step = 1] =
             [program |-> moved.program, number |-> moved.number, stage |-> moved.stage,
              step |-> 1, outcomes |-> moved.outcomes, after |-> moved.after]
      BY <3>2, NewStep
    <3>4. [moved EXCEPT !.step = 1] =
             [program |-> run.program, number |-> run.number, stage |-> stage,
              step |-> 1, outcomes |-> run.outcomes, after |-> run.after]
      BY <3>2, <3>3
    <3>. QED
      BY <3>4 DEF moved, stage
  <2>. HIDE DEF run, r
  <2>. QED
    BY <2>1, <2>2
<1>8. r \in RunRecord
  <2>. HIDE DEF run
  <2>. QED
    BY <1>3 DEF RunRecord
<1>9. RunTrue(r)
  <2>1. r.program = run.program /\ r.stage = run.stage + 1 /\ r.step = 1
        /\ r.outcomes = run.outcomes
    OBVIOUS
  <2>. HIDE DEF run, r
  <2>2. SeenSoFar(run.program, run.stage + 1, 1, run.outcomes)
    BY <1>4, <1>5, <1>6 DEF SeenSoFar
  <2>. QED
    BY <2>1, <2>2 DEF RunTrue
<1>10. r.number = run.number /\ r.after = run.after
  OBVIOUS
<1>. HIDE DEF r
<1>11. /\ condition' = condition /\ daily' = daily /\ bundle' = bundle /\ checksDone' \in Nat
       /\ r \in RunRecord \union {NoRun}
  BY <1>1, <1>8 DEF NextStage
<1>. QED
  BY <1>7, <1>8, <1>9, <1>10, <1>11, RunChanges DEF RunGoesOn

\* What a run that ended its last stage without a blocking outcome has found.
LEMMA CleanRuns ==
    ASSUME HealthInv, NEW c \in Checkers, StageEnded(c), LastStage(c),
           Clean(checkRun[c].outcomes)
    PROVE  /\ checkRun[c].program = "daily" =>
                 \A s \in {"http", "unit"} : Found(checkRun[c], s) = {"good"}
           /\ checkRun[c].program \in {"doctor_all", "install"} =>
                 /\ \A s \in {"server", "governor_mcp"} : Found(checkRun[c], s) = {"good"}
                 /\ "bad" \notin Found(checkRun[c], "governor")
                 /\ "hangs" \notin Found(checkRun[c], "receipts")
<1>. DEFINE run == checkRun[c]
            stage == Stages(run.program)[run.stage]
<1>1. Busy(c) /\ run \in RunRecord /\ RunTrue(run)
  BY BusyRuns DEF HealthInv, StageEnded
<1>2. run # NoRun /\ run.program \in Programs /\ run.step \in Nat /\ run.outcomes \subseteq Outcomes
  BY <1>1, RunsAreRuns
<1>3. SeenSoFar(run.program, run.stage, run.step, run.outcomes)
  BY <1>1, <1>2 DEF RunTrue
<1>4. /\ run.stage = Len(Stages(run.program)) /\ run.step > Len(stage)
      /\ run.step \in 1 .. (Len(stage) + 1)
  BY <1>3 DEF StageEnded, LastStage, Stage, SeenSoFar
<1>5. \A o \in run.outcomes : ~Blocking(o.outcome) /\ o.outcome # "crash"
  BY DEF Clean, Blocking
<1>6. \A o \in run.outcomes : Telling(run.program, o)
  BY <1>3 DEF SeenSoFar
<1>7. \A i \in 1 .. (run.step - 1) : \E o \in run.outcomes : o.of = stage[i].of
  BY <1>3, <1>5 DEF SeenSoFar
<1>8. \A o \in run.outcomes : o.was \in {"good", "bad", "hangs"}
  BY <1>2 DEF Outcomes, Conditions
<1>9. ASSUME run.program = "daily", NEW s \in {"http", "unit"}
      PROVE  Found(run, s) = {"good"}
  <2>1. stage = DailyChecks
    BY <1>2, <1>4, <1>9, LastStages
  <2>2. Len(stage) = 8 /\ stage[5].of = "http" /\ stage[6].of = "unit"
    BY <2>1, DailyFits
  <2>. HIDE DEF stage, run
  <2>3. run.step = 9
    BY <1>2, <1>4, <2>2
  <2>4. \E o \in run.outcomes : o.of = s
    <3>1. 5 \in 1 .. (run.step - 1) /\ 6 \in 1 .. (run.step - 1) /\ 8 \in 1 .. (run.step - 1)
      BY <2>3
    <3>. QED
      BY <1>7, <1>9, <2>2, <3>1
  <2>5. \A o \in run.outcomes : o.of = s => o.was = "good"
    BY <1>5, <1>6, <1>9 DEF Telling
  <2>. QED
    BY <2>4, <2>5 DEF Found
<1>10. ASSUME run.program \in {"doctor_all", "install"}
       PROVE  /\ \A s \in {"server", "governor_mcp"} : Found(run, s) = {"good"}
              /\ "bad" \notin Found(run, "governor")
              /\ "hangs" \notin Found(run, "receipts")
  <2>1. stage = ShallowChecks
    BY <1>2, <1>4, <1>10, LastStages
  <2>2. Len(ShallowChecks) = 5 /\ ShallowChecks[2].of = "server"
        /\ ShallowChecks[4].of = "governor_mcp"
    BY <1>10, CoreFits DEF ShallowChecks
  <2>. HIDE DEF stage, run
  <2>3. run.step = 6
    BY <1>2, <1>4, <2>1, <2>2
  <2>4. ASSUME NEW s \in {"server", "governor_mcp"}
        PROVE  Found(run, s) = {"good"}
    <3>1. \E o \in run.outcomes : o.of = s
      <4>1. 2 \in 1 .. (run.step - 1) /\ 4 \in 1 .. (run.step - 1)
        BY <2>3
      <4>. QED
        BY <1>7, <2>1, <2>2, <4>1
    <3>2. \A o \in run.outcomes : o.of = s => o.was = "good"
      BY <1>5, <1>6, <1>10 DEF Telling
    <3>. QED
      BY <3>1, <3>2 DEF Found
  <2>5. "bad" \notin Found(run, "governor") /\ "hangs" \notin Found(run, "receipts")
    BY <1>5, <1>6, <1>10 DEF Found, Telling
  <2>. QED
    BY <2>4, <2>5
<1>. QED
  BY <1>9, <1>10

\* A run ends.
LEMMA RunEnds ==
    ASSUME HealthInv, NEW c \in Checkers, checkRun' = [checkRun EXCEPT ![c] = NoRun]
    PROVE  /\ checkRun' \in [Checkers -> RunRecord \union {NoRun}]
           /\ \A d \in Checkers : RunTrue(checkRun'[d])
<1>1. checkRun \in [Checkers -> RunRecord \union {NoRun}] /\ \A d \in Checkers : RunTrue(checkRun[d])
  BY DEF HealthInv, HealthTyped
<1>2. ASSUME NEW d \in Checkers
      PROVE  RunTrue(checkRun'[d])
  <2>1. checkRun'[d] = IF d = c THEN NoRun ELSE checkRun[d]
    BY <1>1
  <2>. QED
    BY <1>1, <2>1, NoRunIsTrue
<1>. QED
  BY <1>1, <1>2

LEMMA EndDailyInv ==
    ASSUME HealthInv, NEW c \in Checkers, EndDaily(c)
    PROVE  HealthInv'
<1>. DEFINE outcomes == checkRun[c].outcomes
<1>1. /\ HealthTyped /\ GreenIsEarned /\ StageEnded(c) /\ checkRun[c].program = "daily"
      /\ checkRun' = [checkRun EXCEPT ![c] = NoRun]
      /\ condition' = condition /\ bundle' = bundle /\ checksDone' = checksDone
  BY DEF HealthInv, EndDaily
<1>2. /\ checkRun' \in [Checkers -> RunRecord \union {NoRun}]
      /\ \A d \in Checkers : RunTrue(checkRun'[d])
  BY <1>1, RunEnds
<1>3. outcomes \subseteq Outcomes /\ LastStage(c)
  <2>1. Busy(c) /\ checkRun[c] \in RunRecord /\ RunTrue(checkRun[c])
    BY <1>1, BusyRuns DEF HealthInv, StageEnded
  <2>2. checkRun[c] # NoRun /\ checkRun[c].program \in Programs /\ outcomes \subseteq Outcomes
    BY <2>1, RunsAreRuns
  <2>3. checkRun[c].stage \in 1 .. Len(Stages(checkRun[c].program))
    BY <2>1, <2>2 DEF RunTrue, SeenSoFar
  <2>4. Len(Stages(checkRun[c].program)) = 1
    BY <1>1, <2>2, LastStages
  <2>. QED
    BY <2>2, <2>3, <2>4 DEF LastStage
<1>4. CASE Crashed(c)
  <2>1. daily' = daily
    BY <1>4 DEF EndDaily
  <2>. QED
    BY <1>1, <1>2, <2>1 DEF HealthInv, HealthTyped, GreenIsEarned, Found
<1>5. CASE ~Crashed(c)
  <2>. DEFINE ok == Clean(outcomes)
  <2>1. daily' = [ok |-> ok, outcomes |-> outcomes] /\ ok \in BOOLEAN
    BY <1>5 DEF EndDaily, Clean
  <2>2. ok => \A s \in {"http", "unit"} : Found(checkRun[c], s) = {"good"}
    BY <1>1, <1>3, CleanRuns
  <2>. HIDE DEF ok
  <2>3. daily'.ok = ok /\ daily'.outcomes = outcomes
    BY <2>1
  <2>4. GreenIsEarned'
    <3>1. \A s : Found(daily, s)' = Found(checkRun[c], s)
      BY <2>3 DEF Found
    <3>2. \A s : Found(bundle, s)' = Found(bundle, s)
      BY <1>1 DEF Found
    <3>. QED
      BY <1>1, <2>2, <2>3, <3>1, <3>2 DEF GreenIsEarned
  <2>5. HealthTyped'
    <3>1. daily' \in [ok : BOOLEAN, outcomes : SUBSET Outcomes]
      BY <1>3, <2>1
    <3>. QED
      BY <1>1, <1>2, <3>1 DEF HealthTyped
  <2>. QED
    BY <1>2, <2>4, <2>5 DEF HealthInv
<1>. QED
  BY <1>4, <1>5

LEMMA EndDoctorInv ==
    ASSUME HealthInv, NEW c \in Checkers, EndDoctor(c)
    PROVE  HealthInv'
<1>. DEFINE outcomes == checkRun[c].outcomes
            ok == Clean(outcomes)
<1>1. /\ HealthTyped /\ GreenIsEarned /\ StageEnded(c) /\ LastStage(c)
      /\ checkRun[c].program \in {"doctor_all", "install"}
      /\ checkRun' = [checkRun EXCEPT ![c] = NoRun]
      /\ condition' = condition /\ daily' = daily /\ checksDone' = checksDone
  BY DEF HealthInv, EndDoctor
<1>2. /\ checkRun' \in [Checkers -> RunRecord \union {NoRun}]
      /\ \A d \in Checkers : RunTrue(checkRun'[d])
  BY <1>1, RunEnds
<1>3. outcomes \subseteq Outcomes
  <2>1. Busy(c) /\ checkRun[c] \in RunRecord
    BY <1>1, BusyRuns DEF StageEnded
  <2>. QED
    BY <2>1, RunsAreRuns
<1>4. /\ bundle' = [number |-> bundle.number + 1, ok |-> ok, outcomes |-> outcomes]
      /\ ok \in BOOLEAN
  BY DEF EndDoctor, Clean
<1>5. ok => /\ \A s \in {"server", "governor_mcp"} : Found(checkRun[c], s) = {"good"}
            /\ "bad" \notin Found(checkRun[c], "governor")
            /\ "hangs" \notin Found(checkRun[c], "receipts")
  BY <1>1, CleanRuns
<1>. HIDE DEF ok
<1>6. bundle'.ok = ok /\ bundle'.outcomes = outcomes
  BY <1>4
<1>7. GreenIsEarned'
  <2>1. \A s : Found(bundle, s)' = Found(checkRun[c], s)
    BY <1>6 DEF Found
  <2>2. \A s : Found(daily, s)' = Found(daily, s)
    BY <1>1 DEF Found
  <2>. QED
    BY <1>1, <1>5, <1>6, <2>1, <2>2 DEF GreenIsEarned
<1>8. HealthTyped'
  <2>1. bundle.number + 1 \in Nat
    BY <1>1 DEF HealthTyped
  <2>2. bundle' \in [number : Nat, ok : BOOLEAN, outcomes : SUBSET Outcomes]
    BY <1>3, <1>4, <2>1
  <2>. QED
    BY <1>1, <1>2, <2>2 DEF HealthTyped
<1>. QED
  BY <1>2, <1>7, <1>8 DEF HealthInv

LEMMA InitHealthInv == HealthInit => HealthInv
<1>. SUFFICES ASSUME HealthInit
              PROVE  HealthInv
  OBVIOUS
<1>1. HealthTyped
  <2>1. condition \in [Subjects -> Conditions]
    BY DEF HealthInit, Conditions
  <2>2. checkRun \in [Checkers -> RunRecord \union {NoRun}]
    BY DEF HealthInit
  <2>3. daily \in [ok : BOOLEAN, outcomes : SUBSET Outcomes]
    BY DEF HealthInit
  <2>4. bundle \in [number : Nat, ok : BOOLEAN, outcomes : SUBSET Outcomes]
    BY DEF HealthInit
  <2>. QED
    BY <2>1, <2>2, <2>3, <2>4 DEF HealthTyped, HealthInit
<1>2. \A c \in Checkers : RunTrue(checkRun[c])
  BY NoRunIsTrue DEF HealthInit
<1>3. ~daily.ok /\ ~bundle.ok
  BY DEF HealthInit
<1>. QED
  BY <1>1, <1>2, <1>3 DEF HealthInv, GreenIsEarned

LEMMA NextHealthInv == HealthInv /\ [HealthNext]_healthVars => HealthInv'
<1>. SUFFICES ASSUME HealthInv, [HealthNext]_healthVars
              PROVE  HealthInv'
  OBVIOUS
<1>1. ASSUME NEW c \in Checkers, EndPrinted(c) \/ DoctorAborts(c)
      PROVE  HealthInv'
  <2>1. /\ checkRun' = [checkRun EXCEPT ![c] = NoRun] /\ condition' = condition
        /\ daily' = daily /\ bundle' = bundle /\ checksDone' = checksDone
    BY <1>1 DEF EndPrinted, DoctorAborts
  <2>2. checksDone' \in Nat /\ NoRun \in RunRecord \union {NoRun}
    BY <2>1 DEF HealthInv, HealthTyped
  <2>. QED
    BY <2>1, <2>2, NoRunIsTrue, RunChanges
<1>2. ASSUME NEW s \in Subjects, PartChanges(s)
      PROVE  HealthInv'
  <2>1. condition' \in [Subjects -> Conditions]
    BY <1>2 DEF HealthInv, HealthTyped, PartChanges
  <2>2. checkRun' = checkRun /\ daily' = daily /\ bundle' = bundle /\ checksDone' = checksDone
    BY <1>2 DEF PartChanges
  <2>. QED
    BY <2>1, <2>2 DEF HealthInv, HealthTyped, GreenIsEarned, Found
<1>3. CASE UNCHANGED healthVars
  BY <1>3 DEF healthVars, HealthInv, HealthTyped, GreenIsEarned, Found
<1>. QED
  BY <1>1, <1>2, <1>3, StartCheckInv, MakeCheckInv, NextStageInv, EndDailyInv, EndDoctorInv
     DEF HealthNext

\* daily-health-check.py, line 121, and doctor_core.py: however the parts of the
\* system change and whichever check crashes or hangs, a green report is of a run
\* that found up what has to be up.
THEOREM GreenReportsAreEarned == HealthSpec => []GreenIsEarned
<1>1. HealthInv => GreenIsEarned
  BY DEF HealthInv
<1>. QED
  BY <1>1, InitHealthInv, NextHealthInv, PTL DEF HealthSpec

-----------------------------------------------------------------------------
(* The numbers of the runs and of the receipts. *)

\* The runs under way, by their numbers.
UnderWay == {checkRun[c].number : c \in {d \in Checkers : Busy(d)}}

\* No two runs have a number, and each that was started has written at most one
\* receipt, or is still under way; what a run, or an installer, has seen of the
\* receipts is not ahead of them.
HealthCounted ==
    /\ checksDone <= MaxChecks /\ turns \in 0..MaxTurns
    /\ UnderWay \subseteq 1..checksDone
    /\ \A c, d \in Checkers :
          Busy(c) /\ Busy(d) /\ checkRun[c].number = checkRun[d].number => c = d
    /\ bundle.number + Cardinality(UnderWay) <= checksDone
    /\ \A c \in Checkers : Busy(c) => checkRun[c].after <= bundle.number
    /\ summary \in [after : 0..bundle.number, receipt : 0..bundle.number]

LEMMA FewUnderWay ==
    ASSUME HealthInv, HealthCounted
    PROVE  IsFiniteSet(UnderWay) /\ Cardinality(UnderWay) \in Nat /\ bundle.number <= checksDone
<1>1. checksDone \in Nat /\ bundle.number \in Nat
  BY DEF HealthInv, HealthTyped
<1>2. IsFiniteSet(1..checksDone)
  BY <1>1, FS_Interval
<1>3. IsFiniteSet(UnderWay) /\ Cardinality(UnderWay) \in Nat
  BY <1>2, FS_Subset, FS_CardinalityType DEF HealthCounted
<1>. QED
  BY <1>1, <1>3 DEF HealthCounted

LEMMA StartCheckCounted ==
    ASSUME HealthInv, HealthCounted, NEW c \in Checkers, NEW program \in Programs,
           StartCheck(c, program)
    PROVE  HealthCounted'
<1>. DEFINE r == [program |-> program, number |-> checksDone + 1, stage |-> 1, step |-> 1,
                  outcomes |-> {}, after |-> bundle.number]
<1>1. /\ checksDone \in Nat /\ bundle.number \in Nat /\ MaxChecks \in Nat
      /\ checkRun \in [Checkers -> RunRecord \union {NoRun}]
  BY HealthAssumption DEF HealthInv, HealthTyped
<1>2. /\ checkRun' = [checkRun EXCEPT ![c] = r] /\ ~Busy(c) /\ checksDone < MaxChecks
      /\ bundle' = bundle /\ summary' = summary /\ turns' = turns
      /\ checksDone' = checksDone + 1
  BY DEF StartCheck
<1>3. r \in RunRecord /\ r.number = checksDone + 1 /\ r.after = bundle.number
  BY <1>1 DEF RunRecord
<1>. HIDE DEF r
<1>4. /\ checkRun'[c] = r /\ Busy(c)'
      /\ \A d \in Checkers : d # c => checkRun'[d] = checkRun[d] /\ (Busy(d)' <=> Busy(d))
  BY <1>1, <1>2, <1>3, RunsAreRuns DEF Busy
<1>5. UnderWay' = UnderWay \union {checksDone + 1}
  BY <1>2, <1>3, <1>4 DEF UnderWay
<1>6. checksDone + 1 \notin UnderWay /\ UnderWay' \subseteq 1..checksDone'
  BY <1>1, <1>2, <1>5 DEF HealthCounted
<1>7. Cardinality(UnderWay') = Cardinality(UnderWay) + 1
  BY <1>5, <1>6, FewUnderWay, FS_AddElement
<1>8. \A d \in Checkers : Busy(d) => checkRun[d].number # checksDone + 1
  BY <1>6 DEF UnderWay
<1>9. \A d, e \in Checkers :
        Busy(d)' /\ Busy(e)' /\ checkRun'[d].number = checkRun'[e].number => d = e
  BY <1>2, <1>3, <1>4, <1>8 DEF HealthCounted
<1>10. bundle'.number + Cardinality(UnderWay') <= checksDone'
  BY <1>1, <1>2, <1>7, FewUnderWay DEF HealthCounted
<1>11. \A d \in Checkers : Busy(d)' => checkRun'[d].after <= bundle'.number
  BY <1>1, <1>2, <1>3, <1>4 DEF HealthCounted
<1>12. checksDone' <= MaxChecks
  BY <1>1, <1>2
<1>. QED
  BY <1>2, <1>6, <1>9, <1>10, <1>11, <1>12 DEF HealthCounted

\* A run that goes on counts as before.
LEMMA GoingOnCounted ==
    ASSUME HealthInv, HealthCounted, NEW c \in Checkers, Busy(c), RunGoesOn(c),
           bundle' = bundle, summary' = summary, turns' = turns, checksDone' = checksDone
    PROVE  HealthCounted'
<1>1. checkRun \in [Checkers -> RunRecord \union {NoRun}]
  BY DEF HealthInv, HealthTyped
<1>2. PICK r \in RunRecord :
        /\ checkRun' = [checkRun EXCEPT ![c] = r]
        /\ r.number = checkRun[c].number /\ r.after = checkRun[c].after
  BY DEF RunGoesOn
<1>3. \A d \in Checkers : /\ Busy(d)' <=> Busy(d)
                          /\ checkRun'[d].number = checkRun[d].number
                          /\ checkRun'[d].after = checkRun[d].after
  BY <1>1, <1>2, RunsAreRuns DEF Busy
<1>4. UnderWay' = UnderWay
  BY <1>3 DEF UnderWay
<1>. QED
  BY <1>3, <1>4 DEF HealthCounted

\* One that ends makes room for a receipt.
LEMMA EndingCounted ==
    ASSUME HealthInv, HealthCounted, NEW c \in Checkers, Busy(c),
           checkRun' = [checkRun EXCEPT ![c] = NoRun],
           turns' = turns, checksDone' = checksDone,
           bundle'.number \in {bundle.number, bundle.number + 1},
           summary' \in [after : 0..bundle'.number, receipt : 0..bundle'.number]
    PROVE  HealthCounted'
<1>1. /\ checkRun \in [Checkers -> RunRecord \union {NoRun}]
      /\ checksDone \in Nat /\ bundle.number \in Nat
  BY DEF HealthInv, HealthTyped
<1>2. /\ ~Busy(c)'
      /\ \A d \in Checkers : d # c => checkRun'[d] = checkRun[d] /\ (Busy(d)' <=> Busy(d))
  BY <1>1 DEF Busy
<1>3. checkRun[c].number \in UnderWay /\ UnderWay' = UnderWay \ {checkRun[c].number}
  <2>1. ASSUME NEW n
        PROVE  n \in UnderWay' <=> n \in UnderWay /\ n # checkRun[c].number
    <3>1. n \in UnderWay' <=> \E d \in Checkers : Busy(d)' /\ n = checkRun'[d].number
      BY DEF UnderWay
    <3>2. n \in UnderWay <=> \E d \in Checkers : Busy(d) /\ n = checkRun[d].number
      BY DEF UnderWay
    <3>. QED
      BY <1>2, <3>1, <3>2 DEF HealthCounted
  <2>. QED
    BY <2>1 DEF UnderWay
<1>4. Cardinality(UnderWay') = Cardinality(UnderWay) - 1
  BY <1>3, FewUnderWay, FS_RemoveElement
<1>5. bundle'.number + Cardinality(UnderWay') <= checksDone'
  BY <1>1, <1>4, FewUnderWay DEF HealthCounted
<1>6. \A d \in Checkers : Busy(d)' => checkRun'[d].after <= bundle'.number
  <2>. SUFFICES ASSUME NEW d \in Checkers, Busy(d)'
                PROVE  checkRun'[d].after <= bundle'.number
    OBVIOUS
  <2>1. checkRun'[d] = checkRun[d] /\ Busy(d)
    BY <1>2
  <2>2. checkRun[d].after \in Nat /\ checkRun[d].after <= bundle.number
    BY <2>1, BusyRuns, RunsAreRuns DEF HealthInv, HealthCounted
  <2>. QED
    BY <1>1, <2>1, <2>2
<1>7. UnderWay' \subseteq 1..checksDone'
  BY <1>3 DEF HealthCounted
<1>8. \A d, e \in Checkers :
        Busy(d)' /\ Busy(e)' /\ checkRun'[d].number = checkRun'[e].number => d = e
  BY <1>2 DEF HealthCounted
<1>. QED
  BY <1>5, <1>6, <1>7, <1>8 DEF HealthCounted

\* What an installer shows is no later than the newest receipt.
LEMMA ShownInTime ==
    ASSUME HealthInv, HealthCounted, NEW c \in Checkers, Busy(c), NEW newest,
           newest.number \in Nat, bundle.number <= newest.number
    PROVE  Shown(c, newest) \in [after : 0..newest.number, receipt : 0..newest.number]
<1>1. bundle.number \in Nat /\ checkRun[c].after \in Nat /\ checkRun[c].after <= bundle.number
  BY BusyRuns, RunsAreRuns DEF HealthInv, HealthTyped, HealthCounted
<1>2. summary \in [after : 0..newest.number, receipt : 0..newest.number]
  BY <1>1 DEF HealthCounted
<1>. QED
  BY <1>1, <1>2 DEF Shown

LEMMA HealthCountedInductive ==
    /\ HealthInit => HealthCounted
    /\ HealthInv /\ HealthCounted /\ [HealthNext]_healthVars => HealthCounted'
<1>1. HealthInit => HealthCounted
  <2>. SUFFICES ASSUME HealthInit
                PROVE  HealthCounted
    OBVIOUS
  <2>1. /\ checksDone = 0 /\ turns = 0 /\ bundle.number = 0 /\ \A c \in Checkers : ~Busy(c)
        /\ summary = [after |-> 0, receipt |-> 0]
    BY DEF HealthInit, Busy
  <2>2. UnderWay = {}
    BY <2>1 DEF UnderWay
  <2>3. Cardinality(UnderWay) = 0
    BY <2>2, FS_EmptySet
  <2>. QED
    BY <2>1, <2>2, <2>3, HealthAssumption DEF HealthCounted
<1>2. ASSUME HealthInv, HealthCounted, [HealthNext]_healthVars
      PROVE  HealthCounted'
  <2>1. ASSUME NEW c \in Checkers, MakeCheck(c) \/ NextStage(c)
        PROVE  HealthCounted'
    <3>1. /\ Busy(c) /\ bundle' = bundle /\ summary' = summary /\ turns' = turns
          /\ checksDone' = checksDone
      BY <2>1 DEF MakeCheck, NextStage, StageEnded
    <3>2. RunGoesOn(c)
      BY <1>2, <2>1, MakeCheckInv, NextStageInv
    <3>. QED
      BY <1>2, <3>1, <3>2, GoingOnCounted
  <2>2. ASSUME NEW c \in Checkers, EndDaily(c) \/ EndPrinted(c)
        PROVE  HealthCounted'
    <3>1. /\ Busy(c) /\ checkRun' = [checkRun EXCEPT ![c] = NoRun] /\ bundle' = bundle
          /\ summary' = summary /\ turns' = turns /\ checksDone' = checksDone
      BY <2>2 DEF EndDaily, EndPrinted, StageEnded
    <3>2. summary \in [after : 0..bundle.number, receipt : 0..bundle.number]
      BY <1>2 DEF HealthCounted
    <3>. QED
      BY <1>2, <3>1, <3>2, EndingCounted
  <2>3. ASSUME NEW c \in Checkers, EndDoctor(c)
        PROVE  HealthCounted'
    <3>. DEFINE ok == Clean(checkRun[c].outcomes)
                receipt == [number |-> bundle.number + 1, ok |-> ok,
                            outcomes |-> checkRun[c].outcomes]
    <3>1. /\ Busy(c) /\ checkRun' = [checkRun EXCEPT ![c] = NoRun] /\ bundle' = receipt
          /\ summary' = Shown(c, receipt) /\ turns' = turns /\ checksDone' = checksDone
      BY <2>3 DEF EndDoctor, StageEnded
    <3>. HIDE DEF ok
    <3>2. receipt.number = bundle.number + 1 /\ bundle.number \in Nat
      BY <1>2 DEF HealthInv, HealthTyped
    <3>. HIDE DEF receipt
    <3>3. Shown(c, receipt) \in [after : 0..receipt.number, receipt : 0..receipt.number]
      BY <1>2, <3>1, <3>2, ShownInTime
    <3>. QED
      BY <1>2, <3>1, <3>2, <3>3, EndingCounted
  <2>4. ASSUME NEW c \in Checkers, DoctorAborts(c)
        PROVE  HealthCounted'
    <3>1. /\ Busy(c) /\ checkRun' = [checkRun EXCEPT ![c] = NoRun] /\ bundle' = bundle
          /\ summary' = Shown(c, bundle) /\ turns' = turns /\ checksDone' = checksDone
      BY <2>4 DEF DoctorAborts
    <3>2. bundle.number \in Nat
      BY <1>2 DEF HealthInv, HealthTyped
    <3>3. Shown(c, bundle) \in [after : 0..bundle.number, receipt : 0..bundle.number]
      BY <1>2, <3>1, <3>2, ShownInTime
    <3>. QED
      BY <1>2, <3>1, <3>2, <3>3, EndingCounted
  <2>5. ASSUME NEW s \in Subjects, PartChanges(s)
        PROVE  HealthCounted'
    <3>1. /\ checkRun' = checkRun /\ bundle' = bundle /\ summary' = summary
          /\ checksDone' = checksDone
      BY <2>5 DEF PartChanges
    <3>2. turns' \in 0..MaxTurns
      BY <1>2, <2>5, HealthAssumption DEF PartChanges, HealthCounted
    <3>3. UnderWay' = UnderWay /\ \A c : Busy(c)' <=> Busy(c)
      BY <3>1 DEF UnderWay, Busy
    <3>. QED
      BY <1>2, <3>1, <3>2, <3>3 DEF HealthCounted
  <2>6. CASE UNCHANGED healthVars
    <3>1. /\ checkRun' = checkRun /\ bundle' = bundle /\ summary' = summary
          /\ checksDone' = checksDone /\ turns' = turns
      BY <2>6 DEF healthVars
    <3>2. UnderWay' = UnderWay /\ \A c : Busy(c)' <=> Busy(c)
      BY <3>1 DEF UnderWay, Busy
    <3>. QED
      BY <1>2, <3>1, <3>2 DEF HealthCounted
  <2>. QED
    BY <1>2, <2>1, <2>2, <2>3, <2>4, <2>5, <2>6, StartCheckCounted DEF HealthNext
<1>. QED
  BY <1>1, <1>2

\* daily-health-check.py, doctor_core.py and doctor-all.py: every run is at a check of a
\* stage of its program, or past the last one, and no receipt, nor what an installer
\* shows of one, is numbered beyond the runs that were started.
THEOREM HealthTypeCorrect == HealthSpec => []HealthTypeOK
<1>1. HealthInv /\ HealthCounted => HealthTypeOK
  <2>. SUFFICES ASSUME HealthInv, HealthCounted
                PROVE  HealthTypeOK
    OBVIOUS
  <2>1. /\ condition \in [Subjects -> Conditions] /\ checksDone \in Nat
        /\ daily \in [ok : BOOLEAN, outcomes : SUBSET Outcomes]
        /\ bundle \in [number : Nat, ok : BOOLEAN, outcomes : SUBSET Outcomes]
    BY DEF HealthInv, HealthTyped
  <2>2. ASSUME NEW c \in Checkers, Busy(c)
        PROVE  /\ checkRun[c].program \in Programs
               /\ checkRun[c].step \in 1..(Len(Stage(c)) + 1)
               /\ checkRun[c].outcomes \subseteq Outcomes
    <3>1. checkRun[c] \in RunRecord /\ RunTrue(checkRun[c])
      BY <2>2, BusyRuns DEF HealthInv
    <3>. QED
      BY <3>1, RunsAreRuns DEF RunTrue, SeenSoFar, Stage
  <2>3. bundle.number \in 0..MaxChecks /\ checksDone \in 0..MaxChecks
    BY <2>1, FewUnderWay, HealthAssumption DEF HealthCounted
  <2>4. summary \in [after : 0..MaxChecks, receipt : 0..MaxChecks]
    BY <2>3, HealthAssumption DEF HealthCounted
  <2>. QED
    BY <2>1, <2>2, <2>3, <2>4 DEF HealthTypeOK, HealthCounted
<1>. QED
  BY <1>1, InitHealthInv, NextHealthInv, HealthCountedInductive, PTL DEF HealthSpec

-----------------------------------------------------------------------------
(* The installers. *)

Marks == {Managed, Start, End, Obsolete}
Texts == Seq(Settings \union Marks)

\* Wherever `x` stands in the text, it is the same place.
AtMostOnce(text, x) == \A m, n \in DOMAIN text : text[m] = x /\ text[n] = x => m = n
Absent(text, x) == \A n \in DOMAIN text : text[n] /= x

\* What a text of this kind of file can look like, however often it was cut.  The
\* end of a block comes after a start; only a cut leaves a start alone.
Fits(text) ==
    /\ text \in Texts
    /\ AtMostOnce(text, Managed)
    /\ kind = "rules" => Absent(text, Managed)
    /\ kind /= "hooks" => Absent(text, Obsolete)
    /\ AtMostOnce(text, End)
    /\ \A n \in DOMAIN text :
          /\ text[n] \in {Start, End} => kind = "rules"
          /\ text[n] = End => \E m \in DOMAIN text : m < n /\ text[m] = Start

\* There is one start at most, and its end comes after it.
Whole(text) ==
    /\ AtMostOnce(text, Start)
    /\ \A n \in DOMAIN text :
          text[n] = Start => \E m \in DOMAIN text : m > n /\ text[m] = End

\* What the user wrote for good does not stand where an installer overwrites it.
Apart(text) == \A i \in InstallersPart(text) : text[i] \notin past.wrote

\* The file, or one of the backups, holds x.
StillThere(x) ==
    \/ \E n \in DOMAIN file.text : file.text[n] = x
    \/ \E m \in DOMAIN backups : \E n \in DOMAIN backups[m] : backups[m][n] = x

InstallTyped ==
    /\ kind \in Kinds /\ kind \in AllKinds
    /\ file \in [exists : BOOLEAN, text : Texts, parses : BOOLEAN]
    /\ ~file.exists => file.text = <<>>
    /\ backups \in Seq(Texts)
    /\ inst \in [Installers -> [pc : {"idle", "backup", "write"}, read : Texts \union Seq(Nat)]]
    /\ past \in [wrote : SUBSET Settings, installs : Nat, overlap : BOOLEAN,
                 crashed : BOOLEAN, broken : BOOLEAN, sound : BOOLEAN]

\* The file fits its kind, and so does what an installer is about to rewrite; the
\* installer of "mcp" holds the number of a backup, at most one beyond those there.
TextsFit ==
    /\ Fits(file.text)
    /\ \A p \in Installers :
          /\ inst[p].pc = "write" /\ kind /= "mcp" => Fits(inst[p].read)
          /\ inst[p].pc = "backup" =>
                kind = "mcp" /\ \E n \in 1..(Len(backups) + 1) : inst[p].read = <<n>>

\* One at a time: nobody is at work with another, or when an install just ended.
OneAtATime ==
    /\ ~past.overlap => \A p, q \in Installers :
          inst[p].pc /= "idle" /\ inst[q].pc /= "idle" => p = q
    /\ past.sound => ~past.overlap /\ \A p \in Installers : inst[p].pc = "idle"

\* Nothing but "mcp" has gone wrong with the file.
Unharmed == ~past.overlap /\ ~past.crashed /\ (kind \in Json => ~past.broken)

\* What an installer has read is still what the file holds, unless it needs nothing of
\* it; for "mcp", the file is out of the way before it is written, and the free backup
\* is still free.
StillTrue ==
    /\ kind = "rules" /\ ~past.crashed => Whole(file.text) /\
          \A p \in Installers : inst[p].pc = "write" => Whole(inst[p].read)
    /\ kind \in Json /\ ~past.crashed /\ ~past.broken => file.parses
    /\ Unharmed => Apart(file.text)
    /\ \A p \in Installers :
          /\ Unharmed /\ inst[p].pc = "write" /\ kind /= "mcp" =>
                inst[p].read = file.text \/ (kind = "pro" /\ inst[p].read = <<>>)
          /\ kind = "mcp" /\ ~past.overlap /\ inst[p].pc = "write" => ~file.exists
          /\ kind = "mcp" /\ ~past.overlap /\ inst[p].pc = "backup" =>
                inst[p].read = <<Len(backups) + 1>>

Survives ==
    \/ past.overlap
    \/ kind /= "mcp" /\ past.crashed
    \/ kind \in Json /\ past.broken
    \/ \A x \in past.wrote : StillThere(x)

Once == past.sound =>
    IF kind = "rules" THEN ~Absent(file.text, End)
    ELSE ~Absent(file.text, Managed) /\ Absent(file.text, Obsolete)

InstallInv == InstallTyped /\ TextsFit /\ OneAtATime /\ StillTrue /\ Survives /\ Once

\* The first place of a mark in a text, as the rule installer finds it.
LEMMA FirstIsFirst ==
    ASSUME NEW S, NEW text \in Seq(S), NEW x, Contains(text, x)
    PROVE  LET k == FirstPlace(text, x) IN
           /\ k \in DOMAIN text /\ text[k] = x
           /\ \A j \in DOMAIN text : j < k => text[j] /= x
<1> DEFINE I == {i \in 1..Len(text) : text[i] = x}
<1>1. I /= {} /\ I \subseteq Nat
    BY DEF Contains
<1>2. PICK k \in I : \A j \in I : <<j, k>> \notin OpToRel(<, Nat)
    BY <1>1, NatLessThanWellFounded, WFMin
<1>3. \A j \in I : k <= j
    <2> TAKE j \in I
    <2>1. j \in Nat /\ k \in Nat
        BY <1>1
    <2>2. ~(j < k)
        <3> HIDE DEF I
        <3> QED BY <1>2, <2>1 DEF OpToRel
    <2> HIDE DEF I
    <2> QED
        BY <2>1, <2>2
<1>4. Min(I) \in I /\ \A j \in I : Min(I) <= j
    BY <1>2, <1>3 DEF Min
<1>5. FirstPlace(text, x) = Min(I)
    BY <1>1 DEF FirstPlace, SelectInSeq
<1> DEFINE first == FirstPlace(text, x)
<1>6. first \in I /\ \A j \in I : first <= j
    BY <1>4, <1>5
<1> HIDE DEF first
<1>7. /\ first \in DOMAIN text /\ text[first] = x
      /\ \A j \in DOMAIN text : j < first => text[j] /= x
    BY <1>6
<1> QED
    BY <1>7 DEF first

\* Counting the chosen positions up to each is a numbering of them, so that `TextAt`
\* keeps what stands there, each place once, and nothing else.
LEMMA TextAtKeeps ==
    ASSUME NEW S, NEW text \in Seq(S), NEW places \in SUBSET DOMAIN text
    PROVE  LET w == TextAt(text, places) IN
           /\ w \in Seq(S)
           /\ \A n \in DOMAIN w : \E i \in places : text[i] = w[n]
           /\ \A i \in places : \E n \in DOMAIN w : w[n] = text[i]
           /\ \A x : AtMostOnce(text, x) => AtMostOnce(w, x)
<1> DEFINE upto(i) == {j \in places : j <= i}
           rank == [i \in places |-> Cardinality(upto(i))]
           c == Cardinality(places)
           place(n) == CHOOSE i \in places : Cardinality(upto(i)) = n
<1>1. IsFiniteSet(DOMAIN text) /\ places \subseteq DOMAIN text /\ DOMAIN text = 1..Len(text)
    BY FS_Interval
<1>2. IsFiniteSet(places) /\ c \in Nat
    BY <1>1, FS_Subset, FS_CardinalityType
<1>3. \A i \in places : IsFiniteSet(upto(i)) /\ Cardinality(upto(i)) \in 1..c
    <2> TAKE i \in places
    <2>1. IsFiniteSet(upto(i)) /\ Cardinality(upto(i)) <= c
        BY <1>2, FS_Subset
    <2>2. i \in upto(i)
        BY <1>1
    <2>3. Cardinality(upto(i)) \in Nat /\ Cardinality(upto(i)) /= 0
        <3> HIDE DEF upto
        <3> QED BY <2>1, <2>2, FS_CardinalityType, FS_EmptySet
    <2> QED
        BY <1>2, <2>1, <2>3
<1>4. \A i, k \in places : i < k => Cardinality(upto(i)) /= Cardinality(upto(k))
    <2> SUFFICES ASSUME NEW i \in places, NEW k \in places, i < k
                 PROVE  Cardinality(upto(i)) /= Cardinality(upto(k))
        OBVIOUS
    <2>1. upto(i) \in SUBSET upto(k) /\ k \in upto(k) /\ k \notin upto(i)
        BY <1>1
    <2>2. IsFiniteSet(upto(k))
        BY <1>3
    <2> HIDE DEF upto
    <2> QED
        BY <2>1, <2>2, FS_Subset
<1>5. rank \in Injection(places, 1..c)
    <2>1. rank \in [places -> 1..c]
        BY <1>3
    <2>2. \A i, k \in places : rank[i] = rank[k] => i = k
        <3> TAKE i, k \in places
        <3>1. i \in Nat /\ k \in Nat
            BY <1>1
        <3>2. rank[i] = Cardinality(upto(i)) /\ rank[k] = Cardinality(upto(k))
            OBVIOUS
        <3>3. i < k => Cardinality(upto(i)) /= Cardinality(upto(k))
            BY <1>4
        <3>4. k < i => Cardinality(upto(k)) /= Cardinality(upto(i))
            BY <1>4
        <3> HIDE DEF rank, upto
        <3> QED
            BY <3>1, <3>2, <3>3, <3>4
    <2> HIDE DEF rank, c
    <2> QED
        BY <2>1, <2>2 DEF Injection, IsInjective
<1>6. rank \in Surjection(places, 1..c)
    <2>1. IsFiniteSet(1..c) /\ Cardinality(1..c) = c
        <3> HIDE DEF c
        <3>1. c \in Nat BY <1>2
        <3> QED BY <3>1, FS_Interval
    <2> HIDE DEF rank
    <2> QED
        BY <1>5, <2>1, FS_Injection
<1>7. \A n \in 1..c : place(n) \in places /\ Cardinality(upto(place(n))) = n
    <2> TAKE n \in 1..c
    <2>1. \E i \in places : rank[i] = n
        <3> HIDE DEF rank, c
        <3> QED BY <1>6 DEF Surjection
    <2>2. \E i \in places : Cardinality(upto(i)) = n
        BY <2>1
    <2> HIDE DEF upto
    <2> QED
        BY <2>2
<1>8. \A i \in places : \E n \in 1..c : place(n) = i
    <2> TAKE i \in places
    <2> DEFINE n == Cardinality(upto(i))
    <2>1. n \in 1..c
        BY <1>3
    <2>2. place(n) \in places /\ Cardinality(upto(place(n))) = n
        <3> HIDE DEF n, place, c
        <3> QED BY <1>7, <2>1
    <2> DEFINE p == place(n)
    <2>3. p \in places /\ p \in Nat /\ i \in Nat /\ (p < i \/ i < p \/ p = i)
        <3>1. p \in places /\ i \in places
            BY <2>2
        <3> HIDE DEF p
        <3> QED BY <1>1, <3>1
    <2>4. p = i
        <3>1. Cardinality(upto(p)) = Cardinality(upto(i))
            BY <2>2
        <3> HIDE DEF p, upto, n
        <3> QED BY <1>4, <2>3, <3>1
    <2> QED
        BY <2>1, <2>4
<1> DEFINE w == [n \in 1..c |-> text[place(n)]]
<1>9. TextAt(text, places) = w
    BY DEF TextAt
<1> HIDE DEF c, place
<1>10. w \in Seq(S) /\ DOMAIN w = 1..c
    <2>1. \A n \in 1..c : w[n] \in S
        <3> TAKE n \in 1..c
        <3>1. place(n) \in DOMAIN text
            BY <1>7
        <3> QED
            BY <3>1
    <2> QED
        BY <1>2, <2>1
<1>11. \A n \in DOMAIN w : \E i \in places : text[i] = w[n]
    BY <1>7, <1>10
<1>12. \A i \in places : \E n \in DOMAIN w : w[n] = text[i]
    BY <1>8, <1>10
<1>13. ASSUME NEW x, AtMostOnce(text, x)
       PROVE  AtMostOnce(w, x)
    <2> SUFFICES ASSUME NEW m \in 1..c, NEW n \in 1..c, w[m] = x, w[n] = x
                 PROVE  m = n
        BY <1>10 DEF AtMostOnce
    <2>1. place(m) \in DOMAIN text /\ place(n) \in DOMAIN text
          /\ text[place(m)] = x /\ text[place(n)] = x
        BY <1>7
    <2>2. place(m) = place(n)
        BY <1>13, <2>1 DEF AtMostOnce
    <2> QED
        BY <1>7, <2>2
<1> QED
    BY <1>9, <1>10, <1>11, <1>12, <1>13

\* The marks are four, and the user writes none of them.
LEMMA MarksApart ==
    /\ Managed \in Marks /\ Start \in Marks /\ End \in Marks /\ Obsolete \in Marks
    /\ \A x \in Settings : x \notin Marks
    /\ Managed /= Start /\ Managed /= End /\ Managed /= Obsolete
    /\ Start /= End /\ Start /= Obsolete /\ End /= Obsolete
BY InstallAssumption DEF Marks, Managed, Start, End, Obsolete

\* What is cut off a text changes nothing of what it can look like.
LEMMA CutFits ==
    ASSUME NEW text, Fits(text), NEW n \in 0..Len(text)
    PROVE  Fits(SubSeq(text, 1, n))
<1> DEFINE cut == SubSeq(text, 1, n)
<1>1. text \in Texts /\ n \in Nat /\ n <= Len(text)
    BY DEF Fits, Texts
<1>2. cut \in Texts /\ DOMAIN cut = 1..n /\ (\A i \in 1..n : cut[i] = text[i])
      /\ DOMAIN text = 1..Len(text)
    BY <1>1 DEF Texts
<1>3. \A x : AtMostOnce(text, x) => AtMostOnce(cut, x)
    BY <1>1, <1>2 DEF AtMostOnce
<1>4. \A x : Absent(text, x) => Absent(cut, x)
    BY <1>1, <1>2 DEF Absent
<1>5. \A i \in DOMAIN cut :
        /\ cut[i] \in {Start, End} => kind = "rules"
        /\ cut[i] = End => \E m \in DOMAIN cut : m < i /\ cut[m] = Start
    <2> SUFFICES ASSUME NEW i \in 1..n
                 PROVE  /\ cut[i] \in {Start, End} => kind = "rules"
                        /\ cut[i] = End => \E m \in DOMAIN cut : m < i /\ cut[m] = Start
        BY <1>2
    <2>1. i \in DOMAIN text /\ cut[i] = text[i]
        BY <1>1, <1>2
    <2>2. ASSUME cut[i] = End
          PROVE  \E m \in DOMAIN cut : m < i /\ cut[m] = Start
        <3>1. PICK m \in DOMAIN text : m < i /\ text[m] = Start
            BY <2>1, <2>2 DEF Fits
        <3>2. m \in 1..n
            BY <1>1, <1>2, <3>1
        <3> HIDE DEF cut
        <3> QED
            BY <1>2, <3>1, <3>2
    <2> HIDE DEF cut
    <2> QED
        BY <2>1, <2>2 DEF Fits
<1> HIDE DEF cut
<1>6. Fits(cut)
    BY <1>2, <1>3, <1>4, <1>5 DEF Fits
<1> QED
    BY <1>6 DEF cut

\* Other items in the place of those from s to e, which may be none.
Splice(text, s, e, mid) == SubSeq(text, 1, s - 1) \o mid \o SubSeq(text, e + 1, Len(text))

Spliced(new, text, s, e, mid) ==
    LET M == s - 1 + Len(mid)
        N == M + Len(text) - e IN
    /\ Len(new) = N
    /\ \A i \in 1..(s - 1) : new[i] = text[i]
    /\ \A i \in 1..Len(mid) : new[s - 1 + i] = mid[i]
    /\ \A i \in (M + 1)..N : new[i] = text[i + (e - M)]

LEMMA SpliceProperties ==
    ASSUME NEW S, NEW text \in Seq(S), NEW s \in 1..(Len(text) + 1),
           NEW e \in (s - 1)..Len(text), NEW mid \in Seq(S)
    PROVE  /\ Splice(text, s, e, mid) \in Seq(S)
           /\ Spliced(Splice(text, s, e, mid), text, s, e, mid)
<1> DEFINE L == Len(text)
           B == Len(mid)
           M == s - 1 + B
           N == M + L - e
           head == SubSeq(text, 1, s - 1)
           tail == SubSeq(text, e + 1, L)
<1>1. L \in Nat /\ B \in Nat /\ s \in Nat /\ e \in Nat /\ 1 <= s /\ s - 1 <= e /\ e <= L
    OBVIOUS
<1>2. head \in Seq(S) /\ Len(head) = s - 1 /\ \A i \in 1..(s - 1) : head[i] = text[i]
    <2>1. \A i \in 1..(s - 1) : text[i] \in S
        BY <1>1
    <2> QED
        BY <1>1, <2>1, SubSeqProperties
<1>3. tail \in Seq(S) /\ Len(tail) = L - e /\ \A i \in 1..(L - e) : tail[i] = text[e + i]
    <2>1. \A i \in (e + 1)..L : text[i] \in S
        BY <1>1
    <2> QED
        BY <1>1, <2>1, SubSeqProperties
<1> HIDE DEF head, tail
<1> DEFINE front == head \o mid
<1>4. front \in Seq(S) /\ Len(front) = M
      /\ \A i \in 1..M : front[i] = IF i <= s - 1 THEN head[i] ELSE mid[i - (s - 1)]
    <2>1. /\ front \in Seq(S) /\ Len(front) = Len(head) + Len(mid)
          /\ \A i \in 1..(Len(head) + Len(mid)) :
                front[i] = IF i <= Len(head) THEN head[i] ELSE mid[i - Len(head)]
        BY <1>2, ConcatProperties
    <2>2. Len(head) = s - 1 /\ Len(head) + Len(mid) = M
        BY <1>1, <1>2
    <2> HIDE DEF front, M
    <2> QED
        BY <2>1, <2>2
<1> HIDE DEF front
<1> DEFINE new == front \o tail
<1>5. new \in Seq(S) /\ Len(new) = N
      /\ \A i \in 1..N : new[i] = IF i <= M THEN front[i] ELSE tail[i - M]
    <2>1. /\ new \in Seq(S) /\ Len(new) = Len(front) + Len(tail)
          /\ \A i \in 1..(Len(front) + Len(tail)) :
                new[i] = IF i <= Len(front) THEN front[i] ELSE tail[i - Len(front)]
        BY <1>3, <1>4, ConcatProperties
    <2>2. Len(front) = M /\ Len(front) + Len(tail) = N
        BY <1>1, <1>3, <1>4
    <2> HIDE DEF new, M, N
    <2> QED
        BY <2>1, <2>2
<1>6. new = Splice(text, s, e, mid)
    BY DEF Splice, new, front, head, tail
<1> HIDE DEF new, L, B
<1>7. \A i \in 1..(s - 1) : new[i] = text[i]
    BY <1>1, <1>2, <1>4, <1>5
<1>8. \A i \in 1..B : new[s - 1 + i] = mid[i]
    <2> TAKE i \in 1..B
    <2>1. s - 1 + i \in 1..M /\ s - 1 + i \in 1..N /\ ~(s - 1 + i <= s - 1)
          /\ s - 1 + i - (s - 1) = i
        BY <1>1
    <2> QED
        BY <1>1, <1>4, <1>5, <2>1
<1>9. \A i \in (M + 1)..N : new[i] = text[i + (e - M)]
    <2> TAKE i \in (M + 1)..N
    <2>1. i \in 1..N /\ ~(i <= M) /\ i - M \in 1..(L - e) /\ e + (i - M) = i + (e - M)
        BY <1>1
    <2>2. new[i] = tail[i - M]
        BY <1>5, <2>1
    <2> QED
        BY <1>3, <2>1, <2>2
<1>10. Spliced(new, text, s, e, mid)
    BY <1>5, <1>7, <1>8, <1>9 DEF Spliced, L, B
<1> QED
    BY <1>5, <1>6, <1>10

\* What the user writes at n moves what stood from there on one place.
LEMMA InsertShifts ==
    ASSUME NEW text \in Texts, NEW n \in 1..(Len(text) + 1), NEW item \in Settings
    PROVE  LET new == InsertAt(text, n, item)
               L == Len(text) IN
           /\ new \in Texts /\ Len(new) = L + 1 /\ L \in Nat
           /\ DOMAIN text = 1..L /\ DOMAIN new = 1..(L + 1)
           /\ new[n] = item
           /\ \A i \in 1..(n - 1) : new[i] = text[i]
           /\ \A i \in (n + 1)..(L + 1) : i - 1 \in 1..L /\ new[i] = text[i - 1]
<1> DEFINE new == InsertAt(text, n, item)
           mid == <<item>>
           L == Len(text)
<1>1. text \in Seq(Settings \union Marks) /\ L \in Nat /\ n \in Nat /\ DOMAIN text = 1..L
    BY DEF Texts
<1>2. mid \in Seq(Settings \union Marks) /\ Len(mid) = 1 /\ mid[1] = item
    OBVIOUS
<1>3. new = Splice(text, n, n - 1, mid)
    <2> DEFINE next == n - 1 + 1
    <2>1. next = n
        BY <1>1
    <2>2. Splice(text, n, n - 1, mid) = SubSeq(text, 1, n - 1) \o mid \o SubSeq(text, next, L)
        BY DEF Splice
    <2> HIDE DEF next
    <2> QED
        BY <2>1, <2>2 DEF InsertAt
<1> HIDE DEF new, mid
<1>4. new \in Seq(Settings \union Marks) /\ Spliced(new, text, n, n - 1, mid)
    <2>1. n - 1 \in (n - 1)..Len(text)
        BY <1>1
    <2> QED
        BY <1>1, <1>2, <1>3, <2>1, SpliceProperties
<1> HIDE DEF L
<1>5. /\ Len(new) = L + 1 /\ \A i \in 1..(n - 1) : new[i] = text[i]
      /\ \A i \in (n + 1)..(L + 1) : new[i] = text[i - 1]
    <2>1. n - 1 + Len(mid) = n /\ n + L - (n - 1) = L + 1
        BY <1>1, <1>2
    <2>2. /\ Len(new) = L + 1 /\ \A i \in 1..(n - 1) : new[i] = text[i]
          /\ \A i \in (n + 1)..(L + 1) : new[i] = text[i + (n - 1 - n)]
        BY <1>4, <2>1 DEF Spliced, L
    <2> QED
        BY <1>1, <2>2
<1>6. new[n] = item
    <2>1. \A i \in 1..1 : new[n - 1 + i] = mid[i]
        BY <1>2, <1>4 DEF Spliced
    <2> QED
        BY <1>1, <1>2, <2>1
<1>7. new \in Texts /\ DOMAIN new = 1..(L + 1)
    BY <1>1, <1>4, <1>5 DEF Texts
<1>8. \A i \in (n + 1)..(L + 1) : i - 1 \in 1..L
    BY <1>1
<1> QED
    BY <1>1, <1>5, <1>6, <1>7, <1>8 DEF new, L

\* The user writes no mark, and what stood there before stands there still: in the
\* installer's part if it was there, and only then.
LEMMA InsertFits ==
    ASSUME NEW text, Fits(text), NEW n \in 1..(Len(text) + 1), NEW item \in Settings
    PROVE  LET new == InsertAt(text, n, item) IN
           /\ Fits(new) /\ n \in DOMAIN new /\ new[n] = item
           /\ Whole(text) => Whole(new)
           /\ \A x : ~Absent(text, x) => ~Absent(new, x)
           /\ \A i \in InstallersPart(new) :
                 i /= n => \E j \in InstallersPart(text) : new[i] = text[j]
<1> DEFINE new == InsertAt(text, n, item)
           L == Len(text)
           was(i) == IF i < n THEN i ELSE i - 1
           is(j) == IF j < n THEN j ELSE j + 1
<1>1. text \in Texts
    BY DEF Fits
<1>2. /\ new \in Texts /\ Len(new) = L + 1 /\ L \in Nat
      /\ DOMAIN text = 1..L /\ DOMAIN new = 1..(L + 1)
      /\ new[n] = item
      /\ \A i \in 1..(n - 1) : new[i] = text[i]
      /\ \A i \in (n + 1)..(L + 1) : i - 1 \in 1..L /\ new[i] = text[i - 1]
    BY <1>1, InsertShifts
<1>3. n \in 1..(L + 1) /\ n \in Nat
    OBVIOUS
<1> HIDE DEF new, L
<1>4. \A i \in 1..(L + 1) : i /= n => was(i) \in 1..L /\ new[i] = text[was(i)] /\ is(was(i)) = i
    <2> TAKE i \in 1..(L + 1)
    <2>1. CASE i < n
        BY <1>2, <1>3, <2>1
    <2>2. CASE i > n
        <3>1. i \in (n + 1)..(L + 1)
            BY <1>2, <1>3, <2>2
        <3> QED
            BY <1>2, <1>3, <2>2, <3>1
    <2> QED
        BY <1>3, <2>1, <2>2
<1>5. \A j \in 1..L : is(j) \in 1..(L + 1) /\ is(j) /= n /\ new[is(j)] = text[j]
    <2> TAKE j \in 1..L
    <2>1. CASE j < n
        BY <1>2, <1>3, <2>1
    <2>2. CASE ~(j < n)
        <3>1. j + 1 \in (n + 1)..(L + 1) /\ j + 1 - 1 = j
            BY <1>2, <1>3, <2>2
        <3> QED
            BY <1>2, <1>3, <2>2, <3>1
    <2> QED
        BY <2>1, <2>2
<1>6. \A i, k \in 1..(L + 1) : i /= n /\ k /= n => (i < k <=> was(i) < was(k))
    BY <1>2, <1>3
<1>7. \A i, k \in 1..L : i < k <=> is(i) < is(k)
    BY <1>2, <1>3
<1>8. item \notin Marks
    BY MarksApart
<1>9. \A x \in Marks, i \in 1..(L + 1) : new[i] = x => i /= n /\ was(i) \in 1..L /\ text[was(i)] = x
    BY <1>2, <1>4, <1>8
<1> HIDE DEF was, is
<1>10. ASSUME NEW x \in Marks, AtMostOnce(text, x)
       PROVE  AtMostOnce(new, x)
    <2> SUFFICES ASSUME NEW i \in 1..(L + 1), NEW k \in 1..(L + 1), new[i] = x, new[k] = x
                 PROVE  i = k
        BY <1>2 DEF AtMostOnce
    <2>1. was(i) = was(k)
        BY <1>2, <1>9, <1>10 DEF AtMostOnce
    <2> QED
        BY <1>4, <1>9, <2>1
<1>11. ASSUME NEW x \in Marks, Absent(text, x)
       PROVE  Absent(new, x)
    BY <1>2, <1>9, <1>11 DEF Absent
<1>12. \A x : ~Absent(text, x) => ~Absent(new, x)
    BY <1>2, <1>5 DEF Absent
<1>13. \A i \in DOMAIN new :
         /\ new[i] \in {Start, End} => kind = "rules"
         /\ new[i] = End => \E m \in DOMAIN new : m < i /\ new[m] = Start
    <2> TAKE i \in DOMAIN new
    <2>1. new[i] \in {Start, End} => kind = "rules"
        BY <1>2, <1>9, MarksApart DEF Fits
    <2>2. ASSUME new[i] = End
          PROVE  \E m \in DOMAIN new : m < i /\ new[m] = Start
        <3>1. i /= n /\ was(i) \in 1..L /\ text[was(i)] = End
            BY <1>2, <1>9, <2>2, MarksApart
        <3>2. PICK m \in 1..L : m < was(i) /\ text[m] = Start
            BY <1>2, <3>1 DEF Fits
        <3>3. is(m) < is(was(i)) /\ is(was(i)) = i /\ is(m) \in 1..(L + 1) /\ new[is(m)] = Start
            BY <1>2, <1>4, <1>5, <1>7, <3>1, <3>2
        <3> QED
            BY <1>2, <3>3
    <2> QED
        BY <2>1, <2>2
<1>14. Fits(new)
    BY <1>2, <1>10, <1>11, <1>13, MarksApart DEF Fits
<1>15. ASSUME Whole(text)
       PROVE  Whole(new)
    <2>1. AtMostOnce(new, Start)
        BY <1>10, <1>15, MarksApart DEF Whole
    <2>2. ASSUME NEW i \in 1..(L + 1), new[i] = Start
          PROVE  \E m \in 1..(L + 1) : m > i /\ new[m] = End
        <3>1. i /= n /\ was(i) \in 1..L /\ text[was(i)] = Start
            BY <1>9, <2>2, MarksApart
        <3>2. PICK m \in 1..L : m > was(i) /\ text[m] = End
            BY <1>2, <1>15, <3>1 DEF Whole
        <3>3. is(was(i)) < is(m) /\ is(was(i)) = i /\ is(m) \in 1..(L + 1) /\ new[is(m)] = End
            BY <1>2, <1>4, <1>5, <1>7, <3>1, <3>2
        <3> QED
            BY <3>3
    <2> QED
        BY <1>2, <2>1, <2>2 DEF Whole
<1>16. ASSUME NEW i \in 1..(L + 1), i /= n
       PROVE  /\ i \in Block(new) => was(i) \in Block(text)
              /\ i \in Section(new) => was(i) \in Section(text)
              /\ \A X : i \in Places(new, X) => was(i) \in Places(text, X)
    <2>1. was(i) \in 1..L /\ new[i] = text[was(i)]
        BY <1>4, <1>16
    <2>2. ASSUME i \in Block(new)
          PROVE  was(i) \in Block(text)
        <3>1. PICK s \in 1..i, e \in i..(L + 1) : new[s] = Start /\ new[e] = End
            BY <1>2, <2>2 DEF Block
        <3>2. s \in 1..(L + 1) /\ e \in 1..(L + 1)
            BY <1>2, <3>1
        <3>3. s /= n /\ e /= n /\ text[was(s)] = Start /\ text[was(e)] = End
              /\ was(s) \in 1..L /\ was(e) \in 1..L
            BY <1>9, <3>1, <3>2, MarksApart
        <3>4. ~(was(i) < was(s)) /\ ~(was(e) < was(i))
            BY <1>6, <1>16, <3>1, <3>2, <3>3
        <3>5. was(s) \in 1..was(i) /\ was(e) \in was(i)..L
            BY <1>2, <2>1, <3>3, <3>4
        <3> HIDE DEF L
        <3> QED
            BY <1>2, <2>1, <3>3, <3>5 DEF Block, L
    <2>3. ASSUME i \in Section(new)
          PROVE  was(i) \in Section(text)
        <3>1. PICK h \in 1..i : new[h] = Managed /\ \A j \in (h + 1)..i : new[j] \notin Tables
            BY <2>3 DEF Section
        <3>2. h \in 1..(L + 1)
            BY <1>2, <3>1
        <3>3. h /= n /\ text[was(h)] = Managed /\ was(h) \in 1..L
            BY <1>9, <3>1, <3>2, MarksApart
        <3>4. ~(was(i) < was(h))
            BY <1>6, <1>16, <3>1, <3>2, <3>3
        <3>5. was(h) \in 1..was(i)
            BY <1>2, <2>1, <3>3, <3>4
        <3>6. \A j \in (was(h) + 1)..was(i) : text[j] \notin Tables
            <4> TAKE j \in (was(h) + 1)..was(i)
            <4>1. j \in 1..L /\ was(h) < j /\ ~(was(i) < j)
                BY <1>2, <2>1, <3>3
            <4>2. is(was(h)) < is(j) /\ ~(is(was(i)) < is(j)) /\ is(j) \in 1..(L + 1)
                  /\ new[is(j)] = text[j]
                BY <1>5, <1>7, <2>1, <3>3, <4>1
            <4>3. is(was(h)) = h /\ is(was(i)) = i
                BY <1>4, <1>16, <3>2, <3>3
            <4>4. is(j) \in (h + 1)..i
                BY <1>2, <3>2, <4>2, <4>3
            <4> QED
                BY <3>1, <4>2, <4>4
        <3> QED
            BY <1>2, <2>1, <3>3, <3>5, <3>6 DEF Section
    <2>4. \A X : i \in Places(new, X) => was(i) \in Places(text, X)
        BY <1>2, <2>1 DEF Places
    <2> QED
        BY <2>2, <2>3, <2>4
<1>17. ASSUME NEW i \in InstallersPart(new), i /= n
       PROVE  \E j \in InstallersPart(text) : new[i] = text[j]
    <2>1. i \in DOMAIN new
        BY <1>17 DEF InstallersPart, Block, Section, Places
    <2>2. was(i) \in DOMAIN text /\ new[i] = text[was(i)]
        BY <1>2, <1>4, <1>17, <2>1
    <2>3. was(i) \in InstallersPart(text)
        BY <1>2, <1>16, <1>17, <2>1, <2>2 DEF InstallersPart
    <2> QED
        BY <2>2, <2>3
<1> QED
    BY <1>2, <1>3, <1>12, <1>14, <1>15, <1>17 DEF new

\* What of the user's text is to be kept is in the new text, and the installer's part
\* of that is the installer's alone.
Keeps(new, text) ==
    \A n \in DOMAIN text \ InstallersPart(text) :
        text[n] \in Settings => \E m \in DOMAIN new : new[m] = text[n]

FreeOfSettings(new) == \A i \in InstallersPart(new) : new[i] \notin Settings

\* A block rewritten, or added: there is one end after it, wherever cuts have left
\* starts; and where none has, the block takes the place of the old one.
LEMMA BlockFits ==
    ASSUME NEW text, Fits(text), kind = "rules"
    PROVE  LET new == WithBlock(text) IN
           /\ Fits(new) /\ ~Absent(new, End)
           /\ Whole(text) => Whole(new) /\ FreeOfSettings(new) /\ Keeps(new, text)
<1> DEFINE new == WithBlock(text)
           L == Len(text)
           mid == <<Start, End>>
<1>1. text \in Texts /\ text \in Seq(Settings \union Marks) /\ L \in Nat /\ DOMAIN text = 1..L
    BY DEF Fits, Texts
<1>2. mid \in Seq(Settings \union Marks) /\ Len(mid) = 2 /\ mid[1] = Start /\ mid[2] = End
    BY MarksApart
<1>3. \A i \in 1..L : /\ text[i] /= Obsolete /\ text[i] /= Managed
                      /\ text[i] = End => \E m \in 1..L : m < i /\ text[m] = Start
    BY <1>1 DEF Fits, Absent
<1> DEFINE both == Contains(text, Start) /\ Contains(text, End)
           s == IF both THEN FirstPlace(text, Start) ELSE L + 1
           e == IF both THEN FirstPlace(text, End) ELSE L
           N == s + 1 + (L - e)
           d == e - (s + 1)
\* The old block, or the empty place at the end.
<1>4. /\ s \in 1..(L + 1) /\ e \in (s - 1)..L
      /\ new = Splice(text, s, e, mid)
      /\ \A i \in 1..L : i < s \/ i > e => text[i] /= End
      /\ \A i \in 1..L : s <= i /\ i <= e => text[s] = Start /\ text[e] = End
    <2>1. CASE both
        <3> DEFINE fs == FirstPlace(text, Start)
                   fe == FirstPlace(text, End)
        <3>1. fs \in 1..L /\ text[fs] = Start /\ \A j \in 1..L : j < fs => text[j] /= Start
            BY <1>1, <2>1, FirstIsFirst
        <3>2. fe \in 1..L /\ text[fe] = End
            BY <1>1, <2>1, FirstIsFirst
        <3>3. new = SubSeq(text, 1, fs - 1) \o <<Start, End>> \o SubSeq(text, fe + 1, Len(text))
            BY <2>1 DEF WithBlock
        <3>4. s = fs /\ e = fe
            BY <2>1
        <3> HIDE DEF fs, fe, new, s, e, L
        <3>5. new = Splice(text, s, e, mid)
            BY <3>3, <3>4 DEF Splice
        <3>6. fs < fe /\ \A j \in 1..L : text[j] = End => j = fe
            <4>1. PICK m \in 1..L : m < fe /\ text[m] = Start
                BY <1>3, <3>2
            <4>2. ~(m < fs)
                BY <3>1, <4>1
            <4>3. fs < fe
                BY <1>1, <3>1, <3>2, <4>1, <4>2
            <4> QED
                BY <1>1, <3>2, <4>3 DEF Fits, AtMostOnce
        <3>7. fs \in 1..(L + 1) /\ fe \in (fs - 1)..L
            BY <1>1, <3>1, <3>2, <3>6
        <3>8. \A i \in 1..L : i < fs \/ i > fe => text[i] /= End
            BY <1>1, <3>1, <3>2, <3>6
        <3> QED
            BY <3>1, <3>2, <3>4, <3>5, <3>7, <3>8
    <2>2. CASE ~both
        <3>1. new = text \o mid
            BY <2>2 DEF WithBlock
        <3>2. \A i \in 1..L : text[i] /= End
            BY <1>1, <1>3, <2>2 DEF Contains
        <3>3. s = L + 1 /\ e = L
            BY <2>2
        <3>4. SubSeq(text, 1, L) = text /\ SubSeq(text, L + 1, L) = <<>>
            BY <1>1
        <3>5. mid \o <<>> = mid /\ text \o mid \in Seq(Settings \union Marks)
              /\ (text \o mid) \o <<>> = text \o mid
            BY <1>1, <1>2, ConcatEmptySeq
        <3>6. new = SubSeq(text, 1, L + 1 - 1) \o mid \o SubSeq(text, L + 1, L)
            <4>1. L + 1 - 1 = L
                BY <1>1
            <4> HIDE DEF new, mid, L
            <4> QED BY <3>1, <3>4, <3>5, <4>1
        <3>7. new = Splice(text, s, e, mid)
            <4> HIDE DEF new, mid, s, e
            <4> QED BY <3>3, <3>6 DEF Splice
        <3>8. L + 1 \in 1..(L + 1) /\ L \in (L + 1 - 1)..L
            BY <1>1
        <3> HIDE DEF new, s, e, L, mid
        <3>9. \A i \in 1..L : ~(L + 1 <= i)
            BY <1>1
        <3> QED
            BY <3>2, <3>3, <3>7, <3>8, <3>9
    <2> HIDE DEF new, s, e
    <2> QED
        BY <2>1, <2>2
<1> HIDE DEF new, mid, s, e, L, both
<1>5. s \in Nat /\ e \in Nat /\ N \in Nat /\ N >= s + 1 /\ d \in Int
    BY <1>1, <1>4
<1>6. /\ new \in Texts /\ Len(new) = N
      /\ \A i \in 1..(s - 1) : new[i] = text[i]
      /\ new[s] = Start /\ new[s + 1] = End
      /\ \A i \in (s + 2)..N : new[i] = text[i + d]
    <2>1. new \in Seq(Settings \union Marks) /\ Spliced(new, text, s, e, mid)
        BY <1>1, <1>2, <1>4, SpliceProperties DEF L
    <2>2. s - 1 + Len(mid) = s + 1 /\ s + 1 + L - e = N /\ s + 1 + 1 = s + 2
        BY <1>1, <1>2, <1>5, <1>4
    <2>3. \A i \in 1..Len(mid) : new[s - 1 + i] = mid[i]
        BY <2>1 DEF Spliced
    <2>4. 1 \in 1..Len(mid) /\ 2 \in 1..Len(mid) /\ s - 1 + 1 = s /\ s - 1 + 2 = s + 1
        BY <1>2, <1>5
    <2>5. new[s] = Start /\ new[s + 1] = End
        BY <1>2, <2>3, <2>4
    <2>6. /\ Len(new) = N /\ \A i \in 1..(s - 1) : new[i] = text[i]
          /\ \A i \in (s + 2)..N : new[i] = text[i + d]
        <3> HIDE DEF N, d
        <3>1. d = e - (s + 1) /\ L = Len(text)
            BY DEF d, L
        <3> QED
            BY <2>1, <2>2, <3>1 DEF Spliced
    <2> QED
        BY <2>1, <2>5, <2>6 DEF Texts
<1>7. DOMAIN new = 1..N
    BY <1>5, <1>6 DEF Texts
<1>8. \A i \in 1..(s - 1) : i \in 1..L /\ i < s /\ i \in 1..N
    BY <1>1, <1>4, <1>5
<1>9. \A i \in (s + 2)..N : i + d \in 1..L /\ i + d > e
    BY <1>1, <1>4, <1>5
<1>10. \A i \in 1..L : i > e => i - d \in (s + 2)..N /\ (i - d) + d = i
    BY <1>1, <1>4, <1>5
<1>11. \A i \in 1..N : i \in 1..(s - 1) \/ i = s \/ i = s + 1 \/ i \in (s + 2)..N
    BY <1>4, <1>5
<1>12. s \in 1..N /\ s + 1 \in 1..N /\ s < s + 1
    BY <1>4, <1>5
<1> HIDE DEF N
<1>13. \A i \in 1..N : new[i] = End => i = s + 1
    <2> TAKE i \in 1..N
    <2>1. i \in 1..(s - 1) => new[i] /= End
        BY <1>4, <1>6, <1>8
    <2>2. i \in (s + 2)..N => new[i] /= End
        BY <1>4, <1>6, <1>9
    <2> QED
        BY <1>6, <1>11, <2>1, <2>2, MarksApart
<1>14. \A i \in 1..N : new[i] /= Managed /\ new[i] /= Obsolete
    <2> TAKE i \in 1..N
    <2>1. i \in 1..(s - 1) => new[i] /= Managed /\ new[i] /= Obsolete
        BY <1>3, <1>6, <1>8
    <2>2. i \in (s + 2)..N => new[i] /= Managed /\ new[i] /= Obsolete
        BY <1>3, <1>6, <1>9
    <2> QED
        BY <1>6, <1>11, <2>1, <2>2, MarksApart
<1>15. Fits(new) /\ ~Absent(new, End)
    <2>1. AtMostOnce(new, End) /\ AtMostOnce(new, Managed)
          /\ Absent(new, Managed) /\ Absent(new, Obsolete) /\ ~Absent(new, End)
        BY <1>6, <1>7, <1>12, <1>13, <1>14 DEF AtMostOnce, Absent
    <2>2. \A i \in DOMAIN new : new[i] = End => \E m \in DOMAIN new : m < i /\ new[m] = Start
        BY <1>6, <1>7, <1>12, <1>13
    <2> QED
        BY <1>6, <2>1, <2>2 DEF Fits
<1>16. ASSUME Whole(text)
       PROVE  Whole(new) /\ FreeOfSettings(new) /\ Keeps(new, text)
    <2>1. \A i \in 1..L : i < s \/ i > e => text[i] /= Start
        <3> TAKE i \in 1..L
        <3>1. ASSUME text[i] = Start, i < s \/ i > e
              PROVE  FALSE
            <4>1. PICK m \in 1..L : m > i /\ text[m] = End
                BY <1>1, <1>16, <3>1 DEF Whole
            <4>2. ~(m < s) /\ ~(m > e)
                BY <1>4, <4>1
            <4>3. s <= m /\ m <= e
                BY <1>1, <1>5, <4>2
            <4>4. text[s] = Start
                BY <1>4, <4>1, <4>3
            <4>5. s \in 1..L
                BY <1>1, <1>4, <1>5, <4>1, <4>3
            <4>6. i = s
                BY <1>1, <1>16, <3>1, <4>4, <4>5 DEF Whole, AtMostOnce
            <4> QED
                BY <1>1, <1>5, <3>1, <4>3, <4>6
        <3> QED
            BY <3>1
    <2>2. \A i \in 1..N : new[i] = Start => i = s
        <3> TAKE i \in 1..N
        <3>1. i \in 1..(s - 1) => new[i] /= Start
            BY <1>6, <1>8, <2>1
        <3>2. i \in (s + 2)..N => new[i] /= Start
            BY <1>6, <1>9, <2>1
        <3> QED
            BY <1>6, <1>11, <3>1, <3>2, MarksApart
    <2>3. Whole(new)
        BY <1>6, <1>7, <1>12, <2>2 DEF Whole, AtMostOnce
    <2>4. FreeOfSettings(new)
        <3> SUFFICES ASSUME NEW i \in Block(new)
                     PROVE  new[i] \notin Settings
            BY DEF FreeOfSettings, InstallersPart
        <3>1. i \in 1..N /\ \E a \in 1..i, b \in i..N : new[a] = Start /\ new[b] = End
            BY <1>6, <1>7 DEF Block
        <3>2. PICK a \in 1..i, b \in i..N : new[a] = Start /\ new[b] = End
            BY <3>1
        <3>3. a \in 1..N /\ b \in 1..N /\ i \in Nat
            BY <1>5, <3>1, <3>2
        <3>4. a = s /\ b = s + 1
            BY <1>13, <2>2, <3>2, <3>3
        <3>5. i = s \/ i = s + 1
            BY <1>5, <3>2, <3>3, <3>4
        <3> QED
            BY <1>6, <3>5, MarksApart
    <2>5. Keeps(new, text)
        <3> SUFFICES ASSUME NEW i \in 1..L, i \notin Block(text)
                     PROVE  \E m \in 1..N : new[m] = text[i]
            BY <1>1, <1>7 DEF Keeps, InstallersPart
        <3>1. i < s \/ i > e
            <4> SUFFICES ASSUME s <= i, i <= e
                         PROVE  FALSE
                BY <1>1, <1>5
            <4>1. text[s] = Start /\ text[e] = End /\ s \in 1..i /\ e \in i..L
                BY <1>1, <1>4, <1>5
            <4> QED
                BY <1>1, <4>1 DEF Block, L
        <3>2. CASE i < s
            <4>1. i \in 1..(s - 1)
                BY <1>1, <1>5, <3>2
            <4> QED
                BY <1>6, <1>8, <4>1
        <3>3. CASE i > e
            <4>1. i - d \in (s + 2)..N /\ (i - d) + d = i
                BY <1>10, <3>3
            <4>2. i - d \in 1..N
                BY <1>5, <4>1
            <4> QED
                BY <1>6, <4>1, <4>2
        <3> QED
            BY <3>1, <3>2, <3>3
    <2> QED
        BY <2>3, <2>4, <2>5
<1> QED
    BY <1>15, <1>16 DEF new

\* Where there is no entry, one is added at the end.
LEMMA AddFits ==
    ASSUME NEW text, Fits(text), kind /= "rules", Absent(text, Managed)
    PROVE  LET new == Append(text, Managed)
               L == Len(text) IN
           /\ Fits(new) /\ ~Absent(new, Managed)
           /\ Absent(text, Obsolete) => Absent(new, Obsolete)
           /\ L \in Nat /\ DOMAIN text = 1..L /\ DOMAIN new = 1..(L + 1)
           /\ new[L + 1] = Managed /\ \A i \in 1..L : new[i] = text[i]
<1> DEFINE new == Append(text, Managed)
           L == Len(text)
<1>1. text \in Texts /\ L \in Nat /\ DOMAIN text = 1..L
    BY DEF Fits, Texts
<1>2. /\ new \in Texts /\ DOMAIN new = 1..(L + 1)
      /\ (\A i \in 1..L : new[i] = text[i]) /\ new[L + 1] = Managed
    BY <1>1, MarksApart DEF Texts
<1> HIDE DEF new, L
<1>3. \A i \in 1..(L + 1) : i \in 1..L \/ i = L + 1
    BY <1>1
<1>4. \A i \in DOMAIN new : new[i] \notin {Start, End}
    BY <1>1, <1>2, <1>3, MarksApart DEF Fits
<1>5. AtMostOnce(new, Managed) /\ AtMostOnce(new, End)
    <2>1. \A i \in DOMAIN new : new[i] = Managed => i = L + 1
        BY <1>1, <1>2, <1>3 DEF Absent
    <2> QED
        BY <1>4, <2>1 DEF AtMostOnce
<1>6. Absent(text, Obsolete) => Absent(new, Obsolete)
    BY <1>1, <1>2, <1>3, MarksApart DEF Absent
<1>7. Fits(new)
    BY <1>2, <1>4, <1>5, <1>6 DEF Fits
<1>8. ~Absent(new, Managed)
    <2>1. L + 1 \in DOMAIN new
        BY <1>1, <1>2
    <2> QED
        BY <1>2, <2>1 DEF Absent
<1> QED
    BY <1>1, <1>2, <1>6, <1>7, <1>8 DEF new, L

\* Some of a text is a text of its kind.
LEMMA SomeFits ==
    ASSUME NEW text, Fits(text), kind /= "rules", NEW places \in SUBSET DOMAIN text
    PROVE  LET w == TextAt(text, places) IN
           /\ Fits(w) /\ (Absent(text, Obsolete) => Absent(w, Obsolete))
           /\ \A n \in DOMAIN w : \E i \in places : text[i] = w[n]
           /\ \A i \in places : \E n \in DOMAIN w : w[n] = text[i]
<1> DEFINE w == TextAt(text, places)
<1>1. text \in Seq(Settings \union Marks)
    BY DEF Fits, Texts
<1>2. /\ w \in Seq(Settings \union Marks)
      /\ \A n \in DOMAIN w : \E i \in places : text[i] = w[n]
      /\ \A i \in places : \E n \in DOMAIN w : w[n] = text[i]
      /\ \A x : AtMostOnce(text, x) => AtMostOnce(w, x)
    BY <1>1, TextAtKeeps
<1> HIDE DEF w
<1>3. Absent(text, Obsolete) => Absent(w, Obsolete)
    BY <1>2 DEF Absent
<1>4. \A n \in DOMAIN w : w[n] \notin {Start, End}
    BY <1>2 DEF Fits
<1>5. Fits(w)
    BY <1>2, <1>3, <1>4 DEF Fits, Texts
<1> QED
    BY <1>2, <1>3, <1>5 DEF w

\* What is kept, and the installer's part anew.
LEMMA AnewFits ==
    ASSUME NEW text, Fits(text), kind \in {"toml", "pro"}, NEW left \in SUBSET DOMAIN text,
           \A i \in left : text[i] /= Managed /\ text[i] \notin Switches,
           \A i \in DOMAIN text \ InstallersPart(text) : text[i] \in Settings => i \in left
    PROVE  LET new == Append(TextAt(text, left), Managed) IN
           /\ Fits(new) /\ ~Absent(new, Managed) /\ Absent(new, Obsolete)
           /\ Keeps(new, text) /\ FreeOfSettings(new)
<1> DEFINE w == TextAt(text, left)
           new == Append(w, Managed)
           L == Len(w)
<1>1. /\ Fits(w) /\ Absent(w, Obsolete)
      /\ \A n \in DOMAIN w : \E i \in left : text[i] = w[n]
      /\ \A i \in left : \E n \in DOMAIN w : w[n] = text[i]
    BY SomeFits DEF Fits
<1>2. \A n \in DOMAIN w : w[n] /= Managed /\ w[n] \notin Switches
    BY <1>1
<1> HIDE DEF w
<1>3. /\ Fits(new) /\ ~Absent(new, Managed) /\ Absent(new, Obsolete)
      /\ L \in Nat /\ DOMAIN w = 1..L /\ DOMAIN new = 1..(L + 1)
      /\ new[L + 1] = Managed /\ \A i \in 1..L : new[i] = w[i]
    BY <1>1, <1>2, AddFits DEF Absent
<1> HIDE DEF new, L
<1>4. Keeps(new, text)
    <2> SUFFICES ASSUME NEW i \in left
                 PROVE  \E m \in DOMAIN new : new[m] = text[i]
        BY DEF Keeps
    <2>1. PICK n \in 1..L : w[n] = text[i]
        BY <1>1, <1>3
    <2>2. n \in 1..(L + 1)
        BY <1>3
    <2> QED
        BY <1>3, <2>1, <2>2
<1>5. FreeOfSettings(new)
    <2>1. \A i \in 1..(L + 1) : i /= L + 1 => i \in 1..L /\ new[i] = w[i]
        BY <1>3
    <2>2. ASSUME NEW i \in Section(new)
          PROVE  i = L + 1
        <3>1. PICK h \in 1..i : new[h] = Managed
            BY DEF Section
        <3>2. i \in 1..(L + 1) /\ h \in 1..(L + 1)
            BY <1>3, <3>1 DEF Section
        <3>3. h = L + 1
            BY <1>2, <1>3, <2>1, <3>1, <3>2
        <3> QED
            BY <1>3, <3>1, <3>2, <3>3
    <2>3. ASSUME NEW i \in Places(new, Switches)
          PROVE  FALSE
        <3>1. i \in 1..(L + 1) /\ new[i] \in Switches
            BY <1>3 DEF Places
        <3>2. Managed \notin Switches
            BY InstallAssumption, MarksApart
        <3> QED
            BY <1>2, <1>3, <2>1, <3>1, <3>2
    <2> QED
        BY <1>3, <2>2, <2>3, MarksApart DEF FreeOfSettings, InstallersPart
<1> QED
    BY <1>3, <1>4, <1>5 DEF new, w

\* An entry that is found is left, one that is not is added.
LEMMA EntryFits ==
    ASSUME NEW text, Fits(text), kind /= "rules"
    PROVE  LET new == WithEntry(text) IN
           /\ Fits(new) /\ ~Absent(new, Managed)
           /\ \A n \in DOMAIN text : \E m \in DOMAIN new : new[m] = text[n]
           /\ Absent(text, Obsolete) => Absent(new, Obsolete)
<1>1. text \in Texts /\ DOMAIN text = 1..Len(text)
    BY DEF Fits, Texts
<1>2. CASE Contains(text, Managed)
    BY <1>1, <1>2 DEF WithEntry, Contains, Absent
<1>3. CASE ~Contains(text, Managed)
    <2>1. Absent(text, Managed)
        BY <1>1, <1>3 DEF Contains, Absent
    <2> DEFINE new == Append(text, Managed)
               L == Len(text)
    <2>2. WithEntry(text) = new
        BY <1>3 DEF WithEntry
    <2>3. /\ Fits(new) /\ ~Absent(new, Managed) /\ (Absent(text, Obsolete) => Absent(new, Obsolete))
          /\ L \in Nat /\ DOMAIN text = 1..L /\ DOMAIN new = 1..(L + 1)
          /\ \A i \in 1..L : new[i] = text[i]
        BY <2>1, AddFits
    <2> HIDE DEF new, L
    <2>4. \A n \in DOMAIN text : n \in DOMAIN new /\ new[n] = text[n]
        BY <2>3
    <2> QED
        BY <2>2, <2>3, <2>4
<1> QED
    BY <1>2, <1>3

\* The new text: the installer's part is in it once, and the user's as before.
LEMMA NewTextFits ==
    ASSUME kind \in AllKinds, NEW text, kind /= "mcp" => Fits(text)
    PROVE  LET new == NewText(text) IN
           /\ Fits(new)
           /\ IF kind = "rules" THEN ~Absent(new, End)
              ELSE ~Absent(new, Managed) /\ Absent(new, Obsolete)
           /\ kind = "rules" /\ Whole(text) => Whole(new)
           /\ kind /= "mcp" /\ (kind = "rules" => Whole(text)) => Keeps(new, text)
           /\ (kind = "rules" => Whole(text)) => FreeOfSettings(new)
<1>1. CASE kind = "rules"
    BY <1>1, BlockFits DEF NewText
<1>2. CASE kind = "toml"
    <2> DEFINE left == DOMAIN text \ (Section(text) \union Places(text, Switches))
    <2>1. NewText(text) = Append(TextAt(text, left), Managed)
        BY <1>2 DEF NewText, WithSections
    <2>2. \A i \in left : text[i] /= Managed /\ text[i] \notin Switches
        <3> TAKE i \in left
        <3>1. text[i] \notin Switches
            BY DEF Places
        <3>2. ASSUME text[i] = Managed
              PROVE  FALSE
            <4>1. i \in Nat /\ i >= 1
                BY <1>2 DEF Fits, Texts
            <4>2. i \in 1..i /\ (i + 1)..i = {}
                BY <4>1
            <4>3. i \in Section(text)
                BY <3>2, <4>2 DEF Section
            <4> QED
                BY <4>3
        <3> QED
            BY <3>1, <3>2
    <2>3. \A i \in DOMAIN text \ InstallersPart(text) : i \in left
        BY <1>2 DEF InstallersPart
    <2>4. Fits(text) /\ left \in SUBSET DOMAIN text
        BY <1>2
    <2> HIDE DEF left
    <2> QED
        BY <1>2, <2>1, <2>2, <2>3, <2>4, AnewFits
<1>3. CASE kind = "pro"
    <2> DEFINE left == DOMAIN text \ Places(text, Switches \union {Managed})
    <2>1. NewText(text) = Append(TextAt(text, left), Managed)
        BY <1>3 DEF NewText, WithKey
    <2>2. \A i \in left : text[i] /= Managed /\ text[i] \notin Switches
        BY DEF Places
    <2>3. \A i \in DOMAIN text \ InstallersPart(text) : text[i] \in Settings => i \in left
        BY <1>3, MarksApart DEF InstallersPart, Places
    <2>4. Fits(text) /\ left \in SUBSET DOMAIN text
        BY <1>3
    <2> HIDE DEF left
    <2> QED
        BY <1>3, <2>1, <2>2, <2>3, <2>4, AnewFits
<1>4. CASE kind \in {"hooks", "settings"}
    <2> DEFINE left == DOMAIN text \ Places(text, {Obsolete})
               w == IF kind = "hooks" THEN TextAt(text, left) ELSE text
    <2>1. /\ Fits(w) /\ Absent(w, Obsolete)
          /\ \A i \in DOMAIN text : text[i] \in Settings => \E n \in DOMAIN w : w[n] = text[i]
        <3>1. CASE kind = "hooks"
            <4>1. Fits(text) /\ left \in SUBSET DOMAIN text
                BY <3>1
            <4>2. /\ Fits(w)
                  /\ \A n \in DOMAIN w : \E i \in left : text[i] = w[n]
                  /\ \A i \in left : \E n \in DOMAIN w : w[n] = text[i]
                <5> HIDE DEF left
                <5> QED BY <3>1, <4>1, SomeFits
            <4>3. \A i \in left : text[i] /= Obsolete
                BY DEF Places
            <4>4. \A i \in DOMAIN text : text[i] \in Settings => i \in left
                BY MarksApart DEF Places
            <4> HIDE DEF left, w
            <4> QED
                BY <4>2, <4>3, <4>4 DEF Absent
        <3>2. CASE kind = "settings"
            BY <3>2 DEF Fits
        <3> QED BY <1>4, <3>1, <3>2
    <2>2. NewText(text) = WithEntry(w)
        BY <1>4 DEF NewText, Without
    <2> HIDE DEF w
    <2> DEFINE new == WithEntry(w)
    <2>3. /\ Fits(new) /\ ~Absent(new, Managed) /\ Absent(new, Obsolete)
          /\ \A n \in DOMAIN w : \E m \in DOMAIN new : new[m] = w[n]
        BY <1>4, <2>1, EntryFits
    <2> HIDE DEF new
    <2>4. Keeps(new, text)
        BY <2>1, <2>3 DEF Keeps
    <2>5. FreeOfSettings(new)
        BY <1>4 DEF FreeOfSettings, InstallersPart
    <2> QED
        BY <1>4, <2>2, <2>3, <2>4, <2>5 DEF new
<1>5. CASE kind \in {"mcp", "rulefile"}
    <2> DEFINE new == <<Managed>>
    <2>1. NewText(text) = new
        BY <1>5 DEF NewText
    <2>2. new \in Texts /\ DOMAIN new = 1..1 /\ \A n \in 1..1 : new[n] = Managed
        BY MarksApart DEF Texts
    <2> HIDE DEF new
    <2>3. Fits(new) /\ ~Absent(new, Managed) /\ Absent(new, Obsolete)
        BY <1>5, <2>2, MarksApart DEF Fits, AtMostOnce, Absent
    <2>4. FreeOfSettings(new)
        BY <1>5, <2>2, MarksApart DEF FreeOfSettings, InstallersPart
    <2>5. kind = "rulefile" => Keeps(new, text)
        BY DEF Keeps, InstallersPart
    <2> QED
        BY <1>5, <2>1, <2>3, <2>4, <2>5 DEF new
<1> QED
    BY <1>1, <1>2, <1>3, <1>4, <1>5 DEF AllKinds

LEMMA InstallInvInitially == InstallInit => InstallInv
<1> SUFFICES ASSUME InstallInit PROVE InstallInv
    OBVIOUS
<1>1. kind \in Kinds /\ kind \in AllKinds
    BY InstallAssumption DEF InstallInit
<1>2. /\ file.exists \in BOOLEAN /\ file.parses = TRUE /\ (~file.exists => file.text = <<>>)
      /\ file = [exists |-> file.exists, text |-> file.text, parses |-> file.parses]
      /\ file.text = <<>> \/ (kind = "hooks" /\ file.text = <<Obsolete>>)
    <2> DEFINE first == IF kind = "hooks" THEN <<Obsolete>> ELSE <<>>
    <2>1. \/ file = [exists |-> FALSE, text |-> <<>>, parses |-> TRUE]
          \/ file = [exists |-> TRUE, text |-> first, parses |-> TRUE]
        BY DEF InstallInit
    <2>2. first = <<>> \/ (kind = "hooks" /\ first = <<Obsolete>>)
        OBVIOUS
    <2> HIDE DEF first
    <2>3. CASE file = [exists |-> FALSE, text |-> <<>>, parses |-> TRUE]
        BY <2>3
    <2>4. CASE file = [exists |-> TRUE, text |-> first, parses |-> TRUE]
        BY <2>2, <2>4
    <2> QED
        BY <2>1, <2>3, <2>4
<1>3. Fits(file.text) /\ Whole(file.text)
    <2>1. CASE file.text = <<>>
        BY <2>1 DEF Fits, Whole, Texts, AtMostOnce, Absent
    <2>2. CASE kind = "hooks" /\ file.text = <<Obsolete>>
        <3> DEFINE t == <<Obsolete>>
        <3>1. t \in Texts /\ DOMAIN t = 1..1 /\ \A n \in 1..1 : t[n] = Obsolete
            BY MarksApart DEF Texts
        <3> HIDE DEF t
        <3>2. Fits(t) /\ Whole(t)
            BY <2>2, <3>1, MarksApart DEF Fits, Whole, AtMostOnce, Absent
        <3> QED
            BY <2>2, <3>2 DEF t
    <2> QED
        BY <1>2, <2>1, <2>2
<1>4. InstallTyped
    <2>1. file \in [exists : BOOLEAN, text : Texts, parses : BOOLEAN]
        BY <1>2, <1>3 DEF Fits
    <2>2. NotAtWork \in [pc : {"idle", "backup", "write"}, read : Texts \union Seq(Nat)]
        BY DEF NotAtWork, Texts
    <2> QED
        BY <1>1, <1>2, <2>1, <2>2 DEF InstallTyped, InstallInit
<1>5. \A p \in Installers : inst[p].pc = "idle"
    BY DEF InstallInit, NotAtWork
<1>6. TextsFit /\ OneAtATime /\ StillTrue
    <2>1. past.wrote = {} /\ ~past.overlap /\ ~past.sound
        BY DEF InstallInit
    <2> QED
        BY <1>2, <1>3, <1>5, <2>1 DEF TextsFit, OneAtATime, StillTrue, Apart
<1>7. Survives /\ Once
    BY DEF Survives, Once, InstallInit
<1> QED
    BY <1>4, <1>6, <1>7 DEF InstallInv

\* The parts of the state.
LEMMA InstallParts ==
    ASSUME InstallTyped
    PROVE  /\ file.exists \in BOOLEAN /\ file.parses \in BOOLEAN /\ file.text \in Texts
           /\ past.wrote \in SUBSET Settings /\ past.installs \in Nat
           /\ past.overlap \in BOOLEAN /\ past.crashed \in BOOLEAN /\ past.broken \in BOOLEAN
           /\ past.sound \in BOOLEAN
           /\ \A p \in Installers : /\ inst[p].pc \in {"idle", "backup", "write"}
                                    /\ inst[p].read \in Texts \union Seq(Nat)
BY DEF InstallTyped

\* What the user adds moves nothing of what is there into the installer's part.
LEMMA UserWritesKeepsInv == InstallInv /\ UserWrites => InstallInv'
<1> SUFFICES ASSUME InstallInv, UserWrites PROVE InstallInv'
    OBVIOUS
<1> USE InstallParts DEF InstallInv
<1>1. PICK item \in Settings \ (past.wrote \union ToSet(file.text)), n \in Gaps :
          LET text == InsertAt(file.text, n, item) IN
          /\ file' = [file EXCEPT !.exists = TRUE, !.text = text]
          /\ past' = [past EXCEPT !.wrote = IF n \in InstallersPart(text) THEN @
                                            ELSE @ \union {item},
                                  !.sound = FALSE, !.overlap = @ \/ AtWork /= {}]
    BY DEF UserWrites
<1>2. kind' = kind /\ backups' = backups /\ inst' = inst
    BY DEF UserWrites
<1> DEFINE new == InsertAt(file.text, n, item)
           wrote == IF n \in InstallersPart(new) THEN past.wrote ELSE past.wrote \union {item}
<1>3. file' = [exists |-> TRUE, text |-> new, parses |-> file.parses]
    BY <1>1 DEF InstallTyped
<1>4. /\ past'.wrote = wrote /\ past'.sound = FALSE
      /\ past'.overlap = (past.overlap \/ AtWork /= {})
      /\ past'.crashed = past.crashed /\ past'.broken = past.broken
      /\ past' \in [wrote : SUBSET Settings, installs : Nat, overlap : BOOLEAN,
                    crashed : BOOLEAN, broken : BOOLEAN, sound : BOOLEAN]
    <2>1. wrote \in SUBSET Settings
        OBVIOUS
    <2> DEFINE busy == past.overlap \/ AtWork /= {}
    <2>2. past' = [past EXCEPT !.wrote = wrote, !.sound = FALSE, !.overlap = busy]
        BY <1>1
    <2>3. busy \in BOOLEAN
        OBVIOUS
    <2> HIDE DEF wrote, busy
    <2>4. /\ past'.wrote = wrote /\ past'.sound = FALSE /\ past'.overlap = busy
          /\ past'.crashed = past.crashed /\ past'.broken = past.broken
          /\ past' \in [wrote : SUBSET Settings, installs : Nat, overlap : BOOLEAN,
                        crashed : BOOLEAN, broken : BOOLEAN, sound : BOOLEAN]
        BY <2>1, <2>2, <2>3 DEF InstallTyped
    <2> QED
        BY <2>4 DEF busy
<1>5. /\ Fits(new) /\ n \in DOMAIN new /\ new[n] = item
      /\ Whole(file.text) => Whole(new)
      /\ \A x : ~Absent(file.text, x) => ~Absent(new, x)
      /\ \A i \in InstallersPart(new) :
            i /= n => \E j \in InstallersPart(file.text) : new[i] = file.text[j]
    <2>1. Len(file.text) \in Nat
        BY DEF Texts
    <2>2. n \in 1..(Len(file.text) + 1)
        BY <2>1 DEF Gaps
    <2> QED
        BY <2>2, InsertFits DEF TextsFit
<1>6. Apart(file.text) => \A i \in InstallersPart(new) : new[i] \notin wrote
    <2> SUFFICES ASSUME Apart(file.text), NEW i \in InstallersPart(new)
                 PROVE  new[i] \notin wrote
        OBVIOUS
    <2>1. CASE i = n
        <3>1. item \notin past.wrote
            BY <1>1
        <3> QED
            BY <1>5, <2>1, <3>1
    <2>2. CASE i /= n
        <3>1. PICK j \in InstallersPart(file.text) : new[i] = file.text[j]
            BY <1>5, <2>2
        <3>2. j \in DOMAIN file.text
            BY DEF InstallersPart, Block, Section, Places
        <3>3. file.text[j] \notin past.wrote /\ file.text[j] /= item
            BY <1>1, <3>2 DEF Apart, ToSet
        <3> QED
            BY <3>1, <3>3
    <2> QED
        BY <2>1, <2>2
<1>7. \A x \in wrote : x \in past.wrote \/ x = item
    OBVIOUS
<1> HIDE DEF new, wrote
<1>8. InstallTyped'
    <2>1. file' \in [exists : BOOLEAN, text : Texts, parses : BOOLEAN] /\ file'.exists
        BY <1>3, <1>5 DEF Fits
    <2> QED
        BY <1>2, <1>4, <2>1 DEF InstallTyped
<1>9. TextsFit'
    BY <1>2, <1>3, <1>5 DEF TextsFit, Fits
<1>10. past'.overlap = FALSE => past.overlap = FALSE /\ \A p \in Installers : inst'[p].pc = "idle"
    BY <1>2, <1>4 DEF AtWork
<1>11. OneAtATime'
    BY <1>2, <1>4, <1>10 DEF OneAtATime
<1>12. StillTrue'
    <2>1. Unharmed' => Unharmed /\ Apart(file.text)
        BY <1>2, <1>4, <1>10 DEF Unharmed, StillTrue
    <2>2. Apart(file.text)' <=> \A i \in InstallersPart(new) : new[i] \notin wrote
        BY <1>2, <1>3, <1>4 DEF Apart, InstallersPart, Block, Section, Places
    <2>3. (Unharmed => Apart(file.text))'
        BY <1>6, <2>1, <2>2
    <2>4. (kind = "rules" /\ ~past.crashed => Whole(file.text) /\
              \A p \in Installers : inst[p].pc = "write" => Whole(inst[p].read))'
        BY <1>2, <1>3, <1>4, <1>5 DEF StillTrue, Whole, AtMostOnce
    <2>5. (kind \in Json /\ ~past.crashed /\ ~past.broken => file.parses)'
        BY <1>2, <1>3, <1>4 DEF StillTrue
    <2>6. past'.overlap \/ \A p \in Installers : inst'[p].pc = "idle"
        BY <1>4, <1>10
    <2> QED
        BY <2>3, <2>4, <2>5, <2>6 DEF StillTrue, Unharmed
<1>13. Survives'
    <2>1. \A x : StillThere(x) => StillThere(x)'
        BY <1>2, <1>3, <1>5 DEF StillThere, Absent
    <2>2. StillThere(item)'
        BY <1>3, <1>5 DEF StillThere
    <2> QED
        BY <1>2, <1>4, <1>7, <2>1, <2>2 DEF Survives
<1>14. Once'
    BY <1>4 DEF Once
<1> QED
    BY <1>8, <1>9, <1>11, <1>12, <1>13, <1>14

LEMMA UserBreaksKeepsInv == InstallInv /\ UserBreaks => InstallInv'
<1> SUFFICES ASSUME InstallInv, UserBreaks PROVE InstallInv'
    OBVIOUS
<1> USE InstallParts DEF InstallInv
<1>1. kind' = kind /\ backups' = backups /\ inst' = inst /\ kind \in Json \union {"toml", "pro"}
    BY DEF UserBreaks
<1>2. file' = [exists |-> file.exists, text |-> file.text, parses |-> ~file.parses] /\ file.exists
    BY DEF UserBreaks, InstallTyped
<1>3. /\ past'.wrote = past.wrote /\ past'.sound = FALSE
      /\ past'.overlap = (past.overlap \/ AtWork /= {})
      /\ past'.crashed = past.crashed /\ past'.broken = TRUE
    BY DEF UserBreaks, InstallTyped
<1>4. InstallTyped'
    <2>1. past' \in [wrote : SUBSET Settings, installs : Nat, overlap : BOOLEAN,
                     crashed : BOOLEAN, broken : BOOLEAN, sound : BOOLEAN]
        BY DEF UserBreaks, InstallTyped
    <2> QED
        BY <1>1, <1>2, <2>1 DEF InstallTyped
<1>5. TextsFit'
    BY <1>1, <1>2 DEF TextsFit, Fits
<1>6. past'.overlap = FALSE => past.overlap = FALSE /\ \A p \in Installers : inst'[p].pc = "idle"
    BY <1>1, <1>3 DEF AtWork
<1>7. OneAtATime'
    BY <1>1, <1>3, <1>6 DEF OneAtATime
<1>8. StillTrue'
    BY <1>1, <1>2, <1>3, <1>6
       DEF StillTrue, Whole, AtMostOnce, Unharmed, Json, Apart, InstallersPart, Block,
           Section, Places
<1>9. Survives' /\ Once'
    <2>1. \A x : StillThere(x) => StillThere(x)'
        BY <1>1, <1>2 DEF StillThere
    <2> QED
        BY <1>1, <1>3, <2>1 DEF Survives, Once
<1> QED
    BY <1>4, <1>5, <1>7, <1>8, <1>9

LEMMA BeginKeepsInv ==
    ASSUME InstallInv, NEW p \in Installers, Begin(p)
    PROVE  InstallInv'
<1> USE InstallParts DEF InstallInv
<1> DEFINE pc == IF kind = "mcp" /\ file.exists THEN "backup" ELSE "write"
<1>0. PICK read \in Reads : inst' = [inst EXCEPT ![p] = [pc |-> pc, read |-> read]]
    BY DEF Begin
<1>1. /\ kind' = kind /\ file' = file /\ backups' = backups /\ inst[p].pc = "idle"
      /\ inst' = [inst EXCEPT ![p] = [pc |-> pc, read |-> read]]
    BY <1>0 DEF Begin
<1>2. /\ past'.wrote = past.wrote /\ past'.sound = FALSE
      /\ past'.overlap = (past.overlap \/ AtWork /= {})
      /\ past'.crashed = past.crashed /\ past'.broken = past.broken
      /\ past' \in [wrote : SUBSET Settings, installs : Nat, overlap : BOOLEAN,
                    crashed : BOOLEAN, broken : BOOLEAN, sound : BOOLEAN]
    <2>1. past' = [past EXCEPT !.installs = @ + 1, !.sound = FALSE, !.overlap = @ \/ AtWork /= {}]
        BY DEF Begin
    <2>2. past \in [wrote : SUBSET Settings, installs : Nat, overlap : BOOLEAN,
                    crashed : BOOLEAN, broken : BOOLEAN, sound : BOOLEAN]
        BY DEF InstallTyped
    <2> DEFINE busy == past.overlap \/ AtWork /= {}
    <2>3. busy \in BOOLEAN /\ past.installs + 1 \in Nat
        OBVIOUS
    <2> HIDE DEF busy
    <2>4. past' = [past EXCEPT !.installs = @ + 1, !.sound = FALSE, !.overlap = busy]
        BY <2>1 DEF busy
    <2>5. /\ past'.wrote = past.wrote /\ past'.sound = FALSE
          /\ past'.overlap = busy
          /\ past'.crashed = past.crashed /\ past'.broken = past.broken
          /\ past' \in [wrote : SUBSET Settings, installs : Nat, overlap : BOOLEAN,
                        crashed : BOOLEAN, broken : BOOLEAN, sound : BOOLEAN]
        BY <2>2, <2>3, <2>4
    <2> QED
        BY <2>5 DEF busy
<1>3. /\ pc \in {"backup", "write"}
      /\ pc = "backup" => kind = "mcp"
      /\ kind = "mcp" /\ pc = "write" => ~file.exists
    OBVIOUS
<1>4. /\ kind = "mcp" => read = <<Len(backups) + 1>>
      /\ kind /= "mcp" =>
            \/ read = file.text
            \/ read = <<>> /\ (kind = "pro" \/ (kind \in Json /\ ~file.parses))
    <2>1. CASE kind = "mcp"
        BY <2>1 DEF Json, Reads
    <2>2. CASE kind = "toml"
        BY <2>2 DEF Json, Reads
    <2>3. CASE kind \in Json
        BY <2>3 DEF Json, Reads
    <2>4. CASE kind = "pro"
        BY <2>4 DEF Json, Reads
    <2>5. CASE kind \notin {"mcp", "toml", "pro"} /\ kind \notin Json
        BY <2>5 DEF Reads
    <2> QED
        BY <2>1, <2>2, <2>3, <2>4, <2>5
<1>5. Len(backups) \in Nat
    BY DEF InstallTyped
<1>6. <<>> \in Texts /\ Fits(<<>>) /\ Whole(<<>>)
    BY DEF Fits, Whole, Texts, AtMostOnce, Absent
<1>7. read \in Texts \union Seq(Nat) /\ (kind /= "mcp" => Fits(read))
    <2>1. CASE kind = "mcp"
        <3> DEFINE k == Len(backups) + 1
        <3>1. k \in Nat /\ read = <<k>>
            BY <1>4, <1>5, <2>1
        <3> HIDE DEF k
        <3>2. <<k>> \in Seq(Nat)
            BY <3>1
        <3> QED
            BY <2>1, <3>1, <3>2
    <2>2. CASE kind /= "mcp"
        BY <1>4, <1>6, <2>2 DEF TextsFit
    <2> QED
        BY <2>1, <2>2
<1> HIDE DEF pc
<1>8. \A q \in Installers : /\ q /= p => inst'[q] = inst[q]
                            /\ q = p => inst'[q].pc = pc /\ inst'[q].read = read
    BY <1>1 DEF InstallTyped
<1>9. InstallTyped'
    BY <1>1, <1>2, <1>3, <1>7 DEF InstallTyped
<1>10. TextsFit'
    <2>1. Fits(file.text)'
        BY <1>1 DEF TextsFit, Fits
    <2>2. \A q \in Installers : inst'[q].pc = "write" /\ kind' /= "mcp" => Fits(inst'[q].read)
        BY <1>1, <1>7, <1>8 DEF TextsFit
    <2>3. \A q \in Installers : (inst[q].pc = "write" /\ kind /= "mcp" => Fits(inst[q].read))'
        BY <1>1, <2>2 DEF Fits
    <2>4. \A q \in Installers : inst'[q].pc = "backup" =>
                kind' = "mcp" /\ \E n \in 1..(Len(backups') + 1) : inst'[q].read = <<n>>
        <3> TAKE q \in Installers
        <3>1. CASE q = p
            <4>1. Len(backups) + 1 \in 1..(Len(backups) + 1)
                BY <1>5
            <4> QED
                BY <1>1, <1>3, <1>4, <1>8, <3>1, <4>1
        <3>2. CASE q /= p
            BY <1>1, <1>8, <3>2 DEF TextsFit
        <3> QED
            BY <3>1, <3>2
    <2> QED
        BY <2>1, <2>3, <2>4 DEF TextsFit
<1>11. past'.overlap = FALSE =>
          past.overlap = FALSE /\ \A q \in Installers : q /= p => inst'[q].pc = "idle"
    BY <1>2, <1>8 DEF AtWork
<1>12. OneAtATime'
    BY <1>2, <1>11 DEF OneAtATime
<1>13. StillTrue'
    <2>1. kind = "rules" /\ ~past'.crashed =>
             Whole(file.text) /\ \A q \in Installers : inst'[q].pc = "write" => Whole(inst'[q].read)
        BY <1>2, <1>4, <1>6, <1>8 DEF StillTrue
    <2>3. (kind \in Json /\ ~past.crashed /\ ~past.broken => file.parses)'
        BY <1>1, <1>2 DEF StillTrue
    <2>4. (kind = "rules" /\ ~past.crashed => Whole(file.text) /\
              \A q \in Installers : inst[q].pc = "write" => Whole(inst[q].read))'
        BY <1>1, <2>1 DEF Whole, AtMostOnce
    <2>5. ASSUME NEW q \in Installers, Unharmed', inst'[q].pc = "write", kind' /= "mcp"
          PROVE  inst'[q].read = file'.text \/ (kind' = "pro" /\ inst'[q].read = <<>>)
        <3>1. q = p /\ (kind \in Json => file.parses)
            BY <1>1, <1>2, <1>11, <2>3, <2>5 DEF Unharmed
        <3> QED
            BY <1>1, <1>4, <1>8, <2>5, <3>1
    <2>6. ASSUME NEW q \in Installers, kind' = "mcp", ~past'.overlap
          PROVE  /\ inst'[q].pc = "write" => ~file'.exists
                 /\ inst'[q].pc = "backup" => inst'[q].read = <<Len(backups') + 1>>
        BY <1>1, <1>2, <1>3, <1>4, <1>8, <1>11, <2>6
    <2>7. (Unharmed => Apart(file.text))'
        BY <1>1, <1>2, <1>11
           DEF StillTrue, Unharmed, Apart, InstallersPart, Block, Section, Places
    <2> QED
        BY <2>3, <2>4, <2>5, <2>6, <2>7 DEF StillTrue
<1>14. Survives' /\ Once'
    BY <1>1, <1>2 DEF Survives, Once, StillThere
<1> QED
    BY <1>9, <1>10, <1>12, <1>13, <1>14

LEMMA StopKeepsInv ==
    ASSUME InstallInv, NEW p \in Installers, Stop(p)
    PROVE  InstallInv'
<1> USE InstallParts DEF InstallInv
<1>1. /\ kind' = kind /\ file' = file /\ backups' = backups /\ past' = past
      /\ inst' = [inst EXCEPT ![p] = NotAtWork]
    BY DEF Stop
<1>2. \A q \in Installers : inst'[q] = inst[q] \/ inst'[q].pc = "idle"
    BY <1>1 DEF InstallTyped, NotAtWork
<1>3. InstallTyped'
    <2>1. NotAtWork \in [pc : {"idle", "backup", "write"}, read : Texts \union Seq(Nat)]
        BY DEF NotAtWork, Texts
    <2> QED
        BY <1>1, <2>1 DEF InstallTyped
<1>4. TextsFit'
    <2>1. Fits(file.text)'
        BY <1>1 DEF TextsFit, Fits
    <2>2. \A q \in Installers : inst'[q].pc = "write" /\ kind /= "mcp" => Fits(inst'[q].read)
        BY <1>2 DEF TextsFit
    <2>3. \A q \in Installers : (inst[q].pc = "write" /\ kind /= "mcp" => Fits(inst[q].read))'
        BY <1>1, <2>2 DEF Fits
    <2>4. \A q \in Installers : inst'[q].pc = "backup" =>
                kind' = "mcp" /\ \E n \in 1..(Len(backups') + 1) : inst'[q].read = <<n>>
        BY <1>1, <1>2 DEF TextsFit
    <2> QED
        BY <2>1, <2>3, <2>4 DEF TextsFit
<1>5. OneAtATime'
    <2>1. \A q \in Installers : inst'[q].pc /= "idle" => inst[q].pc /= "idle"
        BY <1>2
    <2> QED
        BY <1>1, <2>1 DEF OneAtATime
<1>6. StillTrue'
    BY <1>1, <1>2 DEF StillTrue, Unharmed, Whole, AtMostOnce, Apart, InstallersPart, Block,
                      Section, Places
<1>7. Survives' /\ Once'
    BY <1>1 DEF Survives, Once, StillThere
<1> QED
    BY <1>3, <1>4, <1>5, <1>6, <1>7

\* An installer that has been at work, and is no more, leaves the others as they were.
LEMMA NewFileKeepsTexts ==
    ASSUME InstallInv, NEW p \in Installers, kind' = kind, backups' = backups,
           inst' = [inst EXCEPT ![p] = NotAtWork], Fits(file'.text)
    PROVE  /\ inst' \in [Installers -> [pc : {"idle", "backup", "write"},
                                        read : Texts \union Seq(Nat)]]
           /\ inst'[p].pc = "idle" /\ \A q \in Installers : q /= p => inst'[q] = inst[q]
           /\ TextsFit'
<1> USE InstallParts DEF InstallInv
<1>1. NotAtWork \in [pc : {"idle", "backup", "write"}, read : Texts \union Seq(Nat)]
      /\ NotAtWork.pc = "idle"
    BY DEF NotAtWork, Texts
<1>2. inst'[p].pc = "idle" /\ \A q \in Installers : q /= p => inst'[q] = inst[q]
    BY <1>1 DEF InstallTyped
<1>3. Fits(file.text)'
    BY DEF Fits
<1>4. \A q \in Installers : inst'[q].pc = "write" /\ kind /= "mcp" => Fits(inst'[q].read)
    BY <1>2 DEF TextsFit
<1>5. \A q \in Installers : (inst[q].pc = "write" /\ kind /= "mcp" => Fits(inst[q].read))'
    BY <1>4 DEF Fits
<1>6. \A q \in Installers : inst'[q].pc = "backup" =>
            kind' = "mcp" /\ \E n \in 1..(Len(backups') + 1) : inst'[q].read = <<n>>
    BY <1>2 DEF TextsFit
<1>7. TextsFit'
    BY <1>3, <1>5, <1>6 DEF TextsFit
<1> QED
    BY <1>1, <1>2, <1>7 DEF InstallTyped

\* The user's file becomes a backup, under a name that was free.
LEMMA BackupKeepsInv ==
    ASSUME InstallInv, NEW p \in Installers, Backup(p)
    PROVE  InstallInv'
<1> USE InstallParts DEF InstallInv
<1>1. CASE ~file.exists
    <2>1. Stop(p)
        BY <1>1 DEF Backup, Stop
    <2> QED
        BY <2>1, StopKeepsInv
<1>2. CASE file.exists
    <2>1. /\ kind' = kind /\ past' = past /\ inst[p].pc = "backup"
          /\ PutBackup(inst[p].read[1], file.text)
          /\ file' = [exists |-> FALSE, text |-> <<>>, parses |-> TRUE]
          /\ inst' = [inst EXCEPT ![p].pc = "write"]
        BY <1>2 DEF Backup
    <2>2. kind = "mcp"
        BY <2>1 DEF TextsFit
    <2>3. PICK n \in 1..(Len(backups) + 1) : inst[p].read = <<n>>
        BY <2>1 DEF TextsFit
    <2>4. backups \in Seq(Texts) /\ Len(backups) \in Nat /\ file.text \in Texts
        BY DEF InstallTyped
    <2>5. backups' = IF n <= Len(backups) THEN [backups EXCEPT ![n] = file.text]
                     ELSE Append(backups, file.text)
        BY <2>1, <2>3 DEF PutBackup
    <2>6. backups' \in Seq(Texts) /\ Len(backups') \in Nat /\ Len(backups') >= Len(backups)
        BY <2>4, <2>5
    <2>7. /\ inst'[p].pc = "write" /\ \A q \in Installers : q /= p => inst'[q] = inst[q]
          /\ inst' \in [Installers -> [pc : {"idle", "backup", "write"},
                                       read : Texts \union Seq(Nat)]]
        BY <2>1 DEF InstallTyped
    <2>8. <<>> \in Texts /\ Fits(<<>>)
        BY DEF Fits, Texts, AtMostOnce, Absent
    <2>9. InstallTyped'
        BY <2>1, <2>6, <2>7, <2>8 DEF InstallTyped
    <2>10. TextsFit'
        <3>1. Fits(file.text)'
            BY <2>1, <2>8 DEF Fits
        <3>2. \A q \in Installers : inst'[q].pc = "backup" =>
                \E m \in 1..(Len(backups') + 1) : inst'[q].read = <<m>>
            <4> SUFFICES ASSUME NEW q \in Installers, inst'[q].pc = "backup"
                         PROVE  \E m \in 1..(Len(backups') + 1) : inst'[q].read = <<m>>
                OBVIOUS
            <4>1. inst'[q] = inst[q]
                BY <2>7
            <4>2. PICK m \in 1..(Len(backups) + 1) : inst[q].read = <<m>>
                BY <4>1 DEF TextsFit
            <4>3. m \in 1..(Len(backups') + 1)
                BY <2>4, <2>6
            <4> QED
                BY <4>1, <4>2, <4>3
        <3> QED
            BY <2>1, <2>2, <3>1, <3>2 DEF TextsFit
    <2>11. ~past.sound /\ (~past.overlap => \A q \in Installers : q /= p => inst[q].pc = "idle")
        BY <2>1 DEF OneAtATime
    <2>12. OneAtATime'
        BY <2>1, <2>7, <2>11 DEF OneAtATime
    <2>13. StillTrue'
        BY <2>1, <2>2, <2>7, <2>11 DEF StillTrue, Json, Apart, InstallersPart
    <2>14. Survives'
        <3> SUFFICES ASSUME ~past.overlap, NEW x \in past.wrote
                     PROVE  StillThere(x)'
            BY <2>1 DEF Survives
        <3>1. inst[p].read = <<Len(backups) + 1>>
            BY <2>1, <2>2 DEF StillTrue
        <3>2. backups' = Append(backups, file.text)
            BY <2>3, <2>4, <2>5, <3>1
        <3>3. StillThere(x)
            BY <2>2 DEF Survives, Json
        <3>4. /\ \A m \in DOMAIN backups : m \in DOMAIN backups' /\ backups'[m] = backups[m]
              /\ Len(backups) + 1 \in DOMAIN backups' /\ backups'[Len(backups) + 1] = file.text
            BY <2>4, <3>2
        <3> QED
            BY <3>3, <3>4 DEF StillThere
    <2>15. Once'
        BY <2>1, <2>11 DEF Once
    <2> QED
        BY <2>9, <2>10, <2>12, <2>13, <2>14, <2>15
<1> QED
    BY <1>1, <1>2

\* A write puts the user's text back, for it was read from the file, or the file
\* had gone to a backup.
LEMMA WriteKeepsInv ==
    ASSUME InstallInv, NEW p \in Installers, Write(p)
    PROVE  InstallInv'
<1> USE InstallParts DEF InstallInv
<1> DEFINE read == inst[p].read
           new == NewText(read)
<1>1. /\ kind' = kind /\ backups' = backups /\ inst[p].pc = "write"
      /\ inst' = [inst EXCEPT ![p] = NotAtWork]
      /\ file' = [exists |-> TRUE, text |-> new, parses |-> TRUE]
    BY DEF Write
<1> DEFINE gone == kind = "pro" /\ read = <<>>
           wrote == IF gone THEN {} ELSE past.wrote
<1>2. /\ past'.wrote = wrote /\ past'.sound = ~past.overlap
      /\ past'.overlap = past.overlap
      /\ past'.crashed = past.crashed /\ past'.broken = past.broken
      /\ past' \in [wrote : SUBSET Settings, installs : Nat, overlap : BOOLEAN,
                    crashed : BOOLEAN, broken : BOOLEAN, sound : BOOLEAN]
    <2> DEFINE s == ~past.overlap
    <2>1. past' = [past EXCEPT !.sound = s, !.wrote = wrote] /\ s \in BOOLEAN
        BY DEF Write
    <2>2. wrote \in SUBSET Settings
        OBVIOUS
    <2> HIDE DEF s, wrote
    <2>3. /\ past'.wrote = wrote /\ past'.sound = s /\ past'.overlap = past.overlap
          /\ past'.crashed = past.crashed /\ past'.broken = past.broken
          /\ past' \in [wrote : SUBSET Settings, installs : Nat, overlap : BOOLEAN,
                        crashed : BOOLEAN, broken : BOOLEAN, sound : BOOLEAN]
        BY <2>1, <2>2 DEF InstallTyped
    <2> QED
        BY <2>3 DEF s
<1>3. /\ Fits(new)
      /\ IF kind = "rules" THEN ~Absent(new, End)
         ELSE ~Absent(new, Managed) /\ Absent(new, Obsolete)
      /\ kind = "rules" /\ Whole(read) => Whole(new)
      /\ kind /= "mcp" /\ (kind = "rules" => Whole(read)) => Keeps(new, read)
      /\ (kind = "rules" => Whole(read)) => FreeOfSettings(new)
    <2>1. kind \in AllKinds /\ (kind /= "mcp" => Fits(read))
        BY <1>1 DEF InstallTyped, TextsFit
    <2> HIDE DEF read
    <2> QED
        BY <2>1, NewTextFits
<1> HIDE DEF new
<1>4. new \in Texts /\ file'.text = new
    BY <1>1, <1>3 DEF Fits
<1>5. /\ inst' \in [Installers -> [pc : {"idle", "backup", "write"},
                                   read : Texts \union Seq(Nat)]]
      /\ inst'[p].pc = "idle" /\ \A q \in Installers : q /= p => inst'[q] = inst[q]
      /\ TextsFit'
    BY <1>1, <1>3, <1>4, NewFileKeepsTexts
<1>6. InstallTyped'
    BY <1>1, <1>2, <1>4, <1>5 DEF InstallTyped
<1>7. ~past.overlap => \A q \in Installers : inst'[q].pc = "idle"
    BY <1>1, <1>5 DEF OneAtATime
<1>8. OneAtATime'
    BY <1>2, <1>7, <1>5, <1>1 DEF OneAtATime
<1>9. StillTrue'
    <2>1. kind = "rules" /\ ~past.crashed =>
             /\ Whole(read) /\ Whole(new)
             /\ \A q \in Installers : inst'[q].pc = "write" => Whole(inst'[q].read)
        BY <1>1, <1>3, <1>5 DEF StillTrue
    <2>2. (kind = "rules" /\ ~past.crashed => Whole(file.text) /\
              \A q \in Installers : inst[q].pc = "write" => Whole(inst[q].read))'
        BY <1>1, <1>2, <1>4, <2>1 DEF Whole, AtMostOnce
    <2>3. Unharmed' => \A i \in InstallersPart(new) : new[i] \notin Settings
        BY <1>1, <1>2, <1>3, <2>1 DEF Unharmed, FreeOfSettings
    <2>4. past'.wrote \in SUBSET Settings
        BY <1>2
    <2>5. (Unharmed => Apart(file.text))'
        BY <1>1, <1>4, <2>3, <2>4 DEF Apart, InstallersPart, Block, Section, Places
    <2>6. (kind \in Json /\ ~past.crashed /\ ~past.broken => file.parses)'
        BY <1>1
    <2> QED
        BY <1>1, <1>2, <1>7, <2>2, <2>5, <2>6 DEF StillTrue, Unharmed
<1>10. Survives'
    <2> SUFFICES ASSUME ~past.overlap, kind = "mcp" \/ ~past.crashed,
                        kind \notin Json \/ ~past.broken, NEW x \in wrote
                 PROVE  StillThere(x)'
        BY <1>1, <1>2 DEF Survives
    <2>1. x \in past.wrote /\ ~gone
        OBVIOUS
    <2> HIDE DEF wrote
    <2>2. StillThere(x) /\ x \in Settings
        BY <2>1 DEF Survives
    <2>3. CASE kind = "mcp"
        <3>1. file.text = <<>>
            BY <1>1, <2>3 DEF StillTrue, InstallTyped
        <3> QED
            BY <1>1, <2>2, <3>1 DEF StillThere
    <2>4. CASE kind /= "mcp"
        <3>1. read = file.text /\ (kind = "rules" => Whole(read)) /\ Apart(file.text)
            BY <1>1, <2>1, <2>4 DEF StillTrue, Unharmed
        <3>2. Keeps(new, file.text)
            BY <1>3, <2>4, <3>1
        <3>3. \A i \in DOMAIN file.text : file.text[i] = x => \E m \in DOMAIN new : new[m] = x
            BY <2>1, <2>2, <3>1, <3>2 DEF Keeps, Apart
        <3> QED
            BY <1>1, <1>4, <2>2, <3>3 DEF StillThere
    <2> QED
        BY <2>3, <2>4
<1>11. Once'
    BY <1>1, <1>3, <1>4 DEF Once, Absent
<1> QED
    BY <1>6, <1>5, <1>8, <1>9, <1>10, <1>11

\* A write that is cut can lose what no backup holds.
LEMMA WriteCutKeepsInv ==
    ASSUME InstallInv, NEW p \in Installers, WriteCut(p)
    PROVE  InstallInv'
<1> USE InstallParts DEF InstallInv
<1> DEFINE read == inst[p].read
           new == NewText(read)
<1>1. /\ kind' = kind /\ backups' = backups /\ inst[p].pc = "write"
      /\ inst' = [inst EXCEPT ![p] = NotAtWork]
      /\ past' = [past EXCEPT !.crashed = TRUE, !.sound = FALSE]
    BY DEF WriteCut
<1>2. PICK n \in 0..(Len(new) - 1), parses \in BOOLEAN :
          file' = [exists |-> TRUE, text |-> SubSeq(new, 1, n), parses |-> parses \/ kind \in {"rules", "rulefile"}]
    BY DEF WriteCut
<1>3. Fits(new)
    <2>1. kind \in AllKinds /\ (kind /= "mcp" => Fits(read))
        BY <1>1 DEF InstallTyped, TextsFit
    <2> HIDE DEF read
    <2> QED
        BY <2>1, NewTextFits
<1> HIDE DEF new
<1>4. Fits(SubSeq(new, 1, n))
    <2>1. n \in 0..Len(new)
        BY <1>3 DEF Fits, Texts
    <2> QED
        BY <1>3, <2>1, CutFits
<1> DEFINE cut == SubSeq(new, 1, n)
           whole == parses \/ kind \in {"rules", "rulefile"}
<1>5. cut \in Texts /\ whole \in BOOLEAN
    BY <1>4 DEF Fits
<1>6. file' = [exists |-> TRUE, text |-> cut, parses |-> whole] /\ Fits(cut)
    BY <1>2, <1>4
<1> HIDE DEF cut, whole
<1>7. /\ inst' \in [Installers -> [pc : {"idle", "backup", "write"},
                                   read : Texts \union Seq(Nat)]]
      /\ inst'[p].pc = "idle" /\ \A q \in Installers : q /= p => inst'[q] = inst[q]
      /\ TextsFit'
    BY <1>1, <1>6, NewFileKeepsTexts
<1>8. /\ past'.wrote = past.wrote /\ past'.sound = FALSE /\ past'.crashed = TRUE
      /\ past'.overlap = past.overlap /\ past'.broken = past.broken
      /\ past' \in [wrote : SUBSET Settings, installs : Nat, overlap : BOOLEAN,
                    crashed : BOOLEAN, broken : BOOLEAN, sound : BOOLEAN]
    BY <1>1 DEF InstallTyped
<1>9. InstallTyped'
    BY <1>1, <1>5, <1>6, <1>7, <1>8 DEF InstallTyped
<1>10. ~past.overlap => \A q \in Installers : inst'[q].pc = "idle"
    BY <1>1, <1>7 DEF OneAtATime
<1>11. OneAtATime'
    BY <1>8, <1>10, <1>7, <1>1 DEF OneAtATime
<1>12. StillTrue'
    <2>1. (Unharmed => Apart(file.text))'
        <3>1. CASE kind = "mcp"
            BY <1>1, <3>1 DEF Apart, InstallersPart
        <3>2. CASE kind /= "mcp"
            BY <1>1, <1>8, <3>2 DEF Unharmed
        <3> QED
            BY <3>1, <3>2
    <2> QED
        BY <1>1, <1>8, <1>10, <2>1 DEF StillTrue, Unharmed
<1>13. Survives'
    <2> SUFFICES ASSUME kind = "mcp", ~past.overlap, NEW x \in past.wrote
                 PROVE  StillThere(x)'
        BY <1>1, <1>8 DEF Survives
    <2>1. StillThere(x)
        BY DEF Survives, Json
    <2>2. file.text = <<>>
        BY <1>1 DEF StillTrue, InstallTyped
    <2> QED
        BY <1>1, <2>1, <2>2 DEF StillThere
<1>14. Once'
    BY <1>8 DEF Once
<1> QED
    BY <1>7, <1>9, <1>11, <1>12, <1>13, <1>14

LEMMA InstallInvNext == InstallInv /\ [InstallNext]_installVars => InstallInv'
<1> SUFFICES ASSUME InstallInv, [InstallNext]_installVars PROVE InstallInv'
    OBVIOUS
<1>1. CASE UserWrites
    BY <1>1, UserWritesKeepsInv
<1>2. CASE UserBreaks
    BY <1>2, UserBreaksKeepsInv
<1>3. CASE \E p \in Installers : Begin(p)
    BY <1>3, BeginKeepsInv
<1>4. CASE \E p \in Installers : Backup(p)
    BY <1>4, BackupKeepsInv
<1>5. CASE \E p \in Installers : Write(p)
    BY <1>5, WriteKeepsInv
<1>6. CASE \E p \in Installers : WriteCut(p)
    BY <1>6, WriteCutKeepsInv
<1>7. CASE \E p \in Installers : Stop(p)
    BY <1>7, StopKeepsInv
<1>8. CASE UNCHANGED installVars
    BY <1>8 DEF installVars, InstallInv, InstallTyped, TextsFit, OneAtATime, StillTrue,
                Survives, Once, Fits, Whole, AtMostOnce, Absent, StillThere, Unharmed, Apart,
                InstallersPart, Block, Section, Places
<1> QED
    BY <1>1, <1>2, <1>3, <1>4, <1>5, <1>6, <1>7, <1>8 DEF InstallNext

\* The inductive invariant of the installers.
THEOREM InstallInvariant == InstallSpec => []InstallInv
BY InstallInvInitially, InstallInvNext, PTL DEF InstallSpec

\* An item that stands in one place is counted once, one that is absent not at all.
LEMMA Counting ==
    ASSUME NEW text \in Texts, NEW x
    PROVE  LET places == {n \in DOMAIN text : text[n] = x} IN
           /\ AtMostOnce(text, x) /\ ~Absent(text, x) => Cardinality(places) = 1
           /\ Absent(text, x) => Cardinality(places) = 0
<1> DEFINE places == {n \in DOMAIN text : text[n] = x}
<1>1. ASSUME AtMostOnce(text, x), ~Absent(text, x)
      PROVE  Cardinality(places) = 1
    <2>1. PICK n \in DOMAIN text : text[n] = x
        BY <1>1 DEF Absent
    <2>2. places = {n}
        BY <1>1, <2>1 DEF AtMostOnce
    <2> HIDE DEF places
    <2> QED
        BY <2>2, FS_Singleton
<1>2. ASSUME Absent(text, x)
      PROVE  Cardinality(places) = 0
    <2>1. places = {}
        BY <1>2 DEF Absent
    <2> HIDE DEF places
    <2> QED
        BY <2>1, FS_EmptySet
<1> QED
    BY <1>1, <1>2

LEMMA InstallInvImplies == InstallInv => InstallTypeOK /\ InstallsAreRepeatable
<1> SUFFICES ASSUME InstallInv PROVE InstallTypeOK /\ InstallsAreRepeatable
    OBVIOUS
<1>1. InstallTypeOK
    <2> QED
        BY InstallParts DEF InstallInv, InstallTypeOK, InstallTyped
<1>2. UserTextSurvives
    <2>1. ASSUME NEW x, StillThere(x)
          PROVE  x \in ToSet(file.text) \union UNION {ToSet(b) : b \in ToSet(backups)}
        BY <2>1 DEF StillThere, ToSet
    <2> QED
        BY <2>1 DEF InstallInv, Survives, UserTextSurvives
<1>3. InstalledOnce
    <2> SUFFICES ASSUME past.sound
                 PROVE  LET count(t) == Cardinality({n \in DOMAIN file.text : file.text[n] = t}) IN
                        IF kind = "rules" THEN count(End) = 1
                        ELSE count(Managed) = 1 /\ count(Obsolete) = 0
        BY DEF InstalledOnce
    <2>1. /\ file.text \in Texts /\ AtMostOnce(file.text, End) /\ AtMostOnce(file.text, Managed)
          /\ IF kind = "rules" THEN ~Absent(file.text, End)
             ELSE ~Absent(file.text, Managed) /\ Absent(file.text, Obsolete)
        BY DEF InstallInv, TextsFit, Fits, Once
    <2> QED
        BY <2>1, Counting
<1> QED
    BY <1>1, <1>2, <1>3 DEF InstallsAreRepeatable

\* The types of the installers' state, for the files, settings and processes there are.
THEOREM InstallTypeCorrect == InstallSpec => []InstallTypeOK
BY InstallInvariant, InstallInvImplies, PTL

\* What the user wrote outside the installer's part of a file, anywhere in it, survives
\* any number of installs, and what an installer puts there is there once: however many
\* installs, stopped or cut anywhere.
THEOREM InstallingAgainIsSafe == InstallSpec => []InstallsAreRepeatable
BY InstallInvariant, InstallInvImplies, PTL
=============================================================================
