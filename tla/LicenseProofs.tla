---------------------------- MODULE LicenseProofs ----------------------------
(***************************************************************************)
(* Proofs about License, for every number of clients, machines and         *)
(* requests, every TTL and every number of crashes.                        *)
(***************************************************************************)
EXTENDS License, TLAPS

-----------------------------------------------------------------------------
(* The inductive invariant.                                                *)

\* What a request is about: clients verify, admins do not, each key is created by
\* one request, and a request holds a database only while it is about to save it.
Shape ==
    /\ \A r \in Requests : request[r].pc # "none" => request[r].license \in Licenses
    /\ \A c \in Clients : request[c].op = "verify"
    /\ \A c \in Clients : client[c].pc = "start" => request[c].pc = "none"
    /\ \A a \in Admins : request[a].op = "verify" => request[a].pc = "none"
    /\ \A r \in Requests : request[r].token # NoToken => request[r].pc = "answered"
    /\ \A r \in Requests : request[r].pc \in {"save", "write"} <=> request[r].next # Corrupt
    /\ \A a, b \in Admins :
           request[a].op = "create" /\ request[b].op = "create"
               /\ request[a].license = request[b].license => a = b

\* The server's only thread, and what its phase says of the database file: it does
\* not parse exactly while it is written, or once a save has failed.
OneThread ==
    /\ \A q, r \in Requests : request[q].pc \in Handled /\ request[r].pc \in Handled => q = r
    /\ \A r \in Requests :
           /\ request[r].pc \in {"save", "reply"} => db # Corrupt
           /\ request[r].pc = "write" => db = Corrupt

\* The database d agrees with every answer given: the locks with the tokens, the
\* statuses with what admins were told and when licenses were revoked, the records
\* with the keys that were created.  S is {}, or the request d is the save of.
Agrees(d, S) ==
    /\ \A c \in Clients :
           request[c].token # NoToken =>
               d[request[c].token.license].machine = request[c].token.machine
    /\ \A a \in Admins :
           request[a].pc \in {"reply", "answered"} \/ a \in S =>
               /\ request[a].op = "create" => d[request[a].license].status # "none"
               /\ request[a].op = "revoke" => d[request[a].license].status = "revoked"
    /\ \A l \in Licenses : revoked[l] # 0 => d[l].status = "revoked"
    /\ \A l \in Licenses :
           d[l] # NoRecord =>
               \E a \in Admins :
                   /\ request[a].op = "create" /\ request[a].license = l
                   /\ a \in S \/ request[a].pc \in {"reply", "answered", "dropped"}

\* A client's request that is past the checks: its license is active, and locked to
\* the client's machine in the database d.
Cleared(d, r) ==
    r \in Clients =>
        /\ revoked[request[r].license] = 0
        /\ d[request[r].license].machine = Host[r]

Books ==
    /\ db # Corrupt => Agrees(db, {})
    /\ \A r \in Requests :
           /\ request[r].pc \in {"save", "write"} =>
                  Agrees(request[r].next, {r}) /\ Cleared(request[r].next, r)
           /\ request[r].pc = "reply" => Cleared(db, r)

IInv == TypeOK /\ Shape /\ OneThread /\ Books /\ OneMachine

\* No token outlives its license's TTL, counted from now or from the revocation.
Bounded(t) ==
    t # NoToken =>
        /\ t.expires <= clock + Ttl[t.license]
        /\ revoked[t.license] # 0 => t.expires <= revoked[t.license] + Ttl[t.license]

TokensBounded ==
    /\ \A r \in Requests : Bounded(request[r].token)
    /\ \A m \in Machines : Bounded(cache[m])
    /\ \A c \in Clients :
           /\ Bounded(client[c].token)
           /\ client[c].pc \in {"truncate", "fill", "trusted"} =>
                  client[c].token # NoToken /\ client[c].at < client[c].token.expires

-----------------------------------------------------------------------------
(* Type correctness.                                                       *)

LEMMA ConstantTypes ==
    /\ NoRecord \in Record
    /\ NoToken \notin Token
    /\ NoRequest \in RequestState
    /\ NewClient \in ClientState
    /\ MaxClock \in Nat \ {0} /\ MaxFaults \in Nat
    /\ \A l \in Licenses : Ttl[l] \in Nat
<1>1. NoToken \notin Token
  BY LicenseAssumption DEF NoToken, Token
<1>2. NoRecord \in Record
  BY DEF NoRecord, Record
<1>3. NoRequest \in RequestState
  BY DEF NoRequest, RequestState
<1>4. NewClient \in ClientState
  BY DEF NewClient, ClientState
<1>5. QED
  BY <1>1, <1>2, <1>3, <1>4, LicenseAssumption

\* Clients have requests, and machines with a fingerprint.
LEMMA Clienthood ==
    /\ Clients \subseteq Requests /\ Admins \subseteq Requests
    /\ \A c \in Clients : Host[c] \in Machines /\ Machine(c) = Host[c] /\ c \notin Admins
    /\ \A r \in Requests : Machine(r) \in Machines \union {NoMachine}
    /\ NoMachine \notin Machines
BY LicenseAssumption DEF Requests, Machine

\* What a handler puts together is a database.
LEMMA UpdatedType ==
    ASSUME NEW r \in Requests, db \in Database, request[r].license \in Licenses,
           request[r].op \in {"verify", "create", "revoke"}
    PROVE  Updated(r) \in Database /\ Updated(r) # Corrupt
<1>1. \A rec \in Record : /\ [rec EXCEPT !.machine = Machine(r)] \in Record
                          /\ [rec EXCEPT !.status = "revoked"] \in Record
  BY Clienthood DEF Record
<1>2. [NoRecord EXCEPT !.status = "active"] \in Record
  BY DEF NoRecord, Record
<1>3. Updated(r) \in Database
  <2>1. CASE request[r].op = "verify"
    BY <1>1, <2>1 DEF Updated, Database
  <2>2. CASE request[r].op = "create"
    BY <1>2, <2>2 DEF Updated, Database
  <2>3. CASE request[r].op = "revoke"
    BY <1>1, <2>3 DEF Updated, Database
  <2>4. QED
    BY <2>1, <2>2, <2>3
<1>4. QED
  BY <1>3, CorruptAssumption

LEMMA InitTypeOK == Init => TypeOK
<1>1. [l \in Licenses |-> NoRecord] \in Database
  BY ConstantTypes DEF Database
<1>2. 1 \in 1 .. MaxClock /\ 0 \in 0 .. MaxFaults
  BY ConstantTypes
<1>3. QED
  BY <1>1, <1>2, ConstantTypes DEF Init, TypeOK

\* What the steps make of one request
LEMMA RequestTypes ==
    ASSUME TypeOK, Shape, NEW r \in Requests
    PROVE  /\ request[r] \in RequestState
           /\ \A op \in {"verify", "create", "revoke"}, l \in Licenses : Queued(op, l) \in RequestState
           /\ \A pc \in {"dropped", "refused", "reply", "write", "answered"} :
                  /\ [request[r] EXCEPT !.pc = pc] \in RequestState
                  /\ [request[r] EXCEPT !.pc = pc, !.next = Corrupt] \in RequestState
<1>1. request[r] \in RequestState
  BY DEF TypeOK
<1>2. ASSUME NEW op \in {"verify", "create", "revoke"}, NEW l \in Licenses
      PROVE  Queued(op, l) \in RequestState
  BY ConstantTypes DEF Queued, NoRequest, RequestState
<1>3. QED
  BY <1>1, <1>2 DEF RequestState, Handled

LEMMA ServerTypeOK ==
    ASSUME TypeOK, Shape, NEW r \in Requests, ServerStep(r) \/ FailWrite(r)
    PROVE  TypeOK'
<1>. USE DEF TypeOK
<1>1. /\ request \in [Requests -> RequestState]
      /\ request[r] \in RequestState
      /\ clock \in Nat
  BY ConstantTypes
<1>2. CASE Accept(r)
  <2>1. request[r].pc = "queued" /\ request[r].license \in Licenses
    BY <1>2 DEF Accept, Shape
  <2>2. CASE db = Corrupt
    <3>1. [request[r] EXCEPT !.pc = "dropped", !.next = Corrupt] \in RequestState
      BY RequestTypes
    <3>2. request' = [request EXCEPT ![r] = [request[r] EXCEPT !.pc = "dropped", !.next = Corrupt]]
      BY <1>1, <1>2, <2>2 DEF Accept, Handle
    <3>3. QED
      BY <1>1, <1>2, <3>1, <3>2 DEF Accept
  <2>3. CASE db # Corrupt
    <3>1. Updated(r) \in Database
      BY <1>1, <2>1, <2>3, UpdatedType DEF RequestState
    <3>2. Verdict(r) \in {"refused", "reply", "save"}
      BY DEF Verdict
    <3>3. \A next \in {Updated(r), Corrupt} :
              [request[r] EXCEPT !.pc = Verdict(r), !.next = next] \in RequestState
      BY <1>1, <3>1, <3>2 DEF RequestState, Handled
    <3>4. PICK next \in {Updated(r), Corrupt} :
              request' = [request EXCEPT ![r] = [request[r] EXCEPT !.pc = Verdict(r), !.next = next]]
      BY <1>1, <1>2, <2>3 DEF Accept, Handle
    <3>5. QED
      BY <1>1, <1>2, <3>3, <3>4 DEF Accept
  <2>4. QED
    BY <2>2, <2>3
<1>3. CASE TruncateDb(r)
  <2>1. [request[r] EXCEPT !.pc = "write"] \in RequestState
    BY RequestTypes
  <2>2. request' = [request EXCEPT ![r] = [request[r] EXCEPT !.pc = "write"]]
    BY <1>1, <1>3 DEF TruncateDb
  <2>3. QED
    BY <1>1, <1>3, <2>1, <2>2 DEF TruncateDb
<1>4. CASE WriteDb(r)
  <2>1. [request[r] EXCEPT !.pc = "reply", !.next = Corrupt] \in RequestState
    BY RequestTypes
  <2>2. request' = [request EXCEPT ![r] = [request[r] EXCEPT !.pc = "reply", !.next = Corrupt]]
    BY <1>1, <1>4 DEF WriteDb
  <2>3. request[r].next \in Database \union {Corrupt}
    BY <1>1 DEF RequestState
  <2>4. revoked' \in [Licenses -> Nat]
    BY <1>1, <1>4 DEF WriteDb
  <2>5. QED
    BY <1>1, <1>4, <2>1, <2>2, <2>3, <2>4 DEF WriteDb
<1>5. CASE Reply(r)
  <2>. DEFINE token == IF request[r].op # "verify" THEN NoToken
                       ELSE [license |-> request[r].license, machine |-> Machine(r),
                             expires |-> clock + Ttl[request[r].license]]
  <2>1. token \in Token \union {NoToken}
    <3>1. CASE request[r].op # "verify"
      BY <3>1
    <3>2. CASE request[r].op = "verify"
      <4>1. request[r].license \in Licenses /\ r \in Clients
        BY <1>5, <3>2 DEF Reply, Shape, Requests
      <4>2. Machine(r) \in Machines /\ clock + Ttl[request[r].license] \in Nat
        BY <1>1, <4>1, Clienthood, ConstantTypes
      <4>3. QED
        BY <3>2, <4>1, <4>2 DEF Token
    <3>3. QED
      BY <3>1, <3>2
  <2>2. [request[r] EXCEPT !.pc = "answered", !.token = token] \in RequestState
    <3>. HIDE DEF token
    <3>1. QED
      BY <1>1, <2>1 DEF RequestState
  <2>3. request' = [request EXCEPT ![r] = [request[r] EXCEPT !.pc = "answered", !.token = token]]
    BY <1>1, <1>5 DEF Reply
  <2>4. QED
    BY <1>1, <1>5, <2>2, <2>3 DEF Reply
<1>6. CASE FailWrite(r)
  <2>1. [request[r] EXCEPT !.pc = "dropped", !.next = Corrupt] \in RequestState
    BY RequestTypes
  <2>2. request' = [request EXCEPT ![r] = [request[r] EXCEPT !.pc = "dropped", !.next = Corrupt]]
    BY <1>1, <1>6 DEF FailWrite
  <2>3. faults' \in 0 .. MaxFaults
    BY <1>6, ConstantTypes DEF FailWrite
  <2>4. QED
    BY <1>1, <1>6, <2>1, <2>2, <2>3 DEF FailWrite
<1>7. QED
  BY <1>2, <1>3, <1>4, <1>5, <1>6 DEF ServerStep

LEMMA ClientTypeOK ==
    ASSUME TypeOK, Shape, NEW c \in Clients,
           \/ UseCache(c) \/ NoKey(c) \/ \E l \in Licenses : AskVerify(c, l)
           \/ ClientStep(c) \/ FailCache(c)
    PROVE  TypeOK'
<1>. USE DEF TypeOK
<1>1. /\ client \in [Clients -> ClientState]
      /\ client[c] \in ClientState
      /\ request[c] \in RequestState
      /\ cache[Host[c]] \in Token \union {NoToken}
      /\ c \in Requests /\ Host[c] \in Machines
      /\ clock \in Nat
  BY Clienthood, ConstantTypes
<1>2. \A pc \in {"wait", "truncate", "fill", "trusted", "blocked"}, t \in Token \union {NoToken} :
          /\ [client[c] EXCEPT !.pc = pc] \in ClientState
          /\ [pc |-> pc, token |-> t, at |-> clock] \in ClientState
  BY <1>1 DEF ClientState
<1>3. CASE UseCache(c)
  BY <1>1, <1>2, <1>3 DEF UseCache
<1>4. CASE NoKey(c)
  <2>1. client' = [client EXCEPT ![c] = [client[c] EXCEPT !.pc = "blocked"]]
    BY <1>1, <1>4 DEF NoKey
  <2>2. QED
    BY <1>1, <1>2, <1>4, <2>1 DEF NoKey
<1>5. CASE \E l \in Licenses : AskVerify(c, l)
  <2>1. PICK l \in Licenses : AskVerify(c, l)
    BY <1>5
  <2>2. Queued("verify", l) \in RequestState
    BY <1>1, RequestTypes
  <2>3. client' = [client EXCEPT ![c] = [client[c] EXCEPT !.pc = "wait"]]
    BY <1>1, <2>1 DEF AskVerify
  <2>4. QED
    BY <1>1, <1>2, <2>1, <2>2, <2>3 DEF AskVerify
<1>6. CASE Receive(c)
  <2>1. request[c].token \in Token \union {NoToken}
    BY <1>1 DEF RequestState
  <2>2. QED
    BY <1>1, <1>2, <1>6, <2>1 DEF Receive
<1>7. CASE GiveUp(c)
  <2>1. client' = [client EXCEPT ![c] = [client[c] EXCEPT !.pc = "blocked"]]
    BY <1>1, <1>7 DEF GiveUp
  <2>2. QED
    BY <1>1, <1>2, <1>7, <2>1 DEF GiveUp
<1>8. CASE TruncateCache(c)
  <2>1. client' = [client EXCEPT ![c] = [client[c] EXCEPT !.pc = "fill"]]
    BY <1>1, <1>8 DEF TruncateCache
  <2>2. QED
    BY <1>1, <1>2, <1>8, <2>1 DEF TruncateCache
<1>9. CASE FillCache(c)
  <2>1. PICK left \in {client[c].token, NoToken} : cache' = [cache EXCEPT ![Host[c]] = left]
    BY <1>9 DEF FillCache
  <2>2. left \in Token \union {NoToken}
    BY <1>1, <2>1 DEF ClientState
  <2>3. PICK pc \in {"trusted", "blocked"} :
            client' = [client EXCEPT ![c] = [client[c] EXCEPT !.pc = pc]]
    BY <1>1, <1>9 DEF FillCache
  <2>4. QED
    BY <1>1, <1>2, <1>9, <2>1, <2>2, <2>3 DEF FillCache
<1>10. CASE FailCache(c)
  <2>1. client' = [client EXCEPT ![c] = [client[c] EXCEPT !.pc = "blocked"]]
    BY <1>1, <1>10 DEF FailCache
  <2>2. faults' \in 0 .. MaxFaults
    BY <1>10, ConstantTypes DEF FailCache
  <2>3. QED
    BY <1>1, <1>2, <1>10, <2>1, <2>2 DEF FailCache
<1>11. QED
  BY <1>3, <1>4, <1>5, <1>6, <1>7, <1>8, <1>9, <1>10 DEF ClientStep

LEMMA TypeStep == ASSUME TypeOK, Shape, [Next]_vars PROVE TypeOK'
<1>1. CASE Tick
  <2>1. clock' \in 1 .. MaxClock
    BY <1>1, ConstantTypes DEF Tick, TypeOK
  <2>2. QED
    BY <1>1, <2>1 DEF Tick, TypeOK
<1>2. CASE Crash
  <2>1. ASSUME NEW r \in Requests
        PROVE  [request[r] EXCEPT !.pc = "dropped", !.next = Corrupt] \in RequestState
    BY RequestTypes
  <2>2. request' \in [Requests -> RequestState]
    BY <1>2, <2>1 DEF Crash, TypeOK
  <2>3. faults' \in 0 .. MaxFaults
    <3>1. faults' = faults + 1 /\ faults < MaxFaults /\ faults \in 0 .. MaxFaults
      BY <1>2 DEF Crash, TypeOK
    <3>2. QED
      BY <3>1, ConstantTypes
  <2>4. QED
    BY <1>2, <2>2, <2>3 DEF Crash, TypeOK
<1>3. CASE \E a \in Admins, l \in Licenses : AskCreate(a, l) \/ AskRevoke(a, l)
  <2>1. PICK a \in Admins, l \in Licenses : AskCreate(a, l) \/ AskRevoke(a, l)
    BY <1>3
  <2>2. /\ a \in Requests
        /\ \A op \in {"create", "revoke"} : Queued(op, l) \in RequestState
    BY Clienthood, RequestTypes
  <2>3. QED
    BY <2>1, <2>2 DEF AskCreate, AskRevoke, TypeOK
<1>4. CASE \E r \in Requests : ServerStep(r) \/ FailWrite(r)
  BY <1>4, ServerTypeOK
<1>5. CASE \E c \in Clients : \/ UseCache(c) \/ NoKey(c) \/ \E l \in Licenses : AskVerify(c, l)
                              \/ ClientStep(c) \/ FailCache(c)
  BY <1>5, ClientTypeOK
<1>6. CASE UNCHANGED vars
  BY <1>6 DEF vars, TypeOK
<1>7. QED
  BY <1>1, <1>2, <1>3, <1>4, <1>5, <1>6 DEF Next

-----------------------------------------------------------------------------
(* The shape of the requests, and the one thread that serves them.         *)

\* A step of the server changes one request that was sent, and keeps what it is
\* about.
LEMMA ServerMoves ==
    ASSUME TypeOK, Shape, NEW r \in Requests, ServerStep(r) \/ FailWrite(r)
    PROVE  /\ \A q \in Requests \ {r} : request'[q] = request[q]
           /\ request[r].pc # "none" /\ request'[r].pc # "none"
           /\ request'[r].op = request[r].op /\ request'[r].license = request[r].license
           /\ request'[r].token # NoToken => request'[r].pc = "answered"
           /\ request'[r].pc \in {"save", "write"} <=> request'[r].next # Corrupt
           /\ client' = client
<1>1. request \in [Requests -> RequestState] /\ request[r] \in RequestState
  BY DEF TypeOK
<1>2. CASE Accept(r)
  <2>1. Verdict(r) \in {"refused", "reply", "save"}
    BY DEF Verdict
  <2>2. request[r].license \in Licenses /\ request[r].pc = "queued" /\ request[r].token = NoToken
    BY <1>2 DEF Accept, Shape
  <2>3. db # Corrupt => Updated(r) # Corrupt
    BY <1>1, <2>2, UpdatedType DEF TypeOK, RequestState
  <2>4. client' = client
        /\ request' = [request EXCEPT
               ![r].pc = IF db = Corrupt THEN "dropped" ELSE Verdict(r),
               ![r].next = IF db # Corrupt /\ Verdict(r) = "save" THEN Updated(r) ELSE Corrupt]
    BY <1>2 DEF Accept, Handle
  <2>5. QED
    BY <1>1, <2>1, <2>2, <2>3, <2>4 DEF RequestState
<1>3. CASE TruncateDb(r)
  BY <1>1, <1>3 DEF TruncateDb, Shape, RequestState
<1>4. CASE WriteDb(r)
  BY <1>1, <1>4 DEF WriteDb, Shape, RequestState
<1>5. CASE Reply(r)
  <2>1. request[r].next = Corrupt
    BY <1>5 DEF Reply, Shape
  <2>2. PICK token \in {request'[r].token} :
            /\ client' = client
            /\ request' = [request EXCEPT ![r].pc = "answered", ![r].token = token]
    BY <1>1, <1>5 DEF Reply, RequestState
  <2>3. QED
    BY <1>1, <1>5, <2>1, <2>2 DEF Reply, RequestState
<1>6. CASE FailWrite(r)
  BY <1>1, <1>6 DEF FailWrite, Shape, RequestState
<1>7. QED
  BY <1>2, <1>3, <1>4, <1>5, <1>6 DEF ServerStep

LEMMA ShapeServer ==
    ASSUME TypeOK, Shape, NEW r \in Requests, ServerStep(r) \/ FailWrite(r)
    PROVE  Shape'
<1>1. \A q \in Requests \ {r} : request'[q] = request[q]
  BY ServerMoves
<1>2. /\ request[r].pc # "none" /\ request'[r].pc # "none"
      /\ request'[r].op = request[r].op /\ request'[r].license = request[r].license
      /\ request'[r].token # NoToken => request'[r].pc = "answered"
      /\ request'[r].pc \in {"save", "write"} <=> request'[r].next # Corrupt
      /\ client' = client
  BY ServerMoves
<1>3. \A q \in Requests : /\ request'[q].op = request[q].op
                          /\ request'[q].license = request[q].license
                          /\ request'[q].pc = "none" <=> request[q].pc = "none"
  BY <1>1, <1>2
<1>4. QED
  BY <1>1, <1>2, <1>3, Clienthood DEF Shape

\* A request is sent by a client that has not asked yet, or by an admin who has not,
\* for a key that nobody else has asked for if it is to be created.
Sent(r, op, l) ==
    /\ request[r].pc = "none"
    /\ request' = [request EXCEPT ![r] = Queued(op, l)]
    /\ r \in Clients => op = "verify" /\ client'[r].pc # "start"
    /\ r \in Admins => op \in {"create", "revoke"}
    /\ op = "create" => \A b \in Admins : request[b].op = "create" => request[b].license # l
    /\ \A c \in Clients : client'[c].pc = "start" => client[c].pc = "start"
    /\ UNCHANGED <<clock, db, cache, revoked, faults>>

LEMMA ShapeSent ==
    ASSUME TypeOK, Shape, NEW r \in Requests, NEW op \in {"verify", "create", "revoke"},
           NEW l \in Licenses, Sent(r, op, l)
    PROVE  Shape'
<1>1. request \in [Requests -> RequestState]
  BY DEF TypeOK
<1>2. /\ request'[r] = Queued(op, l)
      /\ \A q \in Requests \ {r} : request'[q] = request[q]
  BY <1>1 DEF Sent
<1>3. /\ Queued(op, l).pc = "queued" /\ Queued(op, l).op = op /\ Queued(op, l).license = l
      /\ Queued(op, l).token = NoToken /\ Queued(op, l).next = Corrupt
  BY DEF Queued, NoRequest
<1>4. QED
  BY <1>2, <1>3, Clienthood DEF Shape, Sent

\* What a step of the server does to the phase of its request
LEMMA ServerPhases ==
    ASSUME TypeOK, Shape, NEW r \in Requests, ServerStep(r) \/ FailWrite(r)
    PROVE  \/ /\ Accept(r) /\ request[r].pc = "queued"
              /\ request'[r].pc \in {"dropped", "refused", "reply", "save"}
              /\ db' = db /\ (request'[r].pc # "dropped" => db # Corrupt)
           \/ /\ TruncateDb(r) /\ request[r].pc = "save" /\ request'[r].pc = "write"
              /\ db' = Corrupt /\ request'[r].next = request[r].next
           \/ /\ WriteDb(r) /\ request[r].pc = "write" /\ request'[r].pc = "reply"
              /\ db' = request[r].next
           \/ /\ Reply(r) /\ request[r].pc = "reply" /\ request'[r].pc = "answered" /\ db' = db
           \/ /\ FailWrite(r) /\ request[r].pc \in {"save", "write"}
              /\ request'[r].pc = "dropped" /\ db' = db
<1>1. request \in [Requests -> RequestState] /\ request[r] \in RequestState
  BY DEF TypeOK
<1>2. CASE Accept(r)
  <2>1. Verdict(r) \in {"refused", "reply", "save"}
    BY DEF Verdict
  <2>2. QED
    BY <1>1, <1>2, <2>1 DEF Accept, Handle, RequestState
<1>3. CASE TruncateDb(r)
  BY <1>1, <1>3 DEF TruncateDb, RequestState
<1>4. CASE WriteDb(r)
  BY <1>1, <1>4 DEF WriteDb, RequestState
<1>5. CASE Reply(r)
  BY <1>1, <1>5 DEF Reply, RequestState
<1>6. CASE FailWrite(r)
  BY <1>1, <1>6 DEF FailWrite, RequestState
<1>7. QED
  BY <1>2, <1>3, <1>4, <1>5, <1>6 DEF ServerStep

LEMMA OneThreadServer ==
    ASSUME TypeOK, Shape, OneThread, NEW r \in Requests, ServerStep(r) \/ FailWrite(r)
    PROVE  OneThread'
<1>1. \A q \in Requests \ {r} : request'[q] = request[q]
  BY ServerMoves
<1>2. ASSUME request[r].pc \in Handled
      PROVE  \A q \in Requests \ {r} : request[q].pc \notin Handled
  BY <1>2 DEF OneThread
<1>3. CASE Accept(r)
  <2>1. \A q \in Requests \ {r} : request[q].pc \notin Handled
    BY <1>3 DEF Accept
  <2>2. request'[r].pc \in {"dropped", "refused", "reply", "save"}
        /\ db' = db /\ (request'[r].pc # "dropped" => db # Corrupt)
    BY <1>3, ServerPhases DEF ServerStep, Accept, TruncateDb, WriteDb, Reply, FailWrite
  <2>3. QED
    BY <1>1, <2>1, <2>2 DEF OneThread, Handled
<1>4. CASE request[r].pc \in Handled
  <2>1. \A q \in Requests \ {r} : request'[q].pc \notin Handled
    BY <1>1, <1>2, <1>4
  <2>2. /\ request'[r].pc \in {"save", "reply"} => db' # Corrupt
        /\ request'[r].pc = "write" => db' = Corrupt
    <3>1. request[r].pc \in {"save", "write"} => request[r].next # Corrupt
      BY DEF Shape
    <3>2. QED
      BY <1>4, <3>1, ServerPhases DEF Handled
  <2>3. \A q \in Requests : request'[q].pc \in Handled => q = r
    BY <2>1
  <2>4. QED
    BY <2>2, <2>3 DEF OneThread, Handled
<1>5. QED
  BY <1>3, <1>4, ServerPhases DEF Handled

\* An agreement lasts as long as no answer is given that it does not foresee, and no
\* license is revoked.
LEMMA AgreesKept ==
    ASSUME NEW d, NEW S, Agrees(d, S), UNCHANGED revoked,
           \A c \in Clients : request'[c].token = request[c].token,
           \A a \in Admins :
               request'[a].pc \in {"reply", "answered"} \/ a \in S =>
                   /\ request[a].pc \in {"reply", "answered"} \/ a \in S
                   /\ request'[a].op = request[a].op /\ request'[a].license = request[a].license,
           \A a \in Admins :
               a \in S \/ request[a].pc \in {"reply", "answered", "dropped"} =>
                   /\ a \in S \/ request'[a].pc \in {"reply", "answered", "dropped"}
                   /\ request'[a].op = request[a].op /\ request'[a].license = request[a].license
    PROVE  Agrees(d, S)'
<1>1. \A c \in Clients :
          request'[c].token # NoToken =>
              d[request'[c].token.license].machine = request'[c].token.machine
  BY DEF Agrees
<1>2. \A a \in Admins :
          request'[a].pc \in {"reply", "answered"} \/ a \in S =>
              /\ request'[a].op = "create" => d[request'[a].license].status # "none"
              /\ request'[a].op = "revoke" => d[request'[a].license].status = "revoked"
  BY DEF Agrees
<1>3. \A l \in Licenses : revoked'[l] # 0 => d[l].status = "revoked"
  BY DEF Agrees
<1>4. ASSUME NEW l \in Licenses, d[l] # NoRecord
      PROVE  \E a \in Admins :
                 /\ request'[a].op = "create" /\ request'[a].license = l
                 /\ a \in S \/ request'[a].pc \in {"reply", "answered", "dropped"}
  <2>1. PICK a \in Admins :
            /\ request[a].op = "create" /\ request[a].license = l
            /\ a \in S \/ request[a].pc \in {"reply", "answered", "dropped"}
    BY <1>4 DEF Agrees
  <2>2. QED
    BY <2>1
<1>5. QED
  BY <1>1, <1>2, <1>3, <1>4 DEF Agrees

-----------------------------------------------------------------------------
(* The books: the agreement of the database with the answers.              *)

\* When a client or an admin sends a request, nothing is answered yet.
LEMMA BooksSent ==
    ASSUME IInv, NEW r \in Requests, NEW op \in {"verify", "create", "revoke"},
           NEW l \in Licenses, Sent(r, op, l)
    PROVE  Books' /\ OneThread' /\ OneMachine'
<1>1. request \in [Requests -> RequestState]
  BY DEF IInv, TypeOK
<1>2. /\ request'[r] = Queued(op, l) /\ request[r].pc = "none" /\ request[r].token = NoToken
      /\ \A q \in Requests \ {r} : request'[q] = request[q]
      /\ db' = db /\ revoked' = revoked
  BY <1>1 DEF Sent, IInv, Shape
<1>3. Queued(op, l).pc = "queued" /\ Queued(op, l).token = NoToken
  BY DEF Queued, NoRequest
<1>4. \A c \in Clients : request'[c].token = request[c].token
  BY <1>2, <1>3, Clienthood
<1>5. ASSUME NEW d, NEW S, Agrees(d, S), r \notin S
      PROVE  Agrees(d, S)'
  <2>1. \A a \in Admins :
            \/ a \in S /\ a # r /\ request'[a] = request[a]
            \/ a \notin S /\ a # r /\ request'[a] = request[a]
            \/ a = r /\ a \notin S /\ request'[a].pc = "queued" /\ request[a].pc = "none"
    BY <1>2, <1>3, <1>5, Clienthood
  <2>2. QED
    BY <1>2, <1>4, <1>5, <2>1, AgreesKept
<1>6. ASSUME db' # Corrupt PROVE Agrees(db, {})'
  <2>1. PICK d : d = db
    OBVIOUS
  <2>2. Agrees(d, {}) /\ r \notin {}
    BY <1>2, <1>6, <2>1 DEF IInv, Books
  <2>3. Agrees(d, {})'
    BY <1>5, <2>2
  <2>4. QED
    BY <1>2, <2>1, <2>3
<1>7. ASSUME NEW q \in Requests, request'[q].pc \in {"save", "write"}
      PROVE  Agrees(request[q].next, {q})' /\ Cleared(request[q].next, q)'
  <2>1. q # r /\ request'[q] = request[q]
    BY <1>2, <1>3, <1>7
  <2>2. PICK d : d = request[q].next
    OBVIOUS
  <2>3. Agrees(d, {q}) /\ Cleared(d, q) /\ r \notin {q}
    BY <1>7, <2>1, <2>2 DEF IInv, Books
  <2>4. Agrees(d, {q})'
    BY <1>5, <2>3
  <2>5. QED
    BY <1>2, <2>1, <2>2, <2>3, <2>4 DEF Cleared
<1>8. ASSUME NEW q \in Requests, request'[q].pc = "reply"
      PROVE  Cleared(db, q)'
  <2>1. q # r /\ request'[q] = request[q]
    BY <1>2, <1>3, <1>8
  <2>2. QED
    BY <1>2, <1>8, <2>1 DEF IInv, Books, Cleared
<1>9. OneThread'
  BY <1>2, <1>3 DEF IInv, OneThread, Handled
<1>10. OneMachine'
  BY <1>4 DEF IInv, OneMachine
<1>11. QED
  BY <1>6, <1>7, <1>8, <1>9, <1>10 DEF Books

\* A crash of the server answers nothing.
LEMMA BooksCrash == ASSUME IInv, Crash PROVE Shape' /\ OneThread' /\ Books' /\ OneMachine'
<1>1. request \in [Requests -> RequestState]
  BY DEF IInv, TypeOK
<1>2. \A q \in Requests :
          /\ request'[q].op = request[q].op /\ request'[q].license = request[q].license
          /\ request'[q].token = request[q].token
          /\ \/ /\ request[q].pc \in {"queued", "save", "write", "reply"}
                /\ request'[q].pc = "dropped" /\ request'[q].next = Corrupt
             \/ /\ request[q].pc \notin {"queued", "save", "write", "reply"}
                /\ request'[q] = request[q]
  BY <1>1 DEF Crash, Handled, RequestState
<1>3. db' = db /\ revoked' = revoked /\ client' = client
  BY DEF Crash
<1>4. \A q \in Requests : request'[q].pc \notin Handled
  BY <1>2 DEF Handled
<1>5. Shape'
  BY <1>2, <1>3, Clienthood DEF IInv, Shape
<1>6. OneThread'
  BY <1>4 DEF OneThread, Handled
<1>7. ASSUME db' # Corrupt PROVE Agrees(db, {})'
  <2>1. PICK d : d = db
    OBVIOUS
  <2>2. Agrees(d, {})
    BY <1>3, <1>7, <2>1 DEF IInv, Books
  <2>3. Agrees(d, {})'
    BY <1>2, <1>3, <2>2, Clienthood, AgreesKept
  <2>4. QED
    BY <1>3, <2>1, <2>3
<1>8. OneMachine'
  BY <1>2, Clienthood DEF IInv, OneMachine
<1>9. QED
  BY <1>4, <1>5, <1>6, <1>7, <1>8 DEF Books, Handled

\* The steps that touch neither the requests nor the database
LEMMA BooksQuiet ==
    ASSUME IInv, UNCHANGED <<request, db, revoked>>,
           \A c \in Clients : client'[c].pc = "start" => client[c].pc = "start"
    PROVE  Shape' /\ OneThread' /\ Books' /\ OneMachine'
BY DEF IInv, Shape, OneThread, Books, OneMachine, Agrees, Cleared

\* What a handler is about to save agrees with all the answers given so far and with
\* its own.
LEMMA UpdateAgrees ==
    ASSUME IInv, NEW r \in Requests, request[r].pc = "queued", db # Corrupt,
           Verdict(r) = "save"
    PROVE  Agrees(Updated(r), {r}) /\ Cleared(Updated(r), r)
<1>. DEFINE l == request[r].license
            d == Updated(r)
<1>1. /\ request \in [Requests -> RequestState] /\ request[r] \in RequestState
      /\ db \in Database /\ l \in Licenses /\ db[l] \in Record
      /\ Agrees(db, {})
  BY DEF IInv, TypeOK, Shape, Books, Database
<1>2. /\ r \in Clients <=> request[r].op = "verify"
      /\ r \in Admins <=> request[r].op \in {"create", "revoke"}
  BY <1>1, Clienthood DEF IInv, Shape, Requests, RequestState
<1>3. ASSUME NEW c \in Clients, request[c].token # NoToken
      PROVE  /\ request[c].token.license \in Licenses
             /\ db[request[c].token.license].machine = request[c].token.machine
             /\ request[c].token.machine # NoMachine
  <2>1. request[c].token \in Token
    BY <1>1, <1>3, Clienthood DEF RequestState
  <2>2. QED
    BY <1>1, <1>3, <2>1, Clienthood DEF Agrees, Token
<1>4. \A k \in Licenses : revoked[k] # 0 => db[k].status = "revoked"
  BY <1>1 DEF Agrees
<1>5. ASSUME NEW a \in Admins, request[a].pc \in {"reply", "answered"}
      PROVE  /\ a # r /\ request[a].license \in Licenses
             /\ request[a].op = "create" => db[request[a].license].status # "none"
             /\ request[a].op = "revoke" => db[request[a].license].status = "revoked"
  BY <1>1, <1>5, Clienthood DEF Agrees, IInv, Shape
<1>6. CASE request[r].op = "verify"
  <2>1. /\ db[l].status = "active" /\ db[l].machine = NoMachine
        /\ Machine(r) = Host[r] /\ r \in Clients
    BY <1>1, <1>2, <1>6, Clienthood DEF Verdict
  <2>2. d = [db EXCEPT ![l].machine = Host[r]]
    BY <1>6, <2>1 DEF Updated
  <2>3. /\ d[l] = [db[l] EXCEPT !.machine = Host[r]]
        /\ \A k \in Licenses \ {l} : d[k] = db[k]
    BY <1>1, <2>2 DEF Database
  <2>4. d[l].machine = Host[r] /\ d[l].status = "active"
    BY <1>1, <2>1, <2>3 DEF Record
  <2>5. db[l] # NoRecord
    BY <2>1 DEF NoRecord
  <2>. HIDE DEF d
  <2>6. \A c \in Clients :
            request[c].token # NoToken => d[request[c].token.license].machine = request[c].token.machine
    BY <1>3, <2>1, <2>3
  <2>7. \A a \in Admins :
            request[a].pc \in {"reply", "answered"} \/ a \in {r} =>
                /\ request[a].op = "create" => d[request[a].license].status # "none"
                /\ request[a].op = "revoke" => d[request[a].license].status = "revoked"
    <3>1. \A a \in Admins : a \notin {r}
      BY <2>1, Clienthood
    <3>2. \A a \in Admins : request[a].pc \in {"reply", "answered"} =>
              d[request[a].license].status = db[request[a].license].status \/ request[a].license = l
      BY <1>5, <2>3
    <3>3. QED
      BY <1>5, <2>1, <2>4, <3>1, <3>2
  <2>8. \A k \in Licenses : revoked[k] # 0 => d[k].status = "revoked"
    BY <1>4, <2>1, <2>3
  <2>9. \A k \in Licenses : d[k] # NoRecord => db[k] # NoRecord
    BY <2>3, <2>5
  <2>10. Agrees(d, {r})
    BY <1>1, <2>6, <2>7, <2>8, <2>9 DEF Agrees
  <2>11. revoked[l] = 0
    BY <1>1, <1>4, <2>1
  <2>12. QED
    BY <2>4, <2>10, <2>11 DEF Cleared, d
<1>7. CASE request[r].op = "create"
  <2>1. r \in Admins /\ r \notin Clients
    BY <1>2, <1>7
  <2>2. db[l] = NoRecord
    <3>1. \A a \in Admins :
              request[a].op = "create" /\ request[a].license = l
                  => request[a].pc \notin {"reply", "answered", "dropped"}
      BY <1>7, <2>1 DEF IInv, Shape
    <3>2. QED
      BY <1>1, <3>1 DEF Agrees
  <2>3. /\ d[l] = [NoRecord EXCEPT !.status = "active"]
        /\ \A k \in Licenses \ {l} : d[k] = db[k]
    BY <1>1, <1>7 DEF Updated, Database
  <2>4. d[l].status = "active" /\ db[l].machine = NoMachine /\ db[l].status = "none"
    BY <2>2, <2>3 DEF NoRecord
  <2>. HIDE DEF d
  <2>5. \A c \in Clients :
            request[c].token # NoToken => d[request[c].token.license].machine = request[c].token.machine
    BY <1>3, <2>3, <2>4
  <2>6. \A a \in Admins :
            request[a].pc \in {"reply", "answered"} \/ a \in {r} =>
                /\ request[a].op = "create" => d[request[a].license].status # "none"
                /\ request[a].op = "revoke" => d[request[a].license].status = "revoked"
    BY <1>5, <1>7, <2>3, <2>4
  <2>7. \A k \in Licenses : revoked[k] # 0 => d[k].status = "revoked"
    BY <1>4, <2>3, <2>4
  <2>8. ASSUME NEW k \in Licenses, d[k] # NoRecord
        PROVE  \E a \in Admins :
                   /\ request[a].op = "create" /\ request[a].license = k
                   /\ a \in {r} \/ request[a].pc \in {"reply", "answered", "dropped"}
    <3>1. CASE k = l
      BY <1>7, <2>1, <3>1
    <3>2. CASE k # l
      BY <1>1, <2>3, <2>8, <3>2 DEF Agrees
    <3>3. QED
      BY <3>1, <3>2
  <2>9. QED
    BY <2>1, <2>5, <2>6, <2>7, <2>8 DEF Agrees, Cleared, d
<1>8. CASE request[r].op = "revoke"
  <2>1. r \in Admins /\ r \notin Clients /\ db[l].status # "none"
    BY <1>2, <1>8 DEF Verdict
  <2>2. /\ d[l] = [db[l] EXCEPT !.status = "revoked"]
        /\ \A k \in Licenses \ {l} : d[k] = db[k]
    BY <1>1, <1>8 DEF Updated, Database
  <2>3. d[l].status = "revoked" /\ d[l].machine = db[l].machine
    BY <1>1, <2>2 DEF Record
  <2>4. db[l] # NoRecord
    BY <2>1 DEF NoRecord
  <2>. HIDE DEF d
  <2>5. \A c \in Clients :
            request[c].token # NoToken => d[request[c].token.license].machine = request[c].token.machine
    BY <1>3, <2>2, <2>3
  <2>6. \A a \in Admins :
            request[a].pc \in {"reply", "answered"} \/ a \in {r} =>
                /\ request[a].op = "create" => d[request[a].license].status # "none"
                /\ request[a].op = "revoke" => d[request[a].license].status = "revoked"
    BY <1>5, <1>8, <2>2, <2>3
  <2>7. \A k \in Licenses : revoked[k] # 0 => d[k].status = "revoked"
    BY <1>4, <2>2, <2>3
  <2>8. \A k \in Licenses : d[k] # NoRecord => db[k] # NoRecord
    BY <2>2, <2>4
  <2>9. QED
    BY <1>1, <2>1, <2>5, <2>6, <2>7, <2>8 DEF Agrees, Cleared, d
<1>9. QED
  BY <1>1, <1>6, <1>7, <1>8 DEF RequestState

\* A request that leaves the thread without an answer changes no agreement.
LEMMA AgreesDropped ==
    ASSUME IInv, NEW r \in Requests, ServerStep(r) \/ FailWrite(r), ~Reply(r), ~WriteDb(r),
           r \in Admins => request'[r].pc # "reply",
           NEW d, NEW S, S \subseteq {r}, Agrees(d, S)
    PROVE  Agrees(d, S)'
<1>1. /\ \A q \in Requests \ {r} : request'[q] = request[q]
      /\ request'[r].op = request[r].op /\ request'[r].license = request[r].license
      /\ request'[r].token # NoToken => request'[r].pc = "answered"
  BY ServerMoves DEF IInv
<1>2. /\ request[r].pc \in {"queued", "save", "write"}
      /\ request'[r].pc \in {"dropped", "refused", "reply", "save", "write"}
      /\ revoked' = revoked
  BY ServerPhases DEF IInv, ServerStep, Accept, TruncateDb, FailWrite
<1>3. request[r].token = NoToken /\ request'[r].token = NoToken
  BY <1>1, <1>2 DEF IInv, Shape
<1>4. \A c \in Clients : request'[c].token = request[c].token
  BY <1>1, <1>3, Clienthood
<1>5. \A a \in Admins :
          \/ a # r /\ request'[a] = request[a]
          \/ /\ a = r /\ request'[a].op = request[a].op /\ request'[a].license = request[a].license
             /\ request[a].pc \notin {"reply", "answered", "dropped"}
             /\ request'[a].pc \notin {"reply", "answered"}
  BY <1>1, <1>2, Clienthood
<1>6. QED
  BY <1>2, <1>4, <1>5, AgreesKept

LEMMA BooksAccept ==
    ASSUME IInv, NEW r \in Requests, Accept(r)
    PROVE  Books'
<1>1. /\ \A q \in Requests \ {r} : request'[q] = request[q]
      /\ request'[r].license = request[r].license
  BY ServerMoves DEF IInv, ServerStep
<1>2. /\ request[r].pc = "queued" /\ request[r] \in RequestState
      /\ \A q \in Requests : request[q].pc \notin Handled
      /\ db' = db /\ revoked' = revoked
      /\ request' = [request EXCEPT
             ![r].pc = IF db = Corrupt THEN "dropped" ELSE Verdict(r),
             ![r].next = IF db # Corrupt /\ Verdict(r) = "save" THEN Updated(r) ELSE Corrupt]
      /\ request \in [Requests -> RequestState]
  BY DEF Accept, Handle, IInv, TypeOK
<1>3. /\ request'[r].pc = IF db = Corrupt THEN "dropped" ELSE Verdict(r)
      /\ request'[r].next = IF db # Corrupt /\ Verdict(r) = "save" THEN Updated(r) ELSE Corrupt
  BY <1>2 DEF RequestState
<1>4. ~Reply(r) /\ ~WriteDb(r) /\ ServerStep(r)
  BY <1>2 DEF Reply, WriteDb, ServerStep
<1>5. request'[r].pc = "reply" =>
          /\ r \in Clients /\ db # Corrupt
          /\ db[request[r].license].status = "active"
          /\ db[request[r].license].machine = Host[r]
  BY <1>2, <1>3, Clienthood DEF Verdict, IInv, Shape, Requests
<1>6. ASSUME NEW d, NEW S, S \subseteq {r}, Agrees(d, S) PROVE Agrees(d, S)'
  BY <1>4, <1>5, <1>6, Clienthood, AgreesDropped
<1>7. ASSUME db' # Corrupt PROVE Agrees(db, {})'
  <2>1. PICK d : d = db
    OBVIOUS
  <2>2. Agrees(d, {})'
    BY <1>2, <1>6, <1>7, <2>1 DEF IInv, Books
  <2>3. QED
    BY <1>2, <2>1, <2>2
<1>8. ASSUME NEW q \in Requests, request'[q].pc \in {"save", "write"}
      PROVE  Agrees(request[q].next, {q})' /\ Cleared(request[q].next, q)'
  <2>1. q = r /\ db # Corrupt /\ Verdict(r) = "save" /\ request'[q].next = Updated(r)
    <3>1. q = r
      BY <1>1, <1>2, <1>8 DEF Handled
    <3>2. Verdict(r) \in {"refused", "reply", "save"}
      BY DEF Verdict
    <3>3. QED
      BY <1>3, <1>8, <3>1, <3>2
  <2>2. PICK d : d = Updated(r)
    OBVIOUS
  <2>3. Agrees(d, {r}) /\ Cleared(d, r)
    BY <1>2, <2>1, <2>2, UpdateAgrees
  <2>4. Agrees(d, {r})' /\ Cleared(d, r)'
    BY <1>1, <1>2, <1>6, <2>3 DEF Cleared
  <2>5. QED
    BY <2>1, <2>2, <2>4
<1>9. ASSUME NEW q \in Requests, request'[q].pc = "reply" PROVE Cleared(db, q)'
  <2>1. q = r
    BY <1>1, <1>2, <1>9 DEF Handled
  <2>2. request[r].license \in Licenses /\ Agrees(db, {})
    BY <1>2, <1>5, <1>9, <2>1 DEF IInv, Shape, Books
  <2>3. revoked[request[r].license] = 0
    BY <1>5, <1>9, <2>1, <2>2 DEF Agrees
  <2>4. QED
    BY <1>1, <1>2, <1>5, <1>9, <2>1, <2>3 DEF Cleared
<1>10. QED
  BY <1>7, <1>8, <1>9 DEF Books

\* The thread's other steps leave no other request in it.
LEMMA OnlyThread ==
    ASSUME IInv, NEW r \in Requests, request[r].pc \in Handled, ServerStep(r) \/ FailWrite(r)
    PROVE  \A q \in Requests : request'[q].pc \in Handled => q = r
BY ServerMoves DEF IInv, OneThread

LEMMA BooksSave ==
    ASSUME IInv, NEW r \in Requests, TruncateDb(r) \/ FailWrite(r)
    PROVE  Books'
<1>1. ServerStep(r) \/ FailWrite(r)
  BY DEF ServerStep
<1>2. /\ request[r].pc \in {"save", "write"} /\ ~Reply(r) /\ ~WriteDb(r)
      /\ request'[r].pc \in {"write", "dropped"}
      /\ revoked' = revoked
      /\ db' # Corrupt => db' = db
      /\ request'[r].pc = "write" => request'[r].next = request[r].next
      /\ request'[r].license = request[r].license
      /\ \A q \in Requests : request'[q].pc \in Handled => q = r
  <2>1. request[r].pc \in Handled
    BY DEF TruncateDb, FailWrite, Handled
  <2>2. CASE TruncateDb(r)
    BY <1>1, <2>1, <2>2, ServerPhases, ServerMoves, OnlyThread
       DEF TruncateDb, IInv, Reply, WriteDb, FailWrite, Accept
  <2>3. CASE FailWrite(r)
    <3>1. ~Reply(r) /\ ~WriteDb(r) /\ ~TruncateDb(r)
      BY <2>3 DEF FailWrite, Reply, WriteDb, TruncateDb, IInv, TypeOK
    <3>2. QED
      BY <1>1, <2>1, <2>3, <3>1, ServerPhases, ServerMoves, OnlyThread DEF FailWrite, IInv, Accept
  <2>4. QED
    BY <2>2, <2>3
<1>3. ASSUME NEW d, NEW S, S \subseteq {r}, Agrees(d, S) PROVE Agrees(d, S)'
  BY <1>1, <1>2, <1>3, AgreesDropped
<1>4. ASSUME db' # Corrupt PROVE Agrees(db, {})'
  <2>1. PICK d : d = db
    OBVIOUS
  <2>2. Agrees(d, {})'
    BY <1>2, <1>3, <1>4, <2>1 DEF IInv, Books
  <2>3. QED
    BY <1>2, <1>4, <2>1, <2>2
<1>5. ASSUME NEW q \in Requests, request'[q].pc \in {"save", "write"}
      PROVE  Agrees(request[q].next, {q})' /\ Cleared(request[q].next, q)'
  <2>1. q = r /\ request'[r].pc = "write"
    BY <1>2, <1>5 DEF Handled
  <2>2. PICK d : d = request[r].next
    OBVIOUS
  <2>3. Agrees(d, {r}) /\ Cleared(d, r)
    BY <1>2, <2>2 DEF IInv, Books
  <2>4. Agrees(d, {r})' /\ Cleared(d, r)'
    BY <1>2, <1>3, <2>3 DEF Cleared
  <2>5. QED
    BY <1>2, <2>1, <2>2, <2>4
<1>6. \A q \in Requests : request'[q].pc # "reply"
  BY <1>2 DEF Handled
<1>7. QED
  BY <1>4, <1>5, <1>6 DEF Books

LEMMA BooksWrite ==
    ASSUME IInv, NEW r \in Requests, WriteDb(r)
    PROVE  Books'
<1>. DEFINE l == request[r].license
<1>1. /\ \A q \in Requests \ {r} : request'[q] = request[q]
      /\ request'[r].op = request[r].op /\ request'[r].license = request[r].license
      /\ request'[r].token # NoToken => request'[r].pc = "answered"
  BY ServerMoves DEF IInv, ServerStep
<1>2. request[r].pc = "write" /\ request'[r].pc = "reply" /\ db' = request[r].next
  <2>1. ~Reply(r) /\ ~Accept(r) /\ ~TruncateDb(r)
    BY DEF WriteDb, Reply, Accept, TruncateDb
  <2>2. request \in [Requests -> RequestState] /\ request[r] \in RequestState
    BY DEF IInv, TypeOK
  <2>3. QED
    BY <2>2 DEF WriteDb, RequestState
<1>3. \A q \in Requests : request'[q].pc \in Handled => q = r
  BY <1>2, OnlyThread DEF ServerStep, Handled
<1>4. /\ l \in Licenses /\ request[r].token = NoToken /\ request'[r].token = NoToken
      /\ clock \in Nat \ {0} /\ revoked \in [Licenses -> Nat]
  BY <1>1, <1>2, ConstantTypes DEF IInv, Shape, TypeOK
<1>5. PICK d : d = request[r].next
  OBVIOUS
<1>6. Agrees(d, {r}) /\ Cleared(d, r)
  BY <1>2, <1>5 DEF IInv, Books
<1>7. \A c \in Clients : request'[c].token = request[c].token
  BY <1>1, <1>4, Clienthood
<1>8. \A k \in Licenses : revoked'[k] # 0 => d[k].status = "revoked"
  <2>1. CASE request[r].op = "revoke" /\ revoked[l] = 0
    <3>1. r \in Admins
      BY <2>1, Clienthood DEF IInv, Shape, Requests
    <3>2. d[l].status = "revoked"
      BY <1>6, <2>1, <3>1 DEF Agrees
    <3>3. \A k \in Licenses \ {l} : revoked'[k] = revoked[k]
      BY <1>4, <2>1 DEF WriteDb
    <3>4. QED
      BY <1>6, <3>2, <3>3 DEF Agrees
  <2>2. CASE ~(request[r].op = "revoke" /\ revoked[l] = 0)
    BY <1>6, <2>2 DEF WriteDb, Agrees
  <2>3. QED
    BY <2>1, <2>2
<1>9. \A a \in Admins :
          request'[a].pc \in {"reply", "answered"} =>
              /\ request'[a].op = "create" => d[request'[a].license].status # "none"
              /\ request'[a].op = "revoke" => d[request'[a].license].status = "revoked"
  BY <1>1, <1>6, Clienthood DEF Agrees
<1>10. ASSUME NEW k \in Licenses, d[k] # NoRecord
       PROVE  \E a \in Admins :
                  /\ request'[a].op = "create" /\ request'[a].license = k
                  /\ a \in {} \/ request'[a].pc \in {"reply", "answered", "dropped"}
  <2>1. PICK a \in Admins :
            /\ request[a].op = "create" /\ request[a].license = k
            /\ a \in {r} \/ request[a].pc \in {"reply", "answered", "dropped"}
    BY <1>6, <1>10 DEF Agrees
  <2>2. QED
    BY <1>1, <1>2, <2>1, Clienthood
<1>11. Agrees(d, {})'
  BY <1>6, <1>7, <1>8, <1>9, <1>10 DEF Agrees
<1>12. Agrees(db, {})'
  BY <1>2, <1>5, <1>11
<1>13. Cleared(db, r)'
  <2>1. CASE r \in Clients
    <3>1. request[r].op = "verify"
      BY <2>1 DEF IInv, Shape
    <3>2. revoked' = revoked
      BY <3>1 DEF WriteDb
    <3>3. QED
      BY <1>1, <1>2, <1>5, <1>6, <3>2 DEF Cleared
  <2>2. CASE r \notin Clients
    BY <2>2 DEF Cleared
  <2>3. QED
    BY <2>1, <2>2
<1>14. QED
  BY <1>2, <1>3, <1>12, <1>13 DEF Books, Handled

LEMMA BooksReply ==
    ASSUME IInv, NEW r \in Requests, Reply(r)
    PROVE  Books' /\ OneMachine'
<1>. DEFINE l == request[r].license
            token == IF request[r].op # "verify" THEN NoToken
                     ELSE [license |-> l, machine |-> Machine(r), expires |-> clock + Ttl[l]]
<1>1. /\ \A q \in Requests \ {r} : request'[q] = request[q]
      /\ request'[r].op = request[r].op /\ request'[r].license = request[r].license
  BY ServerMoves DEF IInv, ServerStep
<1>2. /\ request[r].pc = "reply" /\ request'[r].pc = "answered"
      /\ request'[r].token = token
      /\ db' = db /\ revoked' = revoked
  <2>1. request \in [Requests -> RequestState] /\ request[r] \in RequestState
    BY DEF IInv, TypeOK
  <2>2. QED
    BY <2>1 DEF Reply, RequestState
<1>3. /\ \A q \in Requests : request'[q].pc \notin Handled
      /\ db # Corrupt /\ Agrees(db, {}) /\ Cleared(db, r) /\ l \in Licenses
  <2>1. request[r].pc \in Handled /\ ServerStep(r)
    BY <1>2 DEF Handled, ServerStep
  <2>2. \A q \in Requests : request'[q].pc \in Handled => q = r
    BY <2>1, OnlyThread
  <2>3. QED
    BY <1>2, <2>2 DEF Handled, IInv, OneThread, Books, Shape
<1>4. r \in Clients => token.license = l /\ token.machine = Host[r] /\ db[l].machine = Host[r]
  BY <1>3, Clienthood DEF Cleared, IInv, Shape
<1>5. r \notin Clients => token = NoToken
  BY <1>2 DEF IInv, Shape, Requests
<1>. HIDE DEF token
<1>6. ASSUME NEW c \in Clients, request'[c].token # NoToken
      PROVE  db[request'[c].token.license].machine = request'[c].token.machine
  <2>1. CASE c = r
    BY <1>2, <1>4, <2>1
  <2>2. CASE c # r
    BY <1>1, <1>3, <1>6, <2>2, Clienthood DEF Agrees
  <2>3. QED
    BY <2>1, <2>2
<1>7. \A a \in Admins :
          request'[a].pc \in {"reply", "answered"} =>
              /\ request'[a].op = "create" => db[request'[a].license].status # "none"
              /\ request'[a].op = "revoke" => db[request'[a].license].status = "revoked"
  BY <1>1, <1>2, <1>3, Clienthood DEF Agrees
<1>8. ASSUME NEW k \in Licenses, db[k] # NoRecord
      PROVE  \E a \in Admins :
                 /\ request'[a].op = "create" /\ request'[a].license = k
                 /\ a \in {} \/ request'[a].pc \in {"reply", "answered", "dropped"}
  <2>1. PICK a \in Admins :
            /\ request[a].op = "create" /\ request[a].license = k
            /\ request[a].pc \in {"reply", "answered", "dropped"}
    BY <1>3, <1>8 DEF Agrees
  <2>2. QED
    BY <1>1, <1>2, <2>1, Clienthood
<1>9. Agrees(db, {})'
  BY <1>2, <1>3, <1>6, <1>7, <1>8 DEF Agrees
<1>10. OneMachine'
  <2>1. ASSUME NEW c \in Clients, request'[c].token = NoToken PROVE request'[c].token.license = NoLicense
    BY <2>1 DEF NoToken
  <2>2. ASSUME NEW c \in Clients, request'[c].token # NoToken
        PROVE  request'[c].token.license \in Licenses
    <3>1. CASE c = r
      BY <1>2, <1>3, <1>4, <3>1
    <3>2. CASE c # r
      <4>1. request[c].token \in Token
        BY <1>1, <2>2, <3>2, Clienthood DEF IInv, TypeOK, RequestState
      <4>2. QED
        BY <1>1, <3>2, <4>1, Clienthood DEF Token
    <3>3. QED
      BY <3>1, <3>2
  <2>3. ASSUME NEW c \in Clients, NEW e \in Clients,
               request'[c].token.license = request'[e].token.license
        PROVE  request'[c].token.machine = request'[e].token.machine
    <3>1. CASE request'[c].token = NoToken
      <4>1. request'[e].token = NoToken
        BY <2>1, <2>2, <2>3, <3>1, LicenseAssumption
      <4>2. QED
        BY <3>1, <4>1
    <3>2. CASE request'[c].token # NoToken
      <4>1. request'[e].token # NoToken
        BY <2>1, <2>2, <2>3, <3>2, LicenseAssumption
      <4>2. QED
        BY <1>6, <2>3, <3>2, <4>1
    <3>3. QED
      BY <3>1, <3>2
  <2>4. QED
    BY <2>3 DEF OneMachine
<1>11. QED
  BY <1>3, <1>9, <1>10 DEF Books, Handled

LEMMA IInvServer ==
    ASSUME IInv, NEW r \in Requests, ServerStep(r) \/ FailWrite(r)
    PROVE  IInv'
<1>1. TypeOK' /\ Shape' /\ OneThread'
  BY ServerTypeOK, ShapeServer, OneThreadServer DEF IInv
<1>2. Books'
  BY BooksAccept, BooksSave, BooksWrite, BooksReply DEF ServerStep
<1>3. CASE Reply(r)
  BY <1>1, <1>2, <1>3, BooksReply DEF IInv
<1>4. CASE ~Reply(r)
  <2>1. /\ \A q \in Requests \ {r} : request'[q] = request[q]
        /\ request'[r].token # NoToken => request'[r].pc = "answered"
    BY ServerMoves DEF IInv
  <2>2. /\ request[r].pc \in {"queued", "save", "write"}
        /\ request'[r].pc # "answered"
    BY <1>4, ServerPhases DEF IInv
  <2>3. request[r].token = NoToken /\ request'[r].token = NoToken
    BY <2>1, <2>2 DEF IInv, Shape
  <2>4. \A c \in Clients : request'[c].token = request[c].token
    BY <2>1, <2>3, Clienthood
  <2>5. OneMachine'
    BY <2>4 DEF IInv, OneMachine
  <2>6. QED
    BY <1>1, <1>2, <2>5 DEF IInv
<1>5. QED
  BY <1>3, <1>4

LEMMA IInvStep == ASSUME IInv, [Next]_vars PROVE IInv'
<1>1. TypeOK'
  BY TypeStep DEF IInv
<1>2. ASSUME NEW r \in Requests, NEW op \in {"verify", "create", "revoke"}, NEW l \in Licenses,
             Sent(r, op, l)
      PROVE  IInv'
  BY <1>1, <1>2, ShapeSent, BooksSent DEF IInv
<1>3. CASE Tick
  BY <1>1, <1>3, BooksQuiet DEF Tick, IInv
<1>4. CASE Crash
  BY <1>1, <1>4, BooksCrash DEF IInv
<1>5. CASE \E a \in Admins, l \in Licenses : AskCreate(a, l) \/ AskRevoke(a, l)
  <2>1. PICK a \in Admins, l \in Licenses : AskCreate(a, l) \/ AskRevoke(a, l)
    BY <1>5
  <2>2. a \in Requests /\ a \notin Clients
    BY Clienthood
  <2>3. Sent(a, "create", l) \/ Sent(a, "revoke", l)
    BY <2>1, <2>2 DEF AskCreate, AskRevoke, Sent
  <2>4. QED
    BY <1>2, <2>2, <2>3
<1>6. CASE \E r \in Requests : ServerStep(r) \/ FailWrite(r)
  BY <1>6, IInvServer
<1>7. ASSUME NEW c \in Clients, NEW l \in Licenses, AskVerify(c, l) PROVE IInv'
  <2>1. c \in Requests /\ c \notin Admins /\ request[c].pc = "none" /\ client[c].pc = "start"
    BY <1>7, Clienthood DEF AskVerify, IInv, Shape
  <2>2. \A e \in Clients : client'[e].pc = "start" => e # c /\ client[e].pc = "start"
    BY <1>7 DEF AskVerify, IInv, TypeOK, ClientState
  <2>3. Sent(c, "verify", l)
    BY <1>7, <2>1, <2>2 DEF AskVerify, Sent
  <2>4. QED
    BY <1>2, <2>1, <2>3
<1>8. ASSUME NEW c \in Clients, UseCache(c) \/ NoKey(c) \/ ClientStep(c) \/ FailCache(c)
      PROVE  IInv'
  <2>1. UNCHANGED <<request, db, revoked>>
    BY <1>8 DEF UseCache, NoKey, ClientStep, Receive, GiveUp, TruncateCache, FillCache, FailCache
  <2>2. client \in [Clients -> ClientState] /\ client[c] \in ClientState
    BY DEF IInv, TypeOK
  <2>3. \A e \in Clients : client'[e].pc = "start" => client[e].pc = "start"
    BY <1>8, <2>2
       DEF ClientState, UseCache, NoKey, ClientStep, Receive, GiveUp, TruncateCache, FillCache, FailCache
  <2>4. QED
    BY <1>1, <2>1, <2>3, BooksQuiet DEF IInv
<1>9. CASE UNCHANGED vars
  BY <1>1, <1>9, BooksQuiet DEF vars, IInv
<1>10. QED
  BY <1>3, <1>4, <1>5, <1>6, <1>7, <1>8, <1>9 DEF Next

LEMMA IInvInit == Init => IInv
<1>1. ASSUME Init PROVE TypeOK
  BY <1>1, InitTypeOK
<1>2. ASSUME Init PROVE /\ \A r \in Requests : request[r] = NoRequest
                        /\ \A c \in Clients : request[c] = NoRequest
                        /\ \A a \in Admins : request[a] = NoRequest
                        /\ \A l \in Licenses : db[l] = NoRecord /\ revoked[l] = 0
  BY <1>2, Clienthood DEF Init
<1>3. ASSUME Init PROVE Shape /\ OneThread /\ Books /\ OneMachine
  BY <1>2, <1>3 DEF NoRequest, Shape, OneThread, Books, OneMachine, Agrees, Handled
<1>4. QED
  BY <1>1, <1>3 DEF IInv

\* License types: every reachable state is well-formed, for any number of clients
\* and faults.
THEOREM LicenseTypeCorrect == Spec => []TypeOK
<1>1. Init => IInv
  BY IInvInit
<1>2. IInv /\ [Next]_vars => IInv'
  BY IInvStep
<1>3. IInv => TypeOK
  BY DEF IInv
<1>4. QED
  BY <1>1, <1>2, <1>3, PTL DEF Spec

\* verify-license: all tokens the server ever issues for a license are for one
\* machine, whatever races and crashes there are.
THEOREM OneMachinePerLicense == Spec => []OneMachine
<1>1. Init => IInv
  BY IInvInit
<1>2. IInv /\ [Next]_vars => IInv'
  BY IInvStep
<1>3. IInv => OneMachine
  BY DEF IInv
<1>4. QED
  BY <1>1, <1>2, <1>3, PTL DEF Spec

\* create-license and revoke-license: what an admin was told stays in the database,
\* as long as the file parses.
THEOREM AdminsAreObeyed == Spec => []AdminsObeyed
<1>1. Init => IInv
  BY IInvInit
<1>2. IInv /\ [Next]_vars => IInv'
  BY IInvStep
<1>3. IInv => AdminsObeyed
  BY DEF IInv, Books, Agrees, AdminsObeyed
<1>4. QED
  BY <1>1, <1>2, <1>3, PTL DEF Spec

-----------------------------------------------------------------------------
(* Revocation: tokens do not outlive it by more than the TTL.              *)

LEMMA TokenStays ==
    ASSUME TypeOK, NEW t \in Token \union {NoToken}, Bounded(t),
           clock' \in {clock, clock + 1},
           \A l \in Licenses :
               revoked'[l] = revoked[l] \/ (revoked[l] = 0 /\ revoked'[l] = clock /\ clock' = clock)
    PROVE  Bounded(t)'
<1>1. clock \in Nat /\ revoked \in [Licenses -> Nat]
  BY ConstantTypes DEF TypeOK
<1>2. CASE t = NoToken
  BY <1>2 DEF Bounded
<1>3. CASE t # NoToken
  <2>1. t \in Token /\ t.license \in Licenses /\ t.expires \in Nat /\ Ttl[t.license] \in Nat
    BY <1>3, ConstantTypes DEF Token
  <2>2. t.expires <= clock + Ttl[t.license]
    BY <1>3 DEF Bounded
  <2>3. revoked'[t.license] # 0 => t.expires <= revoked'[t.license] + Ttl[t.license]
    BY <1>1, <1>3, <2>1, <2>2 DEF Bounded
  <2>4. t.expires <= clock' + Ttl[t.license]
    BY <1>1, <2>1, <2>2
  <2>5. QED
    BY <2>3, <2>4 DEF Bounded
<1>4. QED
  BY <1>2, <1>3

\* What the tokens of a state are, and that Bounded does not tell a request's token
\* from a copy of it.
LEMMA TokenTypes ==
    ASSUME TypeOK
    PROVE  /\ \A r \in Requests : request[r].token \in Token \union {NoToken}
           /\ \A m \in Machines : cache[m] \in Token \union {NoToken}
           /\ \A c \in Clients : client[c].token \in Token \union {NoToken}
BY DEF TypeOK, RequestState, ClientState

LEMMA RevokedOnce ==
    ASSUME IInv, [Next]_vars
    PROVE  /\ clock' \in {clock, clock + 1}
           /\ \A l \in Licenses :
                  revoked'[l] = revoked[l] \/ (revoked[l] = 0 /\ revoked'[l] = clock /\ clock' = clock)
<1>. DEFINE Kept(l) ==
         revoked'[l] = revoked[l] \/ (revoked[l] = 0 /\ revoked'[l] = clock /\ clock' = clock)
<1>1. revoked \in [Licenses -> Nat]
  BY DEF IInv, TypeOK
<1>2. ASSUME NEW r \in Requests, WriteDb(r)
      PROVE  clock' = clock /\ \A l \in Licenses : Kept(l)
  <2>1. clock' = clock
    BY <1>2 DEF WriteDb
  <2>2. CASE request[r].op = "revoke" /\ revoked[request[r].license] = 0
    <3>1. revoked' = [revoked EXCEPT ![request[r].license] = clock]
      BY <1>2, <2>2 DEF WriteDb
    <3>2. QED
      BY <1>1, <2>1, <2>2, <3>1
  <2>3. CASE ~(request[r].op = "revoke" /\ revoked[request[r].license] = 0)
    BY <1>2, <2>1, <2>3 DEF WriteDb
  <2>4. QED
    BY <2>2, <2>3
<1>3. CASE Tick
  <2>1. clock' = clock + 1 /\ revoked' = revoked
    BY <1>3 DEF Tick
  <2>2. QED
    BY <2>1
<1>4. ASSUME NEW r \in Requests, ServerStep(r) \/ FailWrite(r), ~WriteDb(r)
      PROVE  UNCHANGED <<clock, revoked>>
  BY <1>4 DEF ServerStep, Accept, TruncateDb, Reply, FailWrite
<1>5. ASSUME NEW c \in Clients, \/ UseCache(c) \/ NoKey(c) \/ \E l \in Licenses : AskVerify(c, l)
                                \/ ClientStep(c) \/ FailCache(c)
      PROVE  UNCHANGED <<clock, revoked>>
  BY <1>5 DEF UseCache, NoKey, AskVerify, ClientStep, Receive, GiveUp, TruncateCache, FillCache,
              FailCache
<1>6. CASE Crash
  BY <1>6 DEF Crash
<1>7. CASE \E a \in Admins, l \in Licenses : AskCreate(a, l) \/ AskRevoke(a, l)
  BY <1>7 DEF AskCreate, AskRevoke
<1>8. CASE UNCHANGED vars
  BY <1>8 DEF vars
<1>9. CASE \E r \in Requests : ServerStep(r) \/ FailWrite(r)
  BY <1>2, <1>4, <1>9
<1>10. CASE \E c \in Clients : \/ UseCache(c) \/ NoKey(c) \/ \E l \in Licenses : AskVerify(c, l)
                               \/ ClientStep(c) \/ FailCache(c)
  BY <1>5, <1>10
<1>11. QED
  BY <1>3, <1>6, <1>7, <1>8, <1>9, <1>10 DEF Next

\* Requests get their tokens only when they are answered.
LEMMA RequestTokensStep ==
    ASSUME IInv, TokensBounded, [Next]_vars, NEW q \in Requests
    PROVE  Bounded(request[q].token)'
<1>1. ASSUME request'[q].token \in {request[q].token, NoToken}
      PROVE  Bounded(request[q].token)'
  <2>1. PICK t \in Token \union {NoToken} : t = request'[q].token
    BY <1>1, TokenTypes DEF IInv
  <2>2. Bounded(t)
    BY <1>1, <2>1 DEF TokensBounded, Bounded
  <2>3. Bounded(t)'
    BY <2>2, RevokedOnce, TokenStays DEF IInv
  <2>4. QED
    BY <2>1, <2>3
<1>2. CASE Reply(q) /\ q \in Clients
  <2>1. /\ request \in [Requests -> RequestState] /\ request[q] \in RequestState
        /\ request[q].license \in Licenses /\ clock \in Nat /\ request[q].op = "verify"
    BY <1>2, ConstantTypes DEF IInv, TypeOK, Shape, Reply
  <2>2. /\ request'[q].token.expires = clock + Ttl[request[q].license]
        /\ request'[q].token.license = request[q].license
        /\ clock' = clock /\ revoked' = revoked
    BY <1>2, <2>1 DEF Reply, RequestState
  <2>3. revoked[request[q].license] = 0
    BY <1>2 DEF IInv, Books, Cleared, Reply
  <2>4. Ttl[request[q].license] \in Nat
    BY <2>1, ConstantTypes
  <2>5. QED
    BY <2>1, <2>2, <2>3, <2>4 DEF Bounded
<1>3. CASE ~(Reply(q) /\ q \in Clients)
  <2>1. request \in [Requests -> RequestState] /\ request[q] \in RequestState
    BY DEF IInv, TypeOK
  <2>2. ASSUME NEW r \in Requests, ServerStep(r) \/ FailWrite(r)
        PROVE  request'[q].token \in {request[q].token, NoToken}
    <3>1. CASE r # q
      BY <2>2, <3>1, ServerMoves DEF IInv
    <3>2. CASE r = q /\ Reply(q)
      <4>1. request[q].op # "verify"
        BY <1>3, <3>2 DEF IInv, Shape, Requests, Reply
      <4>2. QED
        BY <2>1, <3>2, <4>1 DEF Reply, RequestState
    <3>3. CASE r = q /\ ~Reply(q)
      <4>1. request'[q].pc # "answered"
        BY <2>2, <3>3, ServerPhases DEF IInv
      <4>2. QED
        BY <2>2, <3>3, <4>1, ServerMoves DEF IInv
    <3>4. QED
      BY <3>1, <3>2, <3>3
  <2>3. ASSUME NEW r \in Requests, NEW op, NEW l, request' = [request EXCEPT ![r] = Queued(op, l)]
        PROVE  request'[q].token \in {request[q].token, NoToken}
    BY <2>1, <2>3 DEF Queued, NoRequest
  <2>4. CASE \E a \in Admins, l \in Licenses : AskCreate(a, l) \/ AskRevoke(a, l)
    BY <1>1, <2>3, <2>4, Clienthood DEF AskCreate, AskRevoke
  <2>5. CASE \E c \in Clients, l \in Licenses : AskVerify(c, l)
    <3>1. PICK c \in Clients, l \in Licenses : AskVerify(c, l)
      BY <2>5
    <3>2. c \in Requests /\ request' = [request EXCEPT ![c] = Queued("verify", l)]
      BY <3>1, Clienthood DEF AskVerify
    <3>3. QED
      BY <1>1, <2>3, <3>2
  <2>6. CASE Crash
    BY <1>1, <2>1, <2>6 DEF Crash, RequestState
  <2>7. CASE \E r \in Requests : ServerStep(r) \/ FailWrite(r)
    BY <1>1, <2>2, <2>7
  <2>8. CASE request' = request
    BY <1>1, <2>8
  <2>9. QED
    BY <2>4, <2>5, <2>6, <2>7, <2>8
       DEF Next, vars, Tick, UseCache, NoKey, ClientStep, Receive, GiveUp, TruncateCache,
           FillCache, FailCache
<1>4. QED
  BY <1>2, <1>3

\* Clients and caches hold copies of such tokens, and a client takes one only while
\* it is current.
LEMMA CopiesStep ==
    ASSUME IInv, TokensBounded, [Next]_vars
    PROVE  /\ \A m \in Machines : Bounded(cache[m])'
           /\ \A c \in Clients :
                  /\ Bounded(client[c].token)'
                  /\ client'[c].pc \in {"truncate", "fill", "trusted"} =>
                         client'[c].token # NoToken /\ client'[c].at < client'[c].token.expires
<1>. DEFINE Held == {NoToken} \union {request[e].token : e \in Clients}
                        \union {client[e].token : e \in Clients} \union {cache[m] : m \in Machines}
            Current(e) == e.pc \in {"truncate", "fill", "trusted"} =>
                              e.token # NoToken /\ e.at < e.token.expires
<1>1. ASSUME NEW t \in Held
      PROVE  t \in Token \union {NoToken} /\ Bounded(t)
  BY <1>1, TokenTypes, Clienthood DEF IInv, TokensBounded, Bounded
<1>2. ASSUME NEW t \in Held PROVE Bounded(t)'
  BY <1>1, RevokedOnce, TokenStays DEF IInv
<1>3. /\ client \in [Clients -> ClientState] /\ cache \in [Machines -> Token \union {NoToken}]
      /\ \A e \in Clients : Current(client[e]) /\ client[e] \in ClientState
      /\ clock \in Nat /\ Buffer \in Nat
  BY ConstantTypes, LicenseAssumption DEF IInv, TypeOK, TokensBounded
<1>4. ASSUME NEW c \in Clients, NEW e \in Clients,
             \/ UseCache(e) \/ NoKey(e) \/ \E l \in Licenses : AskVerify(e, l)
             \/ ClientStep(e) \/ FailCache(e)
      PROVE  /\ client'[c].token \in Held /\ Current(client'[c])
             /\ \A m \in Machines : cache'[m] \in Held
  <2>1. Host[e] \in Machines /\ client[e] \in ClientState
    BY <1>3, Clienthood
  <2>2. client[e].token \in Held /\ request[e].token \in Held /\ cache[Host[e]] \in Held
        /\ client[c].token \in Held /\ \A m \in Machines : cache[m] \in Held
    BY <2>1
  <2>. HIDE DEF Held
  <2>3. CASE UseCache(e)
    <3>1. cache[Host[e]] # NoToken /\ cache[Host[e]] \in Token
      BY <1>3, <2>1, <2>3 DEF UseCache, Usable
    <3>2. clock < cache[Host[e]].expires
      BY <1>3, <2>3, <3>1 DEF UseCache, Usable, Token
    <3>3. client' = [client EXCEPT ![e] = [pc |-> "trusted", token |-> cache[Host[e]], at |-> clock]]
          /\ cache' = cache
      BY <2>3 DEF UseCache
    <3>4. QED
      BY <1>3, <2>2, <3>1, <3>2, <3>3
  <2>4. CASE NoKey(e)
    BY <1>3, <2>1, <2>2, <2>4 DEF NoKey, ClientState
  <2>5. CASE \E l \in Licenses : AskVerify(e, l)
    <3>1. client' = [client EXCEPT ![e].pc = "wait"] /\ cache' = cache
      BY <2>5 DEF AskVerify
    <3>2. QED
      BY <1>3, <2>1, <2>2, <3>1 DEF ClientState
  <2>6. CASE Receive(e)
    <3>1. request[e].token # NoToken
      BY <1>3, <2>6 DEF Receive, NoToken
    <3>2. request[e].token \in Token
      BY <3>1, TokenTypes, Clienthood DEF IInv
    <3>3. /\ client' = [client EXCEPT ![e] = [pc |-> "truncate", token |-> request[e].token, at |-> clock]]
          /\ cache' = cache /\ request[e].token.expires > clock
      BY <2>6 DEF Receive
    <3>4. request[e].token.expires \in Nat
      BY <3>2 DEF Token
    <3>5. QED
      BY <1>3, <2>2, <3>1, <3>3, <3>4
  <2>7. CASE GiveUp(e)
    BY <1>3, <2>1, <2>2, <2>7 DEF GiveUp, ClientState
  <2>8. CASE TruncateCache(e)
    <3>1. client' = [client EXCEPT ![e].pc = "fill"] /\ client[e].pc = "truncate"
          /\ cache' = [cache EXCEPT ![Host[e]] = NoToken]
      BY <2>8 DEF TruncateCache
    <3>2. NoToken \in Held
      BY DEF Held
    <3>3. QED
      BY <1>3, <2>1, <2>2, <3>1, <3>2 DEF ClientState
  <2>9. CASE FillCache(e)
    <3>1. PICK left \in {client[e].token, NoToken} : cache' = [cache EXCEPT ![Host[e]] = left]
      BY <2>9 DEF FillCache
    <3>2. left \in Held
      BY <2>2, <3>1 DEF Held
    <3>3. PICK pc \in {"trusted", "blocked"} :
              client' = [client EXCEPT ![e].pc = pc] /\ client[e].pc = "fill"
      BY <2>9 DEF FillCache
    <3>4. QED
      BY <1>3, <2>1, <2>2, <3>1, <3>2, <3>3 DEF ClientState
  <2>10. CASE FailCache(e)
    BY <1>3, <2>1, <2>2, <2>10 DEF FailCache, ClientState
  <2>11. QED
    BY <1>4, <2>3, <2>4, <2>5, <2>6, <2>7, <2>8, <2>9, <2>10 DEF ClientStep
<1>5. /\ \A c \in Clients : client'[c].token \in Held /\ Current(client'[c])
      /\ \A m \in Machines : cache'[m] \in Held
  <2>1. CASE client' = client /\ cache' = cache
    BY <1>3, <2>1
  <2>2. CASE ~(client' = client /\ cache' = cache)
    <3>1. PICK e \in Clients : \/ UseCache(e) \/ NoKey(e) \/ \E l \in Licenses : AskVerify(e, l)
                             \/ ClientStep(e) \/ FailCache(e)
      BY <2>2 DEF Next, vars, Tick, Crash, AskCreate, AskRevoke, ServerStep, Accept, TruncateDb,
                  WriteDb, Reply, FailWrite
    <3>2. QED
      BY <1>4, <3>1
  <2>3. QED
    BY <2>1, <2>2
<1>. HIDE DEF Held
<1>6. ASSUME NEW m \in Machines PROVE Bounded(cache[m])'
  <2>1. PICK t \in Held : t = cache'[m]
    BY <1>5
  <2>2. QED
    BY <1>2, <2>1
<1>7. ASSUME NEW c \in Clients PROVE Bounded(client[c].token)'
  <2>1. PICK t \in Held : t = client'[c].token
    BY <1>5
  <2>2. QED
    BY <1>2, <2>1
<1>8. QED
  BY <1>5, <1>6, <1>7

\* Revocation: whatever is delayed, cached, torn or crashes, no client trusts a token
\* of a license a TTL after its revocation was saved.
THEOREM RevocationTakesEffect == Spec => []TrustEndsWithTtl
<1>1. Init => IInv /\ TokensBounded
  <2>1. ASSUME Init PROVE TokensBounded
    BY <2>1, Clienthood DEF Init, TokensBounded, Bounded, NoRequest, NewClient
  <2>2. QED
    BY <2>1, IInvInit
<1>2. IInv /\ TokensBounded /\ [Next]_vars => (IInv /\ TokensBounded)'
  <2>1. ASSUME IInv, TokensBounded, [Next]_vars PROVE TokensBounded'
    BY <2>1, RequestTokensStep, CopiesStep DEF TokensBounded
  <2>2. QED
    BY <2>1, IInvStep
<1>3. IInv /\ TokensBounded => TrustEndsWithTtl
  <2>1. ASSUME IInv, TokensBounded, NEW c \in Clients, client[c].pc = "trusted",
               revoked[client[c].token.license] # 0
        PROVE  client[c].at < revoked[client[c].token.license] + Ttl[client[c].token.license]
    <3>1. client[c].token # NoToken /\ client[c].at < client[c].token.expires
          /\ client[c].token.expires
                 <= revoked[client[c].token.license] + Ttl[client[c].token.license]
      BY <2>1 DEF TokensBounded, Bounded
    <3>2. client[c].token \in Token /\ client[c] \in ClientState /\ revoked \in [Licenses -> Nat]
      BY <2>1, <3>1, TokenTypes DEF IInv, TypeOK
    <3>3. client[c].at \in Nat /\ client[c].token.expires \in Nat /\ client[c].token.license \in Licenses
      BY <3>2 DEF ClientState, Token
    <3>4. Ttl[client[c].token.license] \in Nat /\ revoked[client[c].token.license] \in Nat
      BY <3>2, <3>3, ConstantTypes
    <3>5. QED
      BY <3>1, <3>3, <3>4
  <2>2. QED
    BY <2>1 DEF TrustEndsWithTtl
<1>4. QED
  BY <1>1, <1>2, <1>3, PTL DEF Spec
=============================================================================
