------------------------------- MODULE License -------------------------------
(***************************************************************************)
(* The license server (pro/license-server.py) with its JSON database, and  *)
(* the client (pro/license_client.py, the same file as                     *)
(* shared/scripts/license_client.py) with a token cache on each machine.   *)
(*                                                                         *)
(* The server handles one request at a time, and it loads and rewrites the *)
(* whole database in the handler.  A client is one invocation of a script  *)
(* that enforces the license: it trusts the cached token or asks for one,   *)
(* and one that is killed simply takes no more steps.                      *)
(***************************************************************************)
EXTENDS Integers, FiniteSets

CONSTANTS
    Clients,    \* invocations of get_token with enforcement
    Machines,   \* where they run, each with a fingerprint and a token cache
    Host,       \* the machine of each client
    Admins,     \* requests to /create-license and /revoke-license
    Licenses,   \* the keys that are ever handed out
    Enough,     \* <<client, license>>: its features include what the client needs
    Ttl,        \* ttl_seconds of each license
    Buffer,     \* what a cached token must still be good for: 300 s
    NoMachine,  \* the lock of a license that no machine has used
    NoLicense,
    Corrupt,    \* the database file, when it does not parse
    MaxClock,   \* bound: the clock
    MaxFaults   \* bound: crashes of the server and failing file operations

ASSUME LicenseAssumption ==
    /\ IsFiniteSet(Clients) /\ IsFiniteSet(Admins)
    /\ Clients \intersect Admins = {}
    /\ Host \in [Clients -> Machines]
    /\ Enough \subseteq Clients \X Licenses
    /\ Ttl \in [Licenses -> Nat]
    /\ MaxClock \in Nat \ {0}
    /\ {Buffer, MaxFaults} \subseteq Nat
    /\ NoMachine \notin Machines
    /\ NoLicense \notin Licenses

VARIABLES
    clock,
    db,       \* the database file
    request,  \* the request of each client and admin, as the server sees it
    client,   \* each client
    cache,    \* the token file of each machine
    revoked,  \* when the revocation of each license was saved, 0 for never
    faults

vars == <<clock, db, request, client, cache, revoked, faults>>

Record == [status : {"none", "active", "revoked"}, machine : Machines \union {NoMachine}]

Database == [Licenses -> Record]

ASSUME CorruptAssumption == Corrupt \notin Database

\* A license that is not in the database
NoRecord == [status |-> "none", machine |-> NoMachine]

Token == [license : Licenses, machine : Machines, expires : Nat]

\* No token, an empty or half-written cache file: nothing a client can use
NoToken == [license |-> NoLicense, machine |-> NoMachine, expires |-> 0]

Requests == Clients \union Admins

\* The phases of a request in which the server's only thread is busy with it
Handled == {"save", "write", "reply"}

RequestState ==
    [pc : {"none", "queued", "answered", "refused", "dropped"} \union Handled,
     op : {"verify", "create", "revoke"}, license : Licenses \union {NoLicense},
     next : Database \union {Corrupt}, token : Token \union {NoToken}]

NoRequest ==
    [pc |-> "none", op |-> "verify", license |-> NoLicense, next |-> Corrupt, token |-> NoToken]

\* at is the time at which the client found the token current.
ClientState ==
    [pc : {"start", "wait", "truncate", "fill", "trusted", "blocked"},
     token : Token \union {NoToken}, at : Nat]

NewClient == [pc |-> "start", token |-> NoToken, at |-> 0]

TypeOK ==
    /\ clock \in 1 .. MaxClock
    /\ db \in Database \union {Corrupt}
    /\ request \in [Requests -> RequestState]
    /\ client \in [Clients -> ClientState]
    /\ cache \in [Machines -> Token \union {NoToken}]
    /\ revoked \in [Licenses -> Nat]
    /\ faults \in 0 .. MaxFaults

Init ==
    /\ clock = 1
    /\ db = [l \in Licenses |-> NoRecord]
    /\ request = [r \in Requests |-> NoRequest]
    /\ client = [c \in Clients |-> NewClient]
    /\ cache = [m \in Machines |-> NoToken]
    /\ revoked = [l \in Licenses |-> 0]
    /\ faults = 0

-----------------------------------------------------------------------------

Tick ==
    /\ clock < MaxClock
    /\ clock' = clock + 1
    /\ UNCHANGED <<db, request, client, cache, revoked, faults>>

\* A request enters the backlog of the listening socket.
Queued(op, l) == [NoRequest EXCEPT !.pc = "queued", !.op = op, !.license = l]

\* The key is a new one.
AskCreate(a, l) ==
    /\ request[a].pc = "none"
    /\ \A b \in Admins : request[b].op = "create" => request[b].license # l
    /\ request' = [request EXCEPT ![a] = Queued("create", l)]
    /\ UNCHANGED <<clock, db, client, cache, revoked, faults>>

AskRevoke(a, l) ==
    /\ request[a].pc = "none"
    /\ request' = [request EXCEPT ![a] = Queued("revoke", l)]
    /\ UNCHANGED <<clock, db, client, cache, revoked, faults>>

\* do_POST, up to the database: what each endpoint makes of its record, and the
\* phase that follows.
Machine(r) == IF r \in Clients THEN Host[r] ELSE NoMachine

Verdict(r) ==
    LET record == db[request[r].license]
        op == request[r].op
    IN  IF op = "verify" /\ record.status # "active" THEN "refused"
        ELSE IF op = "verify" /\ record.machine = Machine(r) THEN "reply"
        ELSE IF op = "verify" /\ record.machine # NoMachine THEN "refused"
        ELSE IF op = "revoke" /\ record.status = "none" THEN "refused"
        ELSE "save"

\* Mutant of Updated: the name of the request becomes the status of the license.
UpdatedByName(r) ==
    LET l == request[r].license
    IN  CASE request[r].op = "verify" -> [db EXCEPT ![l].machine = Machine(r)]
          [] request[r].op = "create" -> [db EXCEPT ![l] = [NoRecord EXCEPT !.status = "active"]]
          [] request[r].op = "revoke" -> [db EXCEPT ![l].status = request[r].op]

Updated(r) ==
    LET l == request[r].license
    IN  CASE request[r].op = "verify" -> [db EXCEPT ![l].machine = Machine(r)]
          [] request[r].op = "create" -> [db EXCEPT ![l] = [NoRecord EXCEPT !.status = "active"]]
          [] request[r].op = "revoke" -> [db EXCEPT ![l].status = "revoked"]

\* load_licenses and the checks; a database that does not parse raises, and the
\* connection is closed without an answer.
Handle(r) ==
    request' = [request EXCEPT
        ![r].pc = IF db = Corrupt THEN "dropped" ELSE Verdict(r),
        ![r].next = IF db # Corrupt /\ Verdict(r) = "save" THEN Updated(r) ELSE Corrupt]

\* Mutant of Accept: a server with a thread for each request.
AcceptThreaded(r) ==
    /\ request[r].pc = "queued"
    /\ Handle(r)
    /\ UNCHANGED <<clock, db, client, cache, revoked, faults>>

Accept(r) ==
    /\ request[r].pc = "queued"
    /\ \A q \in Requests : request[q].pc \notin Handled
    /\ Handle(r)
    /\ UNCHANGED <<clock, db, client, cache, revoked, faults>>

\* save_licenses: open for writing empties the file ...
TruncateDb(r) ==
    /\ request[r].pc = "save"
    /\ db' = Corrupt
    /\ request' = [request EXCEPT ![r].pc = "write"]
    /\ UNCHANGED <<clock, client, cache, revoked, faults>>

\* ... and json.dump fills it.
WriteDb(r) ==
    LET l == request[r].license
    IN  /\ request[r].pc = "write"
        /\ db' = request[r].next
        /\ revoked' = IF request[r].op = "revoke" /\ revoked[l] = 0
                      THEN [revoked EXCEPT ![l] = clock] ELSE revoked
        /\ request' = [request EXCEPT ![r].pc = "reply", ![r].next = Corrupt]
        /\ UNCHANGED <<clock, client, cache, faults>>

\* Mutant of Reply: the token is good for one tick too long.
ReplyLonger(r) ==
    /\ request[r].pc = "reply"
    /\ request' = [request EXCEPT
            ![r].pc = "answered",
            ![r].token = IF request[r].op # "verify" THEN NoToken
                         ELSE [license |-> request[r].license, machine |-> Machine(r),
                               expires |-> clock + Ttl[request[r].license] + 1]]
    /\ UNCHANGED <<clock, db, client, cache, revoked, faults>>

\* create_token, if one was asked for, and the answer
Reply(r) ==
    /\ request[r].pc = "reply"
    /\ request' = [request EXCEPT
            ![r].pc = "answered",
            ![r].token = IF request[r].op # "verify" THEN NoToken
                         ELSE [license |-> request[r].license, machine |-> Machine(r),
                               expires |-> clock + Ttl[request[r].license]]]
    /\ UNCHANGED <<clock, db, client, cache, revoked, faults>>

\* Opening the file fails, or writing it, half-way; the handler's exception closes
\* the connection.
FailWrite(r) ==
    /\ request[r].pc \in {"save", "write"}
    /\ faults < MaxFaults
    /\ faults' = faults + 1
    /\ request' = [request EXCEPT ![r].pc = "dropped", ![r].next = Corrupt]
    /\ UNCHANGED <<clock, db, client, cache, revoked>>

\* The server dies, with every connection, and is started again.
Crash ==
    /\ faults < MaxFaults
    /\ faults' = faults + 1
    /\ request' = [r \in Requests |->
            IF request[r].pc \in {"queued"} \union Handled
            THEN [request[r] EXCEPT !.pc = "dropped", !.next = Corrupt]
            ELSE request[r]]
    /\ UNCHANGED <<clock, db, client, cache, revoked>>

-----------------------------------------------------------------------------

\* load_cached_token, and whether its features are enough
Usable(c) ==
    /\ cache[Host[c]] # NoToken
    /\ cache[Host[c]].expires - clock > Buffer
    /\ <<c, cache[Host[c]].license>> \in Enough

UseCache(c) ==
    /\ client[c].pc = "start"
    /\ Usable(c)
    /\ client' = [client EXCEPT ![c] = [pc |-> "trusted", token |-> cache[Host[c]], at |-> clock]]
    /\ UNCHANGED <<clock, db, request, cache, revoked, faults>>

\* The license key is the one the user has configured.
AskVerify(c, l) ==
    /\ client[c].pc = "start"
    /\ ~Usable(c)
    /\ client' = [client EXCEPT ![c].pc = "wait"]
    /\ request' = [request EXCEPT ![c] = Queued("verify", l)]
    /\ UNCHANGED <<clock, db, cache, revoked, faults>>

\* There is no license key.
NoKey(c) ==
    /\ client[c].pc = "start"
    /\ ~Usable(c)
    /\ client' = [client EXCEPT ![c].pc = "blocked"]
    /\ UNCHANGED <<clock, db, request, cache, revoked, faults>>

\* The answer is a token that is still good.
Receive(c) ==
    /\ client[c].pc = "wait"
    /\ request[c].pc = "answered"
    /\ request[c].token.expires > clock
    /\ client' = [client EXCEPT ![c] = [pc |-> "truncate", token |-> request[c].token, at |-> clock]]
    /\ UNCHANGED <<clock, db, request, cache, revoked, faults>>

\* Any other answer, none within 10 s, or a connection that is closed
GiveUp(c) ==
    /\ client[c].pc = "wait"
    /\ client' = [client EXCEPT ![c].pc = "blocked"]
    /\ UNCHANGED <<clock, db, request, cache, revoked, faults>>

\* save_cached_token: open for writing ...
TruncateCache(c) ==
    /\ client[c].pc = "truncate"
    /\ cache' = [cache EXCEPT ![Host[c]] = NoToken]
    /\ client' = [client EXCEPT ![c].pc = "fill"]
    /\ UNCHANGED <<clock, db, request, revoked, faults>>

\* ... and write.  Over the text of another client's token, this one may not
\* reach its end.
FillCache(c) ==
    /\ client[c].pc = "fill"
    /\ \E left \in {client[c].token} \union (IF cache[Host[c]] = NoToken THEN {} ELSE {NoToken}) :
           cache' = [cache EXCEPT ![Host[c]] = left]
    /\ client' = [client EXCEPT ![c].pc =
            IF <<c, client[c].token.license>> \in Enough THEN "trusted" ELSE "blocked"]
    /\ UNCHANGED <<clock, db, request, revoked, faults>>

\* The token cannot be saved: the exception is taken for an unreachable server.
FailCache(c) ==
    /\ client[c].pc \in {"truncate", "fill"}
    /\ faults < MaxFaults
    /\ faults' = faults + 1
    /\ client' = [client EXCEPT ![c].pc = "blocked"]
    /\ UNCHANGED <<clock, db, request, cache, revoked>>

-----------------------------------------------------------------------------

ServerStep(r) ==
    \/ Accept(r)
    \/ TruncateDb(r)
    \/ WriteDb(r)
    \/ Reply(r)

ClientStep(c) ==
    \/ Receive(c)
    \/ GiveUp(c)
    \/ TruncateCache(c)
    \/ FillCache(c)

Next ==
    \/ Tick
    \/ Crash
    \/ \E a \in Admins, l \in Licenses : AskCreate(a, l) \/ AskRevoke(a, l)
    \/ \E r \in Requests : ServerStep(r) \/ FailWrite(r)
    \/ \E c \in Clients : \/ UseCache(c)
                          \/ NoKey(c)
                          \/ \E l \in Licenses : AskVerify(c, l)
                          \/ ClientStep(c)
                          \/ FailCache(c)

Spec == Init /\ [][Next]_vars

-----------------------------------------------------------------------------

\* pro/README.md: "The server locks a license to its first activation
\* fingerprint".  All tokens ever issued for a license are for one machine, even
\* when machines race for it and the server dies before it has saved the lock.
OneMachine ==
    \A c, d \in Clients :
        request[c].token.license = request[d].token.license
            => request[c].token.machine = request[d].token.machine

\* What an admin was told is in the database, unless a failed save has ruined it
\* or one is under way: no other request's save undoes a new license or a
\* revocation.
AdminsObeyed ==
    db # Corrupt =>
        \A a \in Admins :
            request[a].pc = "answered" =>
                /\ request[a].op = "create" => db[request[a].license].status # "none"
                /\ request[a].op = "revoke" => db[request[a].license].status = "revoked"

\* A revocation takes effect within the license's TTL: however answers are delayed
\* and tokens are cached, no client trusts a token of the license after that.
TrustEndsWithTtl ==
    \A c \in Clients :
        client[c].pc = "trusted" /\ revoked[client[c].token.license] # 0 =>
            client[c].at < revoked[client[c].token.license] + Ttl[client[c].token.license]

\* pro/INSTALL.md: "Pro scripts block when the license is missing, expired,
\* revoked, or untrusted."  A client that has no need to ask the server decides as
\* it starts: not in favour of a license that was revoked before.
RevokedIsBlocked ==
    \A c \in Clients :
        /\ client[c].pc = "trusted"
        /\ request[c].pc = "none"
        /\ revoked[client[c].token.license] # 0
        => client[c].at <= revoked[client[c].token.license]
=============================================================================
