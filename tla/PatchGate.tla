----------------------------- MODULE PatchGate -----------------------------
(***************************************************************************)
(* From a patch to a proof packet.  verify-patch.py copies the repository to *)
(* a sandbox, runs the check there and writes a receipt; it is run by hand or *)
(* by forge-admin-mcp.py, which gives it 300 s in all.  evidence-workbench.py *)
(* runs its commands in the repository itself.  proof-packet.py joins files   *)
(* that others go on writing.  The user edits and commits all the while.      *)
(***************************************************************************)
EXTENDS Integers, Sequences, FiniteSets

CONSTANTS
    Items,          \* what the repository directory holds and the copy takes
    Works(_),       \* does the check succeed on a tree?
    Verifiers,      \* processes of verify-patch.py
    Benches,        \* processes of evidence-workbench.py
    MaxEdits,
    Seconds         \* when a workbench may write its packet

Trees == [Items -> 0..1]

ASSUME PatchGateAssumption ==
    /\ IsFiniteSet(Items)
    /\ \A t \in Trees : Works(t) \in BOOLEAN
    /\ MaxEdits \in Nat

Runs == Verifiers \union Benches

VARIABLES repo, work, disk, packet

patchVars == <<repo, work, disk, packet>>

\* `raced` is history: did the repository change, or differ from its commit, while
\* the process was at work?
Waiting == [pc |-> "idle", mcp |-> FALSE, sandbox |-> <<>>, codes |-> <<>>,
            timedOut |-> FALSE, receipt |-> <<>>, raced |-> FALSE]

NoPacket == [pc |-> "idle", todo |-> {}, commands |-> {}, disposition |-> <<>>]

\* `files` are the JSON files by name, `sandboxes` the temporary directories.
PatchInit ==
    /\ repo \in {[tree |-> t, head |-> t, edits |-> 0] : t \in Trees}
    /\ work = [r \in Runs |-> Waiting]
    /\ disk = [files |-> <<>>, sandboxes |-> {}, killed |-> {}]
    /\ packet = NoPacket

-----------------------------------------------------------------------------
(* Receipts.                                                                *)

\* Mutant of Disposition: only the usual code of failure is a failure, and the timeout
\* is forgotten.
LaxDisposition(codes, timedOut) ==
    IF \A n \in DOMAIN codes : codes[n] /= 1 THEN "promote" ELSE "reject"

\* _build_receipt: the exit codes are 0, 1, -1 (timed out) and -2 (not started).
Disposition(codes, timedOut) ==
    IF timedOut THEN "quarantine"
    ELSE IF \A n \in DOMAIN codes : codes[n] = 0 THEN "promote"
    ELSE "reject"

\* command_passed, "none" without an explicit signal: the kits' own receipts keep
\* their codes further down, so they have none.
CommandPassed(receipt) ==
    IF receipt.kind /= "ci" THEN "none"
    ELSE IF receipt.codes[1] = 0 THEN "yes"
    ELSE "no"

\* disposition_value: "" when there is none.
DispositionValue(receipt) == IF receipt.kind = "ci" THEN "" ELSE receipt.disposition

\* Mutant of Promoted: a command without a signal is taken as passed.
PromotedUnlessFailed(p) ==
    /\ DispositionValue(p.disposition) = "promote"
    /\ \A c \in p.commands : CommandPassed(c) /= "no"

Promoted(p) ==
    /\ DispositionValue(p.disposition) = "promote"
    /\ \A c \in p.commands : CommandPassed(c) = "yes"

-----------------------------------------------------------------------------
(* The user, and the CI that leaves a receipt of its own: external.          *)

\* A file, or an entry of a directory, that is written anew.
With(files, name, file) ==
    [n \in DOMAIN files \union {name} |-> IF n = name THEN file ELSE files[n]]

Raced == [r \in Runs |-> [work[r] EXCEPT !.raced = @ \/ work[r].pc \in {"copy", "receipt"}]]

Edit ==
    /\ repo.edits < MaxEdits
    /\ \E i \in Items : repo' = [repo EXCEPT !.tree[i] = 1 - @, !.edits = @ + 1]
    /\ work' = Raced
    /\ UNCHANGED <<disk, packet>>

Commit ==
    /\ repo.head /= repo.tree
    /\ repo' = [repo EXCEPT !.head = repo.tree]
    /\ work' = Raced
    /\ UNCHANGED <<disk, packet>>

CiReports ==
    /\ \E code \in {0, 1} :
         disk' = [disk EXCEPT !.files = With(@, <<"ci", 0>>, [kind |-> "ci", codes |-> <<code>>])]
    /\ disk' /= disk
    /\ UNCHANGED <<repo, work, packet>>

-----------------------------------------------------------------------------
(* verify-patch.py                                                          *)

\* Directories first; with mkdtemp done, the rest runs under `finally`.
StartVerify(r, mcp) ==
    /\ work[r].pc = "idle"
    /\ work[r].receipt = <<>>
    /\ work' = [work EXCEPT ![r] = [Waiting EXCEPT !.pc = "copy", !.mcp = mcp,
                                                   !.raced = repo.tree /= repo.head]]
    /\ disk' = [disk EXCEPT !.sandboxes = @ \union {r}]
    /\ UNCHANGED <<repo, packet>>

\* The end of the program by any path: what it leaves is its receipt.
Leave(r, receipt) ==
    /\ work' = [work EXCEPT ![r] = [Waiting EXCEPT !.receipt = receipt]]
    /\ disk' = [disk EXCEPT !.sandboxes = @ \ {r},
                            !.files = IF receipt.kind = "none" THEN @
                                      ELSE With(@, receipt.name, receipt)]

NoReceipt == [kind |-> "none"]

\* One entry of the directory at a time, while the user edits.
CopyItem(r) ==
    /\ work[r].pc = "copy"
    /\ \E i \in Items \ DOMAIN work[r].sandbox :
         work' = [work EXCEPT ![r].sandbox = With(@, i, repo.tree[i])]
    /\ UNCHANGED <<repo, disk, packet>>

\* _run_check in the sandbox: its answer, the timeout, or no process at all.
RunCheck(r) ==
    /\ work[r].pc = "copy"
    /\ DOMAIN work[r].sandbox = Items
    /\ \E code \in {IF Works(work[r].sandbox) THEN 0 ELSE 1, -1, -2} :
         work' = [work EXCEPT ![r].pc = "receipt", ![r].codes = <<code>>,
                              ![r].timedOut = code = -1]
    /\ UNCHANGED <<repo, disk, packet>>

\* The engine's attribution decides nothing.  The commit is asked of the
\* repository only now; git may fail.  Last of all the receipt is written.
WriteReceipt(r) ==
    /\ work[r].pc = "receipt"
    /\ \E commit \in {repo.head, <<>>} :
         Leave(r, [kind |-> "verify", name |-> <<"verify", r>>, commit |-> commit,
                   codes |-> work[r].codes, timedOut |-> work[r].timedOut,
                   raced |-> work[r].raced,
                   disposition |-> Disposition(work[r].codes, work[r].timedOut)])
    /\ UNCHANGED <<repo, packet>>

\* A file that vanishes under the copy, a full disk: an exception.
VerifyFails(r) ==
    /\ work[r].pc \in {"copy", "receipt"}
    /\ Leave(r, NoReceipt)
    /\ UNCHANGED <<repo, packet>>

\* The MCP server's 300 s end before the check's own 300 s do: the process is
\* killed, and nothing is cleaned up.
OuterTimeout(r) ==
    /\ work[r].mcp
    /\ work[r].pc /= "idle"
    /\ work' = [work EXCEPT ![r] = [Waiting EXCEPT !.receipt = NoReceipt]]
    /\ disk' = [disk EXCEPT !.killed = @ \union {r}]
    /\ UNCHANGED <<repo, packet>>

-----------------------------------------------------------------------------
(* evidence-workbench.py: two commands, one after the other, in the repository. *)

StartWorkbench(r) ==
    /\ work[r].pc = "idle"
    /\ work[r].receipt = <<>>
    /\ work' = [work EXCEPT ![r] = [Waiting EXCEPT !.pc = "bench"]]
    /\ UNCHANGED <<repo, disk, packet>>

RunGate(r) ==
    /\ work[r].pc = "bench"
    /\ Len(work[r].codes) < 2
    /\ \E code \in {IF Works(repo.tree) THEN 0 ELSE 1, 124} :
         work' = [work EXCEPT ![r].codes = Append(@, code),
                              ![r].timedOut = @ \/ code = 124]
    /\ UNCHANGED <<repo, disk, packet>>

\* The file is named by the second: a second packet of it replaces the first.
WriteBench(r) ==
    /\ work[r].pc = "bench"
    /\ Len(work[r].codes) = 2
    /\ \E second \in Seconds :
         Leave(r, [kind |-> "bench", name |-> <<"bench", second>>, codes |-> work[r].codes,
                   disposition |-> IF Disposition(work[r].codes, work[r].timedOut) = "promote"
                                   THEN "promote" ELSE "reject"])
    /\ UNCHANGED <<repo, packet>>

-----------------------------------------------------------------------------
(* proof-packet.py                                                          *)

StartPacket ==
    /\ packet.pc = "idle"
    /\ packet = NoPacket
    /\ \E names \in SUBSET DOMAIN disk.files :
         names /= {} /\ packet' = [NoPacket EXCEPT !.pc = "read", !.todo = names]
    /\ UNCHANGED <<repo, work, disk>>

\* Each file as it is when its turn comes.
ReadCommand ==
    /\ packet.pc = "read"
    /\ \E name \in packet.todo :
         packet' = [packet EXCEPT !.todo = @ \ {name},
                                  !.commands = @ \union {disk.files[name]}]
    /\ UNCHANGED <<repo, work, disk>>

ReadDisposition ==
    /\ packet.pc = "read"
    /\ packet.todo = {}
    /\ \E name \in DOMAIN disk.files :
         packet' = [packet EXCEPT !.pc = "joined", !.disposition = disk.files[name]]
    /\ UNCHANGED <<repo, work, disk>>

\* A file that is just being rewritten does not parse: no packet, and exit code 2.
PacketFails ==
    /\ packet.pc = "read"
    /\ packet' = NoPacket
    /\ UNCHANGED <<repo, work, disk>>

VerifyStep(r) ==
    CopyItem(r) \/ RunCheck(r) \/ WriteReceipt(r) \/ VerifyFails(r) \/ OuterTimeout(r)

PatchNext ==
    \/ Edit \/ Commit \/ CiReports
    \/ \E r \in Verifiers : VerifyStep(r) \/ \E mcp \in BOOLEAN : StartVerify(r, mcp)
    \/ \E r \in Benches : StartWorkbench(r) \/ RunGate(r) \/ WriteBench(r)
    \/ StartPacket \/ ReadCommand \/ ReadDisposition \/ PacketFails

PatchSpec == PatchInit /\ [][PatchNext]_patchVars

-----------------------------------------------------------------------------
PatchTypeOK ==
    /\ repo.tree \in Trees /\ repo.head \in Trees
    /\ \A r \in Runs : work[r].pc \in {"idle", "copy", "receipt", "bench"}
    /\ disk.sandboxes \subseteq Runs
    /\ packet.pc \in {"idle", "read", "joined"}

\* "Fails closed unless the final disposition is promote": a promoted packet rests
\* on a check that ran to its end and succeeded, and on commands that each said
\* so, whatever was written, replaced or left without a signal since.
PromotionIsEarned ==
    packet.pc = "joined" /\ Promoted(packet) =>
        /\ \A n \in DOMAIN packet.disposition.codes : packet.disposition.codes[n] = 0
        /\ \A c \in packet.commands : c.codes = <<0>> /\ c.kind = "ci"

\* The commit a promoting receipt names is asked for after the check: it is one
\* that was checked, if nothing was edited or committed meanwhile and everything
\* was committed before.
CommitWasChecked ==
    \A name \in DOMAIN disk.files :
        LET r == disk.files[name] IN
        r.kind = "verify" /\ r.disposition = "promote" /\ ~r.raced /\ r.commit /= <<>>
            => Works(r.commit)

\* A sandbox outlives its verification only when the process was killed: no error
\* on the way leaves one behind.
SandboxesRemoved ==
    \A r \in disk.sandboxes : work[r].pc /= "idle" \/ r \in disk.killed

\* A verification leaves a true receipt, and nothing else.
VerificationIsClean == CommitWasChecked /\ SandboxesRemoved
=============================================================================
