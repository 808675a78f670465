------------------------------ MODULE McpStdio ------------------------------
(***************************************************************************)
(* The kits' own MCP servers on stdin and stdout: context-governor-mcp.py,    *)
(* claim-ledger-mcp.py, forge-admin-mcp.py and agent-guard-mcp.py.  Each is   *)
(* one loop that reads a line, does what it asks to the end and prints the    *)
(* answer.  The client is the agent host: it sends requests without waiting   *)
(* for answers, gives up on some, and matches answers by id.                *)
(***************************************************************************)
EXTENDS Integers, Sequences, FiniteSets

CONSTANTS
    FirstIds,       \* the host's first request id: hosts start at 0 or 1
    MaxRequests

ASSUME McpAssumption == FirstIds \subseteq Nat /\ MaxRequests \in Nat

VARIABLES server, host

mcpVars == <<server, host>>

Null == -1          \* the id of an answer that has none

\* Tools and, of each, what it must be told ("none": it runs no child without it).
GovernorTools == [cg_list_receipts |-> {}, cg_search |-> {"query"},
                  cg_expand |-> {"receipt_id", "item_id"}, cg_diff_receipt |-> {"receipt_id"}]
LedgerTools == [cl_inspect |-> {"claims_jsonl"}, cl_validate |-> {"out_dir"},
                cl_export_bundle |-> {"out_dir", "bundle_out"},
                cl_ledger_verify |-> {"ledger_path"}, cl_run |-> {"path"}]
ForgeTools == [forge_verify_patch |-> {"repo_path", "claim", "check_cmd"},
               forge_get_attribution |-> {"graph_path"},
               forge_predict_risk |-> {"graph_path", "edit_signature"},
               forge_export_evidence |-> {"receipt_path"}]
GuardTools == [agent_guard_security_posture |-> {}, agent_guard_check_process |-> {"pid"}]

Tools == [governor |-> GovernorTools, ledger |-> LedgerTools,
          forge |-> ForgeTools, guard |-> GuardTools]

McpInit ==
    /\ server \in {[kind |-> k, alive |-> TRUE, in |-> <<>>, out |-> <<>>] : k \in DOMAIN Tools}
    /\ host \in {[next |-> f, first |-> f, pending |-> {}, taken |-> <<>>,
                 once |-> {}] : f \in FirstIds}

-----------------------------------------------------------------------------
(* What a call comes to: a result, an error, or the end of the server.       *)

\* Any exception becomes an error: a missing argument, an unknown tool, a child that
\* fails, takes more than 20 s or prints no JSON, a receipt that is not there.
GovernorCall(line) ==
    IF line.tool \notin DOMAIN GovernorTools \/ ~(GovernorTools[line.tool] \subseteq line.args)
    THEN {"error"}
    ELSE IF line.tool = "cg_list_receipts" THEN {"result"} ELSE {"result", "error"}

\* The same; output that is no JSON is passed on as text.
LedgerCall(line) ==
    IF line.tool \in DOMAIN LedgerTools /\ LedgerTools[line.tool] \subseteq line.args
    THEN {"result", "error"} ELSE {"error"}

\* Errors are results with a text.  Only the export of evidence reads a file
\* unprotected: one that does not parse ends the server.
ForgeCall(line) ==
    IF line.tool = "forge_export_evidence" /\ "receipt_path" \in line.args
    THEN {"result", "dies"} ELSE {"result"}

-----------------------------------------------------------------------------
(* The answers to one line: a set of [id, is, to], of which `to` is history:  *)
(* the line it answers (Null: a notification).  No answer is Silence.        *)

Silence == [id |-> Null, is |-> "silence", to |-> Null]
Answer(id, is, line) == [id |-> id, is |-> is, to |-> line.id]

Known == {"initialize", "tools/list"}

\* What nothing answers, on one server at least.
Unanswered == {"notifications/initialized", "no JSON"}

\* A line that is no JSON, or JSON that is no object, gets an error, too: of no request.
GovernorReply(line) ==
    CASE line.method = "notifications/initialized" -> {Silence}
      [] line.method \in Known -> {Answer(line.id, "result", line)}
      [] line.method = "tools/call" -> {Answer(line.id, is, line) : is \in GovernorCall(line)}
      [] OTHER -> {Answer(line.id, "error", line)}

\* The other three skip what is no JSON, and end on JSON that is no object.
LedgerReply(line) ==
    CASE line.method \in Unanswered -> {Silence}
      [] line.method = "no object" -> {Answer(line.id, "dies", line)}
      [] line.method \in Known -> {Answer(line.id, "result", line)}
      [] line.method = "tools/call" -> {Answer(line.id, is, line) : is \in LedgerCall(line)}
      [] OTHER -> {Answer(line.id, "error", line)}

\* forge and guard: msg.get("id", 0).
LineId(line) == IF line.id = Null THEN 0 ELSE line.id

\* A notification is answered, too: with an error for id 0.
ForgeReply(line) ==
    CASE line.method = "no JSON" -> {Silence}
      [] line.method = "no object" -> {Answer(line.id, "dies", line)}
      [] line.method \in Known -> {Answer(LineId(line), "result", line)}
      [] line.method = "tools/call" -> {Answer(LineId(line), is, line) : is \in ForgeCall(line)}
      [] OTHER -> {Answer(LineId(line), "error", line)}

GuardReply(line) ==
    CASE line.method = "no JSON" -> {Silence}
      [] line.method = "no object" -> {Answer(line.id, "dies", line)}
      [] line.method \in Known \union {"tools/call"} -> {Answer(LineId(line), "result", line)}
      [] OTHER -> {Answer(LineId(line), "error", line)}

\* Mutant of Replies: an error of the child is printed nowhere.
RepliesButErrors(line) ==
    LET all == CASE server.kind = "governor" -> GovernorReply(line)
                 [] server.kind = "ledger" -> LedgerReply(line)
                 [] server.kind = "forge" -> ForgeReply(line)
                 [] OTHER -> GuardReply(line)
    IN {IF r.is = "error" THEN Silence ELSE r : r \in all}

Replies(line) ==
    CASE server.kind = "governor" -> GovernorReply(line)
      [] server.kind = "ledger" -> LedgerReply(line)
      [] server.kind = "forge" -> ForgeReply(line)
      [] OTHER -> GuardReply(line)

-----------------------------------------------------------------------------
(* The host: external.                                                      *)

Sent(line) == server' = [server EXCEPT !.in = Append(@, line)]

Line(id, method) == [id |-> id, method |-> method, tool |-> "", args |-> {}]

Send(line) ==
    /\ host.next < host.first + MaxRequests
    /\ Sent(line)
    /\ host' = [host EXCEPT !.next = @ + 1, !.pending = @ \union {line.id}]

\* Only `initialize` is sent before its answer.
Started == host.first \in DOMAIN host.taken

Initialize == host.next = host.first /\ Send(Line(host.next, "initialize"))

ListTools == Started /\ Send(Line(host.next, "tools/list"))

\* Any tool of this server or of another one, with all, or none, of what it needs.
CallTool ==
    /\ Started
    /\ \E tool \in DOMAIN Tools[server.kind] :
          \E args \in {{}, Tools[server.kind][tool]} :
             Send([id |-> host.next, method |-> "tools/call", tool |-> tool, args |-> args])

CallUnknown ==
    /\ Started
    /\ Send([id |-> host.next, method |-> "tools/call", tool |-> "sm_search", args |-> {}])

\* A line of no request, once, after the answer to `initialize`.
SendOnce(method) ==
    /\ Started
    /\ method \notin host.once
    /\ Sent(Line(Null, method))
    /\ host' = [host EXCEPT !.once = @ \union {method}]

NotifyInitialized == SendOnce("notifications/initialized")

\* What strays into the pipe, at most once: a text, or JSON that is no object.
Stray ==
    /\ {"no JSON", "no object"} \intersect host.once = {}
    /\ SendOnce("no JSON") \/ SendOnce("no object")

\* The host waits no longer, and says so.
Cancel(id) ==
    /\ id \in host.pending
    /\ id /= host.first
    /\ Sent(Line(Null, "notifications/cancelled"))
    /\ host' = [host EXCEPT !.pending = @ \ {id}]

\* The answers by the id of their request.
Kept(taken, answer) ==
    [id \in DOMAIN taken \union {answer.id} |-> IF id = answer.id THEN answer ELSE taken[id]]

\* An answer whose id nobody waits for is dropped.
Take ==
    /\ server.out /= <<>>
    /\ LET answer == Head(server.out) IN
       host' = IF answer.id \in host.pending
               THEN [host EXCEPT !.pending = @ \ {answer.id},
                                 !.taken = Kept(@, answer)]
               ELSE host
    /\ server' = [server EXCEPT !.out = Tail(@)]

-----------------------------------------------------------------------------
\* One turn of the server's loop.
Serve ==
    /\ server.alive
    /\ server.in /= <<>>
    /\ \E r \in Replies(Head(server.in)) :
          server' = [server EXCEPT
                       !.in = Tail(@),
                       !.alive = r.is /= "dies",
                       !.out = IF r.is \in {"silence", "dies"} THEN @ ELSE Append(@, r)]
    /\ UNCHANGED host

McpNext ==
    \/ Initialize \/ ListTools \/ CallTool \/ CallUnknown \/ NotifyInitialized \/ Stray \/ Take \/ Serve
    \/ \E id \in host.pending : Cancel(id)

McpSpec == McpInit /\ [][McpNext]_mcpVars

-----------------------------------------------------------------------------
McpTypeOK ==
    /\ server.kind \in DOMAIN Tools
    /\ host.pending \subseteq host.first .. (host.next - 1)
    /\ \A n \in DOMAIN server.out : server.out[n].id \in {Null, 0} \union (host.first .. host.next)

\* What the host takes for the answer to a request answers that request, although
\* requests are pipelined and given up, other lines stray in between and forge and guard answer notifications,
\* with an id that a host uses for `initialize` at most.
AnswersMatch ==
    \A id \in DOMAIN host.taken : host.taken[id].to = id

\* As long as the server lives, a request the host waits for is still to be read or
\* its answer is on the way: no failure of a tool leaves the host waiting.
NothingIsLost ==
    server.alive =>
        \A id \in host.pending :
            \/ \E n \in DOMAIN server.in : server.in[n].id = id
            \/ \E n \in DOMAIN server.out : server.out[n].id = id

\* Each request has its own answer, and none waits in vain.
AnswersArrive == AnswersMatch /\ NothingIsLost
=============================================================================
