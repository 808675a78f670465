--------------------------- MODULE ResumableBench ---------------------------
(***************************************************************************)
(* Benchmarks that can be resumed: LongMemEval and BEIR Scifact through    *)
(* the memory server (benchmark-longmemeval-semantic-memory.py, benchmark- *)
(* beir-scifact-ranking.py), and the generation of answers by an isolated  *)
(* host (run-longmemeval-luna.py). Each appends to JSONL files what is     *)
(* done, and a later run of the same work directory skips it.              *)
(***************************************************************************)
EXTENDS Naturals, SequencesExt

CONSTANTS Lanes,         \* "longmemeval", "beir", "luna"
          Questions,     \* what is to be done; in the lanes with a store also
                         \* the documents, one for each question
          MaxPasses,     \* bound on the runs of the benchmark
          TornLine       \* what a write that ended half way leaves

\* Half a line of JSON is no line.
ASSUME ResumeAssumption ==
    /\ MaxPasses \in Nat /\ TornLine \notin Questions
    /\ \A q \in Questions, ok \in BOOLEAN : TornLine # [q |-> q, ok |-> ok]

VARIABLES lane,          \* the benchmark, for good
          pass,          \* the running pass: where it is, and what it has in memory
          corpus,        \* documents in the server's store (external)
          storeDir,      \* the store's directory exists
          checkpoint,    \* file: questions whose document is stored, or TornLine
          results,       \* file: [q, ok] rows, or TornLine
          passReceipt,   \* the last receipt: its status and its rows
          finished,      \* luna: [q, ok] rows of the host, not yet in a file
          passes

resumeVars ==
    <<lane, pass, corpus, storeDir, checkpoint, results, passReceipt, finished, passes>>

-----------------------------------------------------------------------------
NoPass == [at |-> "idle", done |-> {}, failed |-> {}, rows |-> << >>, q |-> {}]
NoPassReceipt == [status |-> "none", rows |-> {}]

\* A line after a torn one continues it: both are lost.
AppendedRow(file, row) ==
    IF file # << >> /\ Last(file) = TornLine THEN file ELSE Append(file, row)

IsTorn(file) == TornLine \in Range(file)

TornEnd(file) == AppendedRow(file, TornLine)

Listed(file) == {r \in Questions : r \in Range(file)}
AnsweredIn(file) == {row.q : row \in {r \in Range(file) : r # TornLine}}

\* Mutant of StoreKept: a checkpoint is good without its store.
StoreNotAsked == TRUE

\* main refuses a checkpoint whose store directory is gone; what is in the directory
\* it does not ask.
StoreKept == checkpoint = << >> \/ storeDir

\* The pass makes sure of its directory and reads what earlier ones have done; a torn
\* line ends it at once.
StartPass ==
    /\ pass.at = "idle" /\ passes < MaxPasses /\ passes' = passes + 1
    /\ LET file == IF lane = "luna" THEN results ELSE checkpoint
           readable == ~IsTorn(file) /\ (lane = "luna" \/ StoreKept)
       IN  pass' = [NoPass EXCEPT !.at = IF ~readable THEN "aborted"
                                       ELSE IF lane = "luna" THEN "ask" ELSE "admit",
                     !.done = IF ~readable THEN {}
                              ELSE IF lane = "luna" THEN AnsweredIn(file) ELSE Listed(file)]
    /\ storeDir' = (storeDir \/ (lane # "luna" /\ StoreKept))
    /\ UNCHANGED <<lane, corpus, checkpoint, results, passReceipt, finished>>

Searched == {row.q : row \in Range(pass.rows)}

\* sm_add_fact with an idempotency key: stored, once, or refused.
Admit(q) ==
    /\ pass.at = "admit" /\ pass.q = {} /\ q \notin pass.done \union pass.failed
    /\ \/ /\ corpus' = corpus \union {q}
          /\ pass' = [pass EXCEPT !.at = "note", !.q = {q}]
       \/ /\ pass' = [pass EXCEPT !.failed = @ \union {q},
                                  !.q = IF lane = "longmemeval" THEN {q} ELSE {}]
          /\ UNCHANGED corpus
    /\ UNCHANGED <<lane, storeDir, checkpoint, results, passReceipt, finished, passes>>

\* Only after the server's answer, the checkpoint says so.
NoteAdmitted ==
    /\ pass.at = "note"
    /\ \E q \in pass.q :
         /\ checkpoint' = AppendedRow(checkpoint, q)
         /\ pass' = [pass EXCEPT !.at = "admit", !.done = @ \union {q},
                                !.q = IF lane = "longmemeval" THEN @ ELSE {}]
    /\ UNCHANGED <<lane, corpus, storeDir, results, passReceipt, finished, passes>>

\* BEIR goes on only with the whole corpus.
AllTried ==
    /\ pass.at = "admit" /\ lane = "beir" /\ pass.done \union pass.failed = Questions
    /\ pass' = [pass EXCEPT !.at = IF pass.failed # {} THEN "aborted" ELSE "search"]
    /\ UNCHANGED <<lane, corpus, storeDir, checkpoint, results, passReceipt, finished, passes>>

\* BEIR searches when all is in the store, LongMemEval after each question's sessions.
Searchable ==
    (CASE pass.at = "search" -> Questions
       [] pass.at = "admit" /\ lane = "longmemeval" -> IF pass.q = {} THEN pass.done ELSE pass.q
       [] OTHER -> {}) \ Searched

\* Every question is searched in each pass. A failed search is a row too; only
\* LongMemEval appends it to a file.
SearchOne(q) ==
    /\ q \in Searchable
    /\ \E ok \in BOOLEAN :
         /\ pass' = [pass EXCEPT !.q = {}, !.rows = Append(@, [q |-> q, ok |-> ok])]
         /\ results' = IF lane = "longmemeval" THEN AppendedRow(results, [q |-> q, ok |-> ok])
                       ELSE results
    /\ UNCHANGED <<lane, corpus, storeDir, checkpoint, passReceipt, finished, passes>>

\* The latest row of each question.
LatestRows(rows) ==
    {rows[i] : i \in {k \in DOMAIN rows : \A l \in k + 1..Len(rows) : rows[l].q # rows[k].q}}

\* LongMemEval reads its file again, with the rows of earlier passes; the receipt is
\* complete if nothing was refused in this pass, BEIR's is measured if no search failed.
WritePassReceipt ==
    /\ pass.at \in {"admit", "search"} /\ Searched = Questions
    /\ IF lane = "longmemeval" /\ IsTorn(results)
       THEN pass' = [pass EXCEPT !.at = "aborted"] /\ UNCHANGED passReceipt
       ELSE LET rows == IF lane = "longmemeval" THEN LatestRows(results) ELSE Range(pass.rows)
                good == IF lane = "longmemeval" THEN pass.failed = {} ELSE \A r \in rows : r.ok
            IN  /\ pass' = [pass EXCEPT !.at = "done"]
                /\ passReceipt' = [status |-> IF good THEN "good" ELSE "degraded", rows |-> rows]
    /\ UNCHANGED <<lane, corpus, storeDir, checkpoint, results, finished, passes>>

\* run-longmemeval-luna: the questions without an answer, in a pool of threads.
ToAsk == Questions \ (pass.done \union Searched)

\* The host answers, or the call fails: nothing is in a file yet.
Ask(q) ==
    /\ pass.at = "ask" /\ q \in ToAsk \ {row.q : row \in finished}
    /\ \E ok \in BOOLEAN : finished' = finished \union {[q |-> q, ok |-> ok]}
    /\ UNCHANGED <<lane, pass, corpus, storeDir, checkpoint, results, passReceipt, passes>>

\* as_completed: what has finished is appended one by one, failures to another file.
AppendAnswer(row) ==
    /\ pass.at = "ask" /\ row \in finished
    /\ finished' = finished \ {row}
    /\ pass' = [pass EXCEPT !.rows = Append(@, row)]
    /\ results' = IF row.ok THEN AppendedRow(results, row) ELSE results
    /\ UNCHANGED <<lane, corpus, storeDir, checkpoint, passReceipt, passes>>

AllAsked ==
    /\ pass.at = "ask" /\ ToAsk = {}
    /\ pass' = [pass EXCEPT !.at = "done"]
    /\ passReceipt' = [status |-> IF \A r \in Range(pass.rows) : r.ok THEN "good" ELSE "degraded",
                       rows |-> Range(results)]
    /\ UNCHANGED <<lane, corpus, storeDir, checkpoint, results, finished, passes>>

EndPass ==
    /\ pass.at \in {"done", "aborted"}
    /\ pass' = NoPass
    /\ UNCHANGED <<lane, corpus, storeDir, checkpoint, results, passReceipt, finished, passes>>

\* The pass is killed, maybe in the middle of a line. The line it was about to
\* write: a checkpoint's, a row's of the log, an answer's.
KillPass ==
    /\ pass.at \in {"admit", "note", "search", "ask"}
    /\ pass' = NoPass
    /\ \/ UNCHANGED <<checkpoint, results>>
       \/ pass.at = "note" /\ checkpoint' = TornEnd(checkpoint) /\ UNCHANGED results
       \/ /\ \/ \E row \in finished : row.ok
             \/ lane = "longmemeval" /\ Searchable # {}
          /\ results' = TornEnd(results) /\ UNCHANGED checkpoint
    /\ finished' = {}
    /\ UNCHANGED <<lane, corpus, storeDir, passReceipt, passes>>

\* External: somebody removes the store, or the files with it, between two passes.
RemoveStore ==
    /\ pass.at = "idle" /\ storeDir
    /\ storeDir' = FALSE /\ corpus' = {}
    /\ checkpoint' \in {checkpoint, << >>}
    /\ UNCHANGED <<lane, pass, results, passReceipt, finished, passes>>

ResumeInit ==
    /\ lane \in Lanes /\ pass = NoPass /\ corpus = {} /\ storeDir = FALSE
    /\ checkpoint = << >> /\ results = << >> /\ passReceipt = NoPassReceipt
    /\ finished = {} /\ passes = 0

ResumeNext ==
    \/ StartPass \/ NoteAdmitted \/ AllTried \/ WritePassReceipt \/ AllAsked \/ EndPass
    \/ KillPass \/ RemoveStore
    \/ \E q \in Questions : Admit(q) \/ SearchOne(q) \/ Ask(q)
    \/ \E row \in finished : AppendAnswer(row)

ResumeSpec == ResumeInit /\ [][ResumeNext]_resumeVars

-----------------------------------------------------------------------------
\* Types of the state.
ResumeTypeOK ==
    /\ lane \in Lanes
    /\ pass.at \in {"idle", "aborted", "admit", "note", "search", "ask", "done"}
    /\ corpus \subseteq Questions
    /\ Range(checkpoint) \subseteq Questions \union {TornLine}
    /\ passReceipt.status \in {"none", "good", "degraded"}
    /\ finished \subseteq [q : Questions, ok : BOOLEAN] /\ passes \in 0..MaxPasses

\* A pass ends well only over the whole corpus: though it skips what the checkpoint
\* of killed passes names, each document is in the store.
GoodPassHasAll ==
    pass.at = "done" /\ lane # "luna" /\ passReceipt.status = "good" => corpus = Questions

\* "Re-running resumes only missing question IDs": however often passes are killed
\* and started again, and wherever between an answer and its line, what the host is
\* paid to answer has no answer in the file, and is asked once in a pass.
AnsweredOnce ==
    \A row \in finished : row.q \notin AnsweredIn(results) \union Searched

\* A pass that resumes others neither leaves out nor repeats what they did.
ResumeIsExact == GoodPassHasAll /\ AnsweredOnce

\* An incremental log "so a timeout or crash never loses already-measured questions":
\* what a receipt had measured, a later one has too.
MeasuredIsKept ==
    [][lane = "longmemeval" =>
         \A row \in passReceipt.rows : row.ok => row \in passReceipt'.rows]_resumeVars
=============================================================================
