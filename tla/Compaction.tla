---------------------------- MODULE Compaction ----------------------------
(***************************************************************************)
(* Compacting a transcript with the context governor before a host drops   *)
(* it (context-governor-compact.py): the shared and Claude script, the     *)
(* older Codex hook script, and the Codex script, which may add a summary  *)
(* written by a model when the deterministic compaction is too long.       *)
(***************************************************************************)
EXTENDS Naturals, Sequences

CONSTANTS Compactions,   \* one per transcript; also the id of its receipt
          Scripts,       \* subset of {"shared", "codex_hook", "codex_script"}
          Refs           \* exact fallback references a receipt may hold

RefLists == {<< >>} \union {<<r>> : r \in Refs}

VARIABLES compaction,   \* how far each has come and what it holds
          receipts,     \* the receipts in the governor's store
          overlays,     \* the model's summaries written beside them: id and references
          storeUp       \* the store directory can be written

compactionVars == <<compaction, receipts, overlays, storeUp>>

Waiting == [at |-> "waiting"]
At(c, place) == compaction[c].at = place
Goes(c, place) == compaction' = [compaction EXCEPT ![c].at = place]

-----------------------------------------------------------------------------
\* A process whose transcript cannot be read, or without one, leaves at once.
BeginCompaction(c, script) ==
    /\ At(c, "waiting")
    /\ compaction' = [compaction EXCEPT ![c] =
         [at |-> "compact", script |-> script, refs |-> << >>, long |-> FALSE,
          stored |-> "no", overlay |-> "not needed", found |-> << >>, printed |-> FALSE]]
    /\ UNCHANGED <<receipts, overlays, storeUp>>

\* No binary, no transcript, or a governor that exits with an error: the host goes
\* on without a compaction.
FailsOpen(c) ==
    /\ At(c, "compact")
    /\ Goes(c, "open")
    /\ UNCHANGED <<receipts, overlays, storeUp>>

\* A governor that hangs or answers with no JSON ends the script: only its exit
\* status is caught. So does the store step of every script.
GovernorBreaks(c) ==
    /\ At(c, "compact") \/ At(c, "store")
    /\ Goes(c, "ended")
    /\ UNCHANGED <<receipts, overlays, storeUp>>

\* The directory is made once the answer is there; the old hook does not catch
\* its failure.
Compacted(c) ==
    /\ At(c, "compact")
    /\ \E refs \in RefLists, long \in BOOLEAN :
         compaction' = [compaction EXCEPT ![c].refs = refs, ![c].long = long,
            ![c].at = IF storeUp THEN "store"
                      ELSE IF compaction[c].script = "codex_hook" THEN "ended" ELSE "open"]
    /\ UNCHANGED <<receipts, overlays, storeUp>>

\* needs_llm_overlay, in the one script that has it.
AfterStore(c) ==
    IF compaction[c].script = "codex_script" /\ compaction[c].long THEN "overlay" ELSE "print"

Stored(c) ==
    /\ At(c, "store") /\ storeUp
    /\ receipts' = receipts \union {c}
    /\ compaction' = [compaction EXCEPT ![c].stored = "yes", ![c].at = AfterStore(c)]
    /\ UNCHANGED <<overlays, storeUp>>

\* The failure is part of the answer, except in the old hook, which has no place
\* for it.
StoreFails(c) ==
    /\ At(c, "store")
    /\ compaction' = [compaction EXCEPT
         ![c].stored = IF compaction[c].script = "codex_hook" THEN "no" ELSE "failed",
         ![c].at = AfterStore(c)]
    /\ UNCHANGED <<receipts, overlays, storeUp>>

\* Mutant of RefsAccepted: the references are not looked at.
AnyRefsAccepted(found, required) == TRUE

\* The last test of render_llm_overlay: `found or ([] != required)` refuses the
\* summary, so it is accepted when both lists are empty.
RefsAccepted(found, required) == ~(found # << >> \/ << >> # required)

\* The summary belongs to the answer before it is written beside the receipt: a disk
\* that refuses the file leaves an answer with a summary and no path.
RenderOverlay(c) ==
    /\ At(c, "overlay")
    /\ \E found \in RefLists :
         LET accepted == RefsAccepted(found, compaction[c].refs) IN
         /\ overlays' = IF accepted /\ storeUp THEN overlays \union {[of |-> c, refs |-> found]}
                        ELSE overlays
         /\ compaction' = [compaction EXCEPT ![c].at = "print", ![c].found = found,
              ![c].overlay = CASE accepted /\ storeUp -> "kept"
                               [] accepted /\ ~storeUp -> "unstored"
                               [] ~accepted /\ found = compaction[c].refs -> "refused"
                               [] OTHER -> "unavailable"]
    /\ UNCHANGED <<receipts, storeUp>>

\* The model fails, is too slow, or its summary lacks the structure.
OverlayFails(c) ==
    /\ At(c, "overlay")
    /\ compaction' = [compaction EXCEPT ![c].at = "print", ![c].overlay = "unavailable"]
    /\ UNCHANGED <<receipts, overlays, storeUp>>

PrintCompaction(c) ==
    /\ At(c, "print")
    /\ compaction' = [compaction EXCEPT ![c].at = "done", ![c].printed = TRUE]
    /\ UNCHANGED <<receipts, overlays, storeUp>>

\* External: the disk fills up or is freed.
DiskTurns ==
    /\ storeUp' = ~storeUp
    /\ UNCHANGED <<compaction, receipts, overlays>>

-----------------------------------------------------------------------------
CompactionInit ==
    /\ compaction = [c \in Compactions |-> Waiting]
    /\ receipts = {} /\ overlays = {} /\ storeUp = TRUE

CompactionNext ==
    \/ \E c \in Compactions :
          \/ \E script \in Scripts : BeginCompaction(c, script)
          \/ FailsOpen(c)
          \/ GovernorBreaks(c)
          \/ Compacted(c)
          \/ Stored(c)
          \/ StoreFails(c)
          \/ RenderOverlay(c)
          \/ OverlayFails(c)
          \/ PrintCompaction(c)
    \/ DiskTurns

CompactionSpec == CompactionInit /\ [][CompactionNext]_compactionVars

-----------------------------------------------------------------------------
\* Types of the state.
CompactionTypeOK ==
    /\ \A c \in Compactions : ~At(c, "waiting") =>
          compaction[c] \in [at : {"compact", "store", "overlay", "print", "open", "ended", "done"},
                             script : Scripts, refs : RefLists, long : BOOLEAN,
                             stored : {"no", "yes", "failed"},
                             overlay : {"not needed", "kept", "unstored", "refused",
                                        "unavailable"},
                             found : RefLists, printed : BOOLEAN]
    /\ receipts \subseteq Compactions
    /\ overlays \subseteq [of : Compactions, refs : RefLists]
    /\ storeUp \in BOOLEAN

\* What a compaction says can be recovered: a summary beside a receipt or in an
\* answer has exactly the references of that receipt, and no answer names the path of
\* a receipt or a summary that is not there, although the directory comes and goes
\* between compacting, storing and writing the summary.
RecoverySaysTheTruth ==
    /\ \A o \in overlays : o.refs = compaction[o.of].refs
    /\ \A c \in Compactions : ~At(c, "waiting") =>
          /\ compaction[c].stored = "yes" => c \in receipts
          /\ compaction[c].overlay = "kept" => \E o \in overlays : o.of = c
          /\ compaction[c].overlay \in {"kept", "unstored"} =>
                compaction[c].found = compaction[c].refs

\* "LLM summary did not preserve exact fallback refs in order"
\* (context-governor-compact.py:74): a summary is refused for its references only
\* when it did not preserve them.
GoodSummaryIsKept == \A c \in Compactions : ~At(c, "waiting") => compaction[c].overlay # "refused"
=============================================================================
