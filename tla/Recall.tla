------------------------------- MODULE Recall -------------------------------
(***************************************************************************)
(* The hooks that put memory into a prompt or at the start of a session:    *)
(* Codex (memory-recall.py, memory-primer.py), Claude (memory-recall.sh,    *)
(* memory-primer.sh) and the host-neutral semantic-memory-context.py.       *)
(*                                                                          *)
(* A hook is a chain of calls to the memory server, each of which starts a  *)
(* server process of its own and may fail or time out; other sessions write *)
(* to the memory between two of them.  `memory` is what the server has,     *)
(* `hook` the one hook at work (hooks share nothing else).                  *)
(***************************************************************************)
EXTENDS Integers, FiniteSets, Sequences, FiniteSetsExt

CONSTANTS
    Facts,      \* records: what the memory may come to hold
    MaxHits     \* SM_RECALL_MAXHITS: facts shown for a prompt

ASSUME RecallAssumption ==
    /\ IsFiniteSet(Facts)
    /\ Facts \subseteq [id: Nat, ns: STRING, cos: Nat, score: Nat,
                        proven: BOOLEAN, noisy: BOOLEAN, common: BOOLEAN]
    /\ MaxHits \in Nat \ {0}

VARIABLES memory, hook

recallVars == <<memory, hook>>

\* Percentages: SM_RECALL_MINTOP, BAND, ABSFLOOR, and what the primers use.
MinTop == 58
Band == 12
AbsFloor == 54
PrimerTop == 60
PrimerFloor == 56
PrimerHits == 3

Kits == {"codex", "claude", "neutral", "codexPrimer", "claudePrimer"}
Primers == {"codexPrimer", "claudePrimer"}
CodexKits == {"codex", "codexPrimer"}
Excluded == {"twitter"}
Anywhere == {f.ns : f \in Facts}

\* One search: the namespaces asked for and the priority of what it finds.
Pass(namespaces, priority) == [ns |-> namespaces, prio |-> priority]

RepositoryPasses == <<Pass({"hashed"}, 0), Pass({"legacy"}, 1)>>
BroadPass == Pass(Anywhere, 50)
FallbackPass == Pass(Anywhere, 100)

\* Outside a repository the words of the prompt select up to two groups.
TopicPasses(about) ==
    CASE about = {} -> <<>>
      [] about = {"memory"} -> <<Pass({"codex"}, 0)>>
      [] about = {"project"} -> <<Pass({"projects", "codex"}, 0)>>
      [] OTHER -> <<Pass({"codex"}, 0), Pass({"projects", "codex"}, 1)>>

\* Mutant of PassesOf: the broad search also follows in a repository.
PassesThenBroad(kit, root, late, about) ==
    (IF root /\ kit /= "neutral" THEN RepositoryPasses
     ELSE IF kit \in Primers THEN <<>> ELSE TopicPasses(about)) \o <<BroadPass>>

\* Codex' recall asks git a second time when the first answer was none: a root that
\* is found late gives the repository's searches and the broad one after them.
PassesOf(kit, root, late, about) ==
    IF root /\ kit /= "neutral" THEN RepositoryPasses
    ELSE CASE kit \in Primers -> <<>>
           [] kit = "codex" -> Append(IF late THEN RepositoryPasses ELSE TopicPasses(about),
                                      BroadPass)
           [] OTHER -> <<BroadPass>>

-----------------------------------------------------------------------------
(* What the hook computes from an answer.                                   *)

ScoreKey(facts) == IF \E f \in facts : f.cos > 0 THEN "cos" ELSE "score"
Value(f, key) == IF key = "cos" THEN f.cos ELSE f.score

\* The namespace is checked again on this side.
Matching(facts, pass) == {f \in facts : f.ns \in pass.ns}
Quiet(facts) == {f \in facts : f.ns \notin Excluded /\ ~f.noisy}

Merge(hits, facts, prio) ==
    hits \union {[fact |-> f, prio |-> prio] : f \in facts \ {h.fact : h \in hits}}

\* The first hit in (priority, -value) order, and the cuts relative to it.
Before(g, h, key) ==
    \/ g.prio < h.prio
    \/ g.prio = h.prio /\ Value(g.fact, key) > Value(h.fact, key)
TopOf(hits, key) ==
    Max({Value(h.fact, key) : h \in {g \in hits : \A o \in hits : ~Before(o, g, key)}})

Eligible(hits, key) ==
    LET top == TopOf(hits, key)
    IN IF key = "cos"
       THEN {h \in hits : top >= MinTop /\ h.fact.cos >= Max({AbsFloor, top - Band})}
       ELSE {h \in hits : top > 0 /\ 2 * h.fact.score >= top}

\* The first `most` of the eligible hits; hits of equal rank in any order.
FirstOf(eligible, key, most) ==
    {kept \in SUBSET eligible :
        /\ Cardinality(kept) = Min({most, Cardinality(eligible)})
        /\ \A k \in kept : \A g \in eligible \ kept : ~Before(g, k, key)}

\* The primers look at the cosine only.
Primed(hits) ==
    LET top == TopOf(hits, "cos")
    IN {h \in hits : top >= PrimerTop /\ h.fact.cos >= Max({PrimerFloor, top - Band})}

\* Claude's ranks a hit without one by its score, and shows nothing when such a hit
\* comes first.
ClaudePrimed(hits) ==
    {h \in Primed(hits) :
        \A g \in hits : g.fact.cos = 0 => g.fact.score <= TopOf(hits, "cos")}

\* Claude's shows all hits as soon as one shares a word with the prompt.
ClaudeShown(hits, key) ==
    {IF \E k \in kept : k.fact.common THEN {k.fact : k \in kept} ELSE {} :
        kept \in FirstOf(Eligible(hits, key), key, MaxHits)}

NeutralShown(hits, key) ==
    {{k.fact : k \in kept} : kept \in FirstOf(Eligible(hits, key), key, MaxHits)}

\* Codex keeps the hits that share a word.
CodexShown(hits, key) ==
    {{h.fact : h \in {k \in kept : k.fact.common}} :
        kept \in FirstOf(Eligible(hits, key), key, MaxHits)}

\* The primers ask for no word.
PrimerShown(kit, hits) ==
    {{k.fact : k \in kept} :
        kept \in FirstOf(IF kit = "codexPrimer" THEN Primed(hits) ELSE ClaudePrimed(hits),
                         "cos", PrimerHits)}

Shown(kit, hits, key) ==
    IF hits = {} THEN {{}}
    ELSE CASE kit = "codex" -> CodexShown(hits, key)
           [] kit = "claude" -> ClaudeShown(hits, key)
           [] kit \in Primers -> PrimerShown(kit, hits)
           [] OTHER -> NeutralShown(hits, key)

\* semantic-memory-context.py: when the filters leave nothing, the answer is
\* used as it came.
NeutralFilter(facts) ==
    LET good == {f \in Quiet(facts) : f.common} IN IF good = {} THEN facts ELSE good

\* Admitted: with a provenance, which for some fields is the answer's.
Proven(facts, witnessed) == {f \in facts : f.proven /\ witnessed}

\* What is left of an answer.  The primers look for no noise, and the neutral hook
\* asks for no provenance.
Admissible(kit, facts, witnessed) ==
    LET proven == Proven(facts, witnessed) IN
    CASE kit = "neutral" -> NeutralFilter(facts)
      [] kit \in Primers -> proven
      [] OTHER -> Quiet(proven)

-----------------------------------------------------------------------------
\* `answer` is what is left of the last answer and `found` its score key; `since`
\* and `missed` are history: what was superseded when the hook started, and
\* whether one of its lookups failed.
Idle == [pc |-> "idle", kit |-> "codex", root |-> FALSE, passes |-> <<>>, answer |-> {},
         found |-> "score", hits |-> {}, key |-> "score", fallback |-> FALSE,
         since |-> {}, missed |-> FALSE, shown |-> {}]

\* The hook as it ends: what it showed and the history.
Ended(shown) == [Idle EXCEPT !.kit = hook.kit, !.root = hook.root, !.since = hook.since,
                             !.missed = hook.missed, !.shown = shown]

RecallInit ==
    /\ memory = [stored |-> {}, superseded |-> {}]
    /\ hook = Idle

-----------------------------------------------------------------------------
(* The memory, written by others: external.                                 *)

StoreFact ==
    /\ \E f \in Facts \ memory.stored :
          memory' = [memory EXCEPT !.stored = @ \union {f}]
    /\ UNCHANGED hook

SupersedeFact ==
    /\ \E f \in memory.stored \ memory.superseded :
          memory' = [memory EXCEPT !.superseded = @ \union {f}]
    /\ UNCHANGED hook

-----------------------------------------------------------------------------
(* A hook.                                                                  *)

\* The host starts a hook.  `root` is what git says within its timeout, and `late`
\* what it says when asked again: a repository whose root is not found in time is
\* treated as none.
StartHook ==
    /\ hook.pc = "idle"
    /\ \E kit \in Kits, root, late \in BOOLEAN, about \in SUBSET {"memory", "project"} :
          hook' = [Idle EXCEPT !.pc = IF kit \in Primers THEN "stats" ELSE "search",
                               !.kit = kit, !.root = root,
                               !.passes = PassesOf(kit, root, late, about),
                               !.since = IF kit \in CodexKits THEN memory.superseded ELSE {}]
    /\ UNCHANGED memory

\* A primer first asks for the statistics; without them it says nothing.
AskStats ==
    /\ hook.pc = "stats"
    /\ \E ok \in BOOLEAN : hook' = IF ok THEN [hook EXCEPT !.pc = "search"] ELSE Ended({})
    /\ UNCHANGED memory

\* The next search is answered: by any of the stored facts, since the ranking is
\* the server's, with or without the receipt of a witnessed search.
SearchAnswered ==
    /\ hook.pc = "search"
    /\ hook.passes /= <<>>
    /\ \E answer \in SUBSET memory.stored, witnessed \in BOOLEAN :
         LET matching == Matching(answer, Head(hook.passes))
             good == Admissible(hook.kit, matching, witnessed)
         IN hook' = [hook EXCEPT
                       !.answer = good,
                       !.found = ScoreKey(IF hook.kit = "claude" THEN good ELSE matching),
                       !.pc = IF hook.kit \in CodexKits THEN "lookup" ELSE "render"]
    /\ UNCHANGED memory

\* No binary, a timeout, an answer that does not parse or is not ok.
SearchFailed ==
    /\ hook.pc = "search"
    /\ hook.passes /= <<>>
    /\ hook' = [hook EXCEPT !.passes = Tail(@)]
    /\ UNCHANGED memory

\* Mutant of Current: an answer of which nothing is left is used as it came.
CurrentIfAny(facts, answered) ==
    IF answered /\ facts \ memory.superseded /= {} THEN facts \ memory.superseded ELSE facts

\* What is left when the edges of superseded facts are known, or are not.
Current(facts, answered) == IF answered THEN facts \ memory.superseded ELSE facts

\* Codex asks for the edges of superseded facts, then admits and merges.  A
\* lookup that fails names no fact, and the hook goes on with what it has.
LookupSuperseded ==
    /\ hook.pc = "lookup"
    /\ \E answered \in BOOLEAN :
         LET good == Current(hook.answer, answered)
             pass == Head(hook.passes)
             done == good /= {} /\ hook.root
         IN hook' = [hook EXCEPT
                       !.pc = IF done THEN "decide" ELSE "search",
                       !.hits = Merge(@, good, pass.prio),
                       !.key = IF good /= {} \/ pass.prio >= BroadPass.prio
                               THEN hook.found ELSE @,
                       !.passes = IF done THEN <<>> ELSE Tail(@),
                       !.missed = @ \/ ~answered,
                       !.answer = {}]
    /\ UNCHANGED memory

\* After the last pass of Codex.
PassesDone ==
    /\ hook.pc = "search"
    /\ hook.passes = <<>>
    /\ hook' = [hook EXCEPT !.pc = "decide"]
    /\ UNCHANGED memory

\* The thresholds and the words: the hook ends with what it shows.
Emit ==
    /\ hook.pc = "decide"
    /\ \E shown \in Shown(hook.kit, hook.hits, hook.key) :
          /\ shown /= {}
          /\ hook' = Ended(shown)
    /\ UNCHANGED memory

MayFallBack ==
    /\ hook.kit = "codex" /\ ~hook.root /\ ~hook.fallback
    /\ hook.hits /= {} /\ Eligible(hook.hits, hook.key) /= {}

\* Hits above the cut that share no word with the prompt: outside a repository one
\* more search replaces them all.
SearchAgain ==
    /\ hook.pc = "decide"
    /\ MayFallBack
    /\ {} \in Shown(hook.kit, hook.hits, hook.key)
    /\ hook' = [hook EXCEPT !.pc = "search", !.hits = {}, !.fallback = TRUE,
                            !.passes = <<FallbackPass>>]
    /\ UNCHANGED memory

\* Nothing to show.
GiveUp ==
    /\ hook.pc = "decide"
    /\ {} \in Shown(hook.kit, hook.hits, hook.key)
    /\ ~MayFallBack
    /\ hook' = Ended({})
    /\ UNCHANGED memory

\* Claude and the neutral hook decide on each answer by itself; Claude turns to
\* the legacy namespace when the answer for the first shows nothing.
Render ==
    /\ hook.pc = "render"
    /\ \E shown \in Shown(hook.kit, Merge({}, hook.answer, 0), hook.found) :
          hook' = IF shown /= {} THEN Ended(shown)
                  ELSE [hook EXCEPT !.pc = "search", !.passes = Tail(@), !.answer = {}]
    /\ UNCHANGED memory

HookStep ==
    \/ AskStats
    \/ SearchAnswered
    \/ SearchFailed
    \/ LookupSuperseded
    \/ PassesDone
    \/ Emit
    \/ SearchAgain
    \/ GiveUp
    \/ Render

RecallNext == StoreFact \/ SupersedeFact \/ StartHook \/ HookStep

RecallSpec == RecallInit /\ [][RecallNext]_recallVars /\ WF_recallVars(HookStep)

-----------------------------------------------------------------------------
RecallTypeOK ==
    /\ memory.stored \subseteq Facts
    /\ memory.superseded \subseteq memory.stored
    /\ hook.pc \in {"idle", "stats", "search", "lookup", "render", "decide"}
    /\ hook.kit \in Kits
    /\ hook.key \in {"cos", "score"}
    /\ {hook.root, hook.fallback, hook.missed} \subseteq BOOLEAN
    /\ hook.answer \union hook.since \union hook.shown \subseteq Facts
    /\ \A h \in hook.hits : h.fact \in Facts /\ h.prio \in Nat

\* "Repository recall is fail-closed and ordered": whatever the server returned,
\* and whichever of its calls failed, a prompt in a repository is shown facts of
\* this repository's namespaces only, and never of both in one context.
RepositoryIsolation ==
    hook.root /\ hook.kit /= "neutral" =>
        \E ns \in {"hashed", "legacy"} : \A f \in hook.shown : f.ns = ns

\* What was superseded before a Codex hook started is not shown by it, although
\* it asks once per search and merges the answers, unless one of its lookups
\* failed: the lookup fails open.
SupersededStaysOut ==
    hook.kit \in CodexKits /\ ~hook.missed => hook.shown \cap hook.since = {}

\* Every hook ends: the search that replaces hits without a common word is made
\* only once, whatever it returns.
HooksEnd == []<>(hook.pc = "idle")
=============================================================================
