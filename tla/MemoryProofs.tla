---------------------------- MODULE MemoryProofs ----------------------------
(***************************************************************************)
(* Proofs about what reads, writes and reports on the memory, for all their *)
(* constants: Recall, whose hooks show nothing of another repository,       *)
(* RecallAdmission, whose ledger keeps hubs out, Compaction, whose answers  *)
(* say what can be recovered, MemoryReports, whose reports are true of a    *)
(* memory that changes under them, IngestCodebase, which sends again what   *)
(* was not acknowledged, and Viscosity, whose posture follows the loops     *)
(* that were recorded.                                                      *)
(***************************************************************************)
EXTENDS MCMemory, FiniteSetTheorems, SequenceTheorems, NaturalsInduction,
        WellFoundedInduction, TLAPS

-----------------------------------------------------------------------------
(* What the operators of a hook return.                                     *)

\* The namespaces a hook may ask for.
Namespaces == Anywhere \union {"codex", "projects", "hashed", "legacy"}

PassRecord == [ns : SUBSET Namespaces, prio : Nat]

Hit == [fact : Facts, prio : Nat]

HookRecord ==
    [pc : {"idle", "stats", "search", "lookup", "render", "decide"},
     kit : Kits, root : BOOLEAN, passes : Seq(PassRecord), answer : SUBSET Facts,
     found : {"cos", "score"}, hits : SUBSET Hit, key : {"cos", "score"},
     fallback : BOOLEAN, since : SUBSET Facts, missed : BOOLEAN, shown : SUBSET Facts]

\* A hook shows some of its hits, whatever the thresholds.
LEMMA ShownAreHits ==
    ASSUME NEW kit, NEW hits, NEW key, NEW shown \in Shown(kit, hits, key)
    PROVE  \A f \in shown : \E h \in hits : f = h.fact
<1>1. ASSUME NEW e, NEW k, NEW most, NEW kept \in FirstOf(e, k, most)
      PROVE  kept \subseteq e
  BY DEF FirstOf
<1>3. \A k : Eligible(hits, k) \subseteq hits
  BY DEF Eligible
<1>4. Primed(hits) \subseteq hits /\ ClaudePrimed(hits) \subseteq hits
  BY DEF Primed, ClaudePrimed
<1>5. CASE hits = {}
  BY <1>5 DEF Shown
<1>6. CASE hits # {} /\ kit = "codex"
  <2>1. PICK kept \in FirstOf(Eligible(hits, key), key, MaxHits) :
            shown = {h.fact : h \in {k \in kept : k.fact.common}}
    BY <1>6 DEF Shown, Primers, CodexShown
  <2>2. kept \subseteq hits
    BY <1>1, <1>3
  <2>3. QED
    BY <2>1, <2>2
<1>7. CASE hits # {} /\ kit = "claude"
  <2>1. PICK kept \in FirstOf(Eligible(hits, key), key, MaxHits) :
            shown = IF \E k \in kept : k.fact.common THEN {k.fact : k \in kept} ELSE {}
    BY <1>7 DEF Shown, Primers, ClaudeShown
  <2>2. kept \subseteq hits
    BY <1>1, <1>3
  <2>3. QED
    BY <2>1, <2>2
<1>8. CASE hits # {} /\ kit \in Primers
  <2>1. PICK kept \in FirstOf(IF kit = "codexPrimer" THEN Primed(hits) ELSE ClaudePrimed(hits),
                              "cos", PrimerHits) : shown = {k.fact : k \in kept}
    BY <1>8 DEF Shown, Primers, PrimerShown
  <2>2. kept \subseteq hits
    BY <1>1, <1>4
  <2>3. QED
    BY <2>1, <2>2
<1>9. CASE hits # {} /\ kit \notin {"codex", "claude"} \union Primers
  <2>1. PICK kept \in FirstOf(Eligible(hits, key), key, MaxHits) : shown = {k.fact : k \in kept}
    BY <1>9 DEF Shown, Primers, NeutralShown
  <2>2. kept \subseteq hits
    BY <1>1, <1>3
  <2>3. QED
    BY <2>1, <2>2
<1>10. QED
  BY <1>5, <1>6, <1>7, <1>8, <1>9

\* What is left of an answer was in it.
LEMMA AdmissibleIn ==
    ASSUME NEW kit, NEW given, NEW witnessed
    PROVE  Admissible(kit, given, witnessed) \subseteq given
<1>1. NeutralFilter(given) \subseteq given
  BY DEF NeutralFilter, Quiet
<1>2. Proven(given, witnessed) \subseteq given /\ Quiet(Proven(given, witnessed)) \subseteq given
  BY DEF Proven, Quiet
<1>3. QED
  BY <1>1, <1>2 DEF Admissible

LEMMA MergeHits ==
    ASSUME NEW hits, NEW given, NEW prio
    PROVE  /\ \A h \in Merge(hits, given, prio) : h \in hits \/ h.fact \in given
           /\ hits \in SUBSET Hit /\ given \subseteq Facts /\ prio \in Nat
                => Merge(hits, given, prio) \in SUBSET Hit
           /\ given = {} => Merge(hits, given, prio) = hits
BY DEF Merge, Hit

LEMMA PassesTyped ==
    ASSUME NEW kit, NEW root, NEW late, NEW about
    PROVE  PassesOf(kit, root, late, about) \in Seq(PassRecord)
<1>1. /\ BroadPass \in PassRecord
      /\ Pass({"codex"}, 0) \in PassRecord
      /\ Pass({"projects", "codex"}, 0) \in PassRecord
      /\ Pass({"projects", "codex"}, 1) \in PassRecord
      /\ Pass({"hashed"}, 0) \in PassRecord
      /\ Pass({"legacy"}, 1) \in PassRecord
  <2>1. /\ {"codex"} \in SUBSET Namespaces
        /\ {"projects", "codex"} \in SUBSET Namespaces
        /\ {"hashed"} \in SUBSET Namespaces
        /\ {"legacy"} \in SUBSET Namespaces
        /\ Anywhere \in SUBSET Namespaces
    BY DEF Namespaces
  <2>2. ASSUME NEW ns \in SUBSET Namespaces, NEW prio \in Nat
        PROVE  Pass(ns, prio) \in PassRecord
    BY DEF Pass, PassRecord
  <2>3. QED
    BY <2>1, <2>2 DEF BroadPass
<1>2. TopicPasses(about) \in Seq(PassRecord)
  BY <1>1 DEF TopicPasses
<1>3. RepositoryPasses \in Seq(PassRecord) /\ <<BroadPass>> \in Seq(PassRecord)
  BY <1>1 DEF RepositoryPasses
<1>4. /\ Append(TopicPasses(about), BroadPass) \in Seq(PassRecord)
      /\ Append(RepositoryPasses, BroadPass) \in Seq(PassRecord)
  BY <1>1, <1>2, <1>3
<1>5. QED
  BY <1>3, <1>4 DEF PassesOf

-----------------------------------------------------------------------------
(* The inductive invariant of the hooks.                                    *)

RecallTyped ==
    /\ memory \in [stored : SUBSET Facts, superseded : SUBSET Facts]
    /\ memory.superseded \subseteq memory.stored
    /\ hook \in HookRecord

\* Only Codex looks up what is superseded, for the search it has just made.
PhasesFit ==
    /\ hook.pc \in {"lookup", "render"} => hook.passes # <<>>
    /\ hook.pc = "lookup" => hook.kit \in CodexKits
    /\ hook.pc = "render" => hook.kit \notin CodexKits

\* In a repository a hook goes from the one namespace to the other, and only as
\* long as it has nothing.
LegacyPasses == <<Pass({"legacy"}, 1)>>

InRepository ==
    hook.root /\ hook.kit # "neutral" =>
        /\ hook.passes \in {RepositoryPasses, LegacyPasses, <<>>}
        /\ hook.pc \in {"lookup", "render"} => \A f \in hook.answer : f.ns \in Head(hook.passes).ns
        /\ hook.hits # {} => hook.passes = <<>>
        /\ \E ns \in {"hashed", "legacy"} : \A h \in hook.hits : h.fact.ns = ns
        /\ RepositoryIsolation

\* The hits of a Codex hook whose lookups were all answered.
HitsAreCurrent ==
    /\ hook.since \subseteq memory.superseded
    /\ hook.kit \in CodexKits /\ ~hook.missed => \A h \in hook.hits : h.fact \notin hook.since
    /\ SupersededStaysOut

RecallInv == RecallTyped /\ PhasesFit /\ InRepository /\ HitsAreCurrent

LEMMA HookFields ==
    ASSUME RecallTyped
    PROVE  /\ hook \in HookRecord
           /\ hook.passes \in Seq(PassRecord)
           /\ hook.answer \in SUBSET Facts
           /\ hook.found \in {"cos", "score"}
           /\ hook.hits \in SUBSET Hit
           /\ hook.kit \in Kits
           /\ hook.root \in BOOLEAN
           /\ hook.since \in SUBSET Facts
           /\ hook.missed \in BOOLEAN
           /\ memory.stored \in SUBSET Facts
           /\ memory.superseded \in SUBSET Facts
BY DEF RecallTyped, HookRecord

LEMMA IdleTyped == Idle \in HookRecord
BY DEF Idle, HookRecord, Kits

\* A hook that has ended.
LEMMA EndedHook ==
    ASSUME RecallTyped, NEW shown \in SUBSET Facts
    PROVE  /\ Ended(shown) \in HookRecord
           /\ Ended(shown).pc = "idle" /\ Ended(shown).passes = <<>>
           /\ Ended(shown).hits = {} /\ Ended(shown).shown = shown
           /\ Ended(shown).kit = hook.kit /\ Ended(shown).root = hook.root
           /\ Ended(shown).since = hook.since /\ Ended(shown).missed = hook.missed
<1>1. Idle \in HookRecord
  BY IdleTyped
<1>2. QED
  BY <1>1, HookFields DEF Ended, Idle, HookRecord

\* The facts a hook shows are stored ones.
LEMMA ShownTyped ==
    ASSUME NEW kit, NEW hits \in SUBSET Hit, NEW key, NEW shown \in Shown(kit, hits, key)
    PROVE  shown \in SUBSET Facts
BY ShownAreHits DEF Hit

LEMMA InitRecallInv == RecallInit => RecallInv
<1>. SUFFICES ASSUME RecallInit PROVE RecallInv
  OBVIOUS
<1>1. RecallTyped
  BY IdleTyped DEF RecallInit, RecallTyped
<1>2. /\ hook.pc = "idle" /\ hook.kit = "codex" /\ hook.root = FALSE
      /\ hook.hits = {} /\ hook.since = {} /\ hook.shown = {}
  BY DEF RecallInit, Idle
<1>3. PhasesFit /\ InRepository /\ HitsAreCurrent
  BY <1>2 DEF PhasesFit, InRepository, HitsAreCurrent, SupersededStaysOut
<1>4. QED
  BY <1>1, <1>3 DEF RecallInv

\* Other sessions.
LEMMA MemoryRecallInv ==
    ASSUME RecallInv, StoreFact \/ SupersedeFact
    PROVE  RecallInv'
<1>1. /\ hook' = hook
      /\ memory.superseded \subseteq memory'.superseded
      /\ memory' \in [stored : SUBSET Facts, superseded : SUBSET Facts]
      /\ memory'.superseded \subseteq memory'.stored
  BY DEF RecallInv, RecallTyped, StoreFact, SupersedeFact
<1>2. QED
  BY <1>1 DEF RecallInv, RecallTyped, PhasesFit, InRepository, RepositoryIsolation,
              HitsAreCurrent, SupersededStaysOut

LEMMA StartRecallInv ==
    ASSUME RecallInv, StartHook
    PROVE  RecallInv'
<1>1. RecallTyped /\ memory' = memory
  BY DEF RecallInv, StartHook
<1>2. PICK kit \in Kits, root \in BOOLEAN, late \in BOOLEAN, about \in SUBSET {"memory", "project"} :
          hook' = [Idle EXCEPT !.pc = IF kit \in Primers THEN "stats" ELSE "search",
                               !.kit = kit, !.root = root,
                               !.passes = PassesOf(kit, root, late, about),
                               !.since = IF kit \in CodexKits THEN memory.superseded ELSE {}]
  BY DEF StartHook
<1>3. /\ hook'.pc \in {"stats", "search"} /\ hook'.kit = kit /\ hook'.root = root
      /\ hook'.passes = PassesOf(kit, root, late, about) /\ hook'.hits = {} /\ hook'.shown = {}
      /\ hook'.since \subseteq memory.superseded
  BY <1>2 DEF Idle
<1>4. RecallTyped'
  <2>1. /\ PassesOf(kit, root, late, about) \in Seq(PassRecord)
        /\ memory.superseded \in SUBSET Facts
    BY <1>1, PassesTyped, HookFields
  <2>2. hook' \in HookRecord
    BY <1>2, <2>1, IdleTyped DEF HookRecord
  <2>3. QED
    BY <1>1, <2>2 DEF RecallTyped
<1>5. root /\ kit # "neutral" => PassesOf(kit, root, late, about) = RepositoryPasses
  BY DEF PassesOf
<1>6. PhasesFit' /\ InRepository' /\ HitsAreCurrent'
  BY <1>1, <1>3, <1>5 DEF PhasesFit, InRepository, RepositoryIsolation, HitsAreCurrent,
                          SupersededStaysOut
<1>7. QED
  BY <1>4, <1>6 DEF RecallInv

\* The statistics of a primer, the end of the passes and the second search.
LEMMA QuietRecallInv ==
    ASSUME RecallInv, AskStats \/ PassesDone \/ SearchAgain \/ GiveUp
    PROVE  RecallInv'
<1>1. RecallTyped /\ memory' = memory
  BY DEF RecallInv, AskStats, PassesDone, SearchAgain, GiveUp
<1>. USE HookFields
<1>2. CASE hook' = Ended({})
  <2>1. /\ hook' \in HookRecord
        /\ hook'.pc = "idle" /\ hook'.passes = <<>> /\ hook'.hits = {} /\ hook'.shown = {}
        /\ hook'.kit = hook.kit /\ hook'.root = hook.root
        /\ hook'.since = hook.since /\ hook'.missed = hook.missed
    BY <1>1, <1>2, EndedHook
  <2>2. QED
    BY <1>1, <2>1 DEF RecallInv, RecallTyped, PhasesFit, InRepository, RepositoryIsolation,
                      HitsAreCurrent, SupersededStaysOut
<1>3. CASE hook' # Ended({}) /\ (AskStats \/ PassesDone)
  <2>1. \E pc \in {"search", "decide"} : hook' = [hook EXCEPT !.pc = pc]
    BY <1>3 DEF AskStats, PassesDone
  <2>2. /\ hook' \in HookRecord
        /\ hook'.pc \in {"search", "decide"} /\ hook'.passes = hook.passes
        /\ hook'.hits = hook.hits /\ hook'.shown = hook.shown
        /\ hook'.kit = hook.kit /\ hook'.root = hook.root
        /\ hook'.since = hook.since /\ hook'.missed = hook.missed
    BY <1>1, <2>1 DEF HookRecord
  <2>3. QED
    BY <1>1, <2>2 DEF RecallInv, RecallTyped, PhasesFit, InRepository, RepositoryIsolation,
                      HitsAreCurrent, SupersededStaysOut
<1>4. CASE SearchAgain
  <2>1. hook' = [hook EXCEPT !.pc = "search", !.hits = {}, !.fallback = TRUE,
                             !.passes = <<FallbackPass>>]
    BY <1>4 DEF SearchAgain
  <2>2. <<FallbackPass>> \in Seq(PassRecord)
    BY DEF FallbackPass, Pass, PassRecord, Namespaces
  <2>3. hook' \in HookRecord
    BY <1>1, <2>1, <2>2 DEF HookRecord
  <2>4. /\ hook'.pc = "search" /\ hook'.hits = {} /\ hook'.shown = hook.shown
        /\ hook'.kit = hook.kit /\ hook'.root = hook.root /\ ~hook.root
        /\ hook'.since = hook.since /\ hook'.missed = hook.missed
    BY <1>1, <1>4, <2>1 DEF HookRecord, SearchAgain, MayFallBack
  <2>5. QED
    BY <1>1, <2>3, <2>4 DEF RecallInv, RecallTyped, PhasesFit, InRepository,
                            RepositoryIsolation, HitsAreCurrent, SupersededStaysOut
<1>5. QED
  BY <1>2, <1>3, <1>4 DEF GiveUp

LEMMA TailOfPasses ==
    ASSUME RecallTyped, hook.passes # <<>>
    PROVE  /\ Tail(hook.passes) \in Seq(PassRecord)
           /\ Head(hook.passes) \in PassRecord
           /\ Head(hook.passes).prio \in Nat
<1>1. hook.passes \in Seq(PassRecord)
  BY HookFields
<1>2. Tail(hook.passes) \in Seq(PassRecord) /\ Head(hook.passes) \in PassRecord
  BY <1>1
<1>3. QED
  BY <1>2 DEF PassRecord

\* The one namespace is left after the other.
LEMMA TailInRepository ==
    ASSUME NEW passes \in {RepositoryPasses, LegacyPasses}
    PROVE  /\ Tail(passes) \in {RepositoryPasses, LegacyPasses, <<>>}
           /\ \E ns \in {"hashed", "legacy"} : Head(passes).ns = {ns}
           /\ passes # <<>>
<1>1. CASE passes = RepositoryPasses
  BY <1>1 DEF RepositoryPasses, LegacyPasses, Pass
<1>2. CASE passes = LegacyPasses
  BY <1>2 DEF LegacyPasses, Pass
<1>3. QED
  BY <1>1, <1>2

LEMMA SearchRecallInv ==
    ASSUME RecallInv, SearchAnswered \/ SearchFailed
    PROVE  RecallInv'
<1>1. RecallTyped /\ memory' = memory
  BY DEF RecallInv, SearchAnswered, SearchFailed
<1>2. /\ hook.pc = "search" /\ hook.passes # <<>>
      /\ hook.hits = {} \/ ~(hook.root /\ hook.kit # "neutral")
  BY DEF SearchAnswered, SearchFailed, RecallInv, InRepository
<1>3. CASE SearchFailed
  <2>1. hook' = [hook EXCEPT !.passes = Tail(hook.passes)]
    BY <1>3 DEF SearchFailed
  <2>2. /\ hook' \in HookRecord
        /\ hook'.pc = "search" /\ hook'.passes = Tail(hook.passes)
        /\ hook'.hits = hook.hits /\ hook'.shown = hook.shown
        /\ hook'.kit = hook.kit /\ hook'.root = hook.root
        /\ hook'.since = hook.since /\ hook'.missed = hook.missed
    BY <1>1, <1>2, <2>1, TailOfPasses, HookFields DEF HookRecord
  <2>3. InRepository'
    BY <1>2, <2>2, TailInRepository DEF RecallInv, InRepository, RepositoryIsolation
  <2>4. QED
    BY <1>1, <2>2, <2>3 DEF RecallInv, RecallTyped, PhasesFit, HitsAreCurrent, SupersededStaysOut
<1>4. CASE SearchAnswered
  <2>1. PICK answer \in SUBSET memory.stored, witnessed \in BOOLEAN :
            LET matching == Matching(answer, Head(hook.passes))
                good == Admissible(hook.kit, matching, witnessed)
            IN hook' = [hook EXCEPT
                          !.answer = good,
                          !.found = ScoreKey(IF hook.kit = "claude" THEN good ELSE matching),
                          !.pc = IF hook.kit \in CodexKits THEN "lookup" ELSE "render"]
    BY <1>4 DEF SearchAnswered
  <2>. DEFINE matching == Matching(answer, Head(hook.passes))
              good == Admissible(hook.kit, matching, witnessed)
              key == ScoreKey(IF hook.kit = "claude" THEN good ELSE matching)
  <2>2. /\ good \subseteq matching
        /\ matching \subseteq Facts
        /\ \A f \in matching : f.ns \in Head(hook.passes).ns
    <3>1. matching \subseteq answer /\ \A f \in matching : f.ns \in Head(hook.passes).ns
      BY DEF Matching
    <3>2. answer \subseteq Facts
      BY <1>1, HookFields
    <3>3. QED
      BY <3>1, <3>2, AdmissibleIn
  <2>3. key \in {"cos", "score"}
    BY DEF ScoreKey
  <2>4. hook' = [hook EXCEPT !.answer = good, !.found = key,
                             !.pc = IF hook.kit \in CodexKits THEN "lookup" ELSE "render"]
    BY <2>1
  <2>. HIDE DEF matching, good, key
  <2>5. /\ hook' \in HookRecord
        /\ hook'.pc = (IF hook.kit \in CodexKits THEN "lookup" ELSE "render")
        /\ hook'.passes = hook.passes /\ hook'.answer = good
        /\ hook'.hits = hook.hits /\ hook'.shown = hook.shown
        /\ hook'.kit = hook.kit /\ hook'.root = hook.root
        /\ hook'.since = hook.since /\ hook'.missed = hook.missed
    BY <1>1, <2>2, <2>3, <2>4, HookFields DEF HookRecord
  <2>6. InRepository'
    BY <1>2, <2>2, <2>5 DEF RecallInv, InRepository, RepositoryIsolation
  <2>7. QED
    BY <1>1, <1>2, <2>5, <2>6 DEF RecallInv, RecallTyped, PhasesFit, HitsAreCurrent,
                                  SupersededStaysOut
<1>5. QED
  BY <1>3, <1>4

LEMMA LookupRecallInv ==
    ASSUME RecallInv, LookupSuperseded
    PROVE  RecallInv'
<1>1. RecallTyped /\ memory' = memory
  BY DEF RecallInv, LookupSuperseded
<1>2. hook.pc = "lookup" /\ hook.passes # <<>> /\ hook.kit \in CodexKits
  BY DEF LookupSuperseded, RecallInv, PhasesFit
<1>3. PICK answered \in BOOLEAN :
          LET good == Current(hook.answer, answered)
              pass == Head(hook.passes)
              done == good /= {} /\ hook.root
          IN hook' = [hook EXCEPT
                        !.pc = IF done THEN "decide" ELSE "search",
                        !.hits = Merge(@, good, pass.prio),
                        !.key = IF good /= {} \/ pass.prio >= BroadPass.prio
                                THEN hook.found ELSE @,
                        !.passes = IF done THEN <<>> ELSE Tail(@),
                        !.missed = @ \/ ~answered,
                        !.answer = {}]
  BY DEF LookupSuperseded
<1>. DEFINE good == Current(hook.answer, answered)
            prio == Head(hook.passes).prio
            done == good /= {} /\ hook.root
            merged == Merge(hook.hits, good, prio)
            left == IF done THEN <<>> ELSE Tail(hook.passes)
            key == IF good /= {} \/ prio >= BroadPass.prio THEN hook.found ELSE hook.key
<1>4. /\ good \subseteq hook.answer
      /\ answered => good \cap memory.superseded = {}
  BY DEF Current
<1>5. prio \in Nat /\ left \in Seq(PassRecord)
  BY <1>1, <1>2, TailOfPasses
<1>6. key \in {"cos", "score"}
  BY <1>1, HookFields DEF RecallTyped, HookRecord
<1>7. /\ merged \in SUBSET Hit
      /\ \A h \in merged : h \in hook.hits \/ h.fact \in good
      /\ good = {} => merged = hook.hits
  BY <1>1, <1>4, <1>5, MergeHits, HookFields
<1>8. hook' = [hook EXCEPT !.pc = IF done THEN "decide" ELSE "search", !.hits = merged,
                           !.key = key, !.passes = left, !.missed = hook.missed \/ ~answered,
                           !.answer = {}]
  BY <1>3
<1>9. done => good # {} /\ hook.root
  OBVIOUS
<1>10. hook.root /\ ~done => good = {} /\ left = Tail(hook.passes)
  OBVIOUS
<1>11. done => left = <<>>
  OBVIOUS
<1>12. done \in BOOLEAN /\ answered \in BOOLEAN
  OBVIOUS
<1>. HIDE DEF good, prio, done, merged, left, key
<1>13. (hook.missed \/ ~answered) \in BOOLEAN
  OBVIOUS
<1>14. /\ hook' \in HookRecord
       /\ hook'.pc = (IF done THEN "decide" ELSE "search")
       /\ hook'.passes = left
       /\ hook'.hits = merged /\ hook'.shown = hook.shown
       /\ hook'.kit = hook.kit /\ hook'.root = hook.root
       /\ hook'.since = hook.since
       /\ hook'.missed = (hook.missed \/ ~answered)
  <2>1. (IF done THEN "decide" ELSE "search") \in {"search", "decide"}
    OBVIOUS
  <2>2. QED
    BY <1>1, <1>5, <1>6, <1>7, <1>8, <1>13, <2>1 DEF RecallTyped, HookRecord
<1>15. InRepository'
  <2>. SUFFICES ASSUME hook.root, hook.kit # "neutral"
                PROVE  /\ left \in {RepositoryPasses, LegacyPasses, <<>>}
                       /\ merged # {} => left = <<>>
                       /\ \E ns \in {"hashed", "legacy"} : \A h \in merged : h.fact.ns = ns
                       /\ \E ns \in {"hashed", "legacy"} : \A f \in hook.shown : f.ns = ns
    BY <1>14 DEF InRepository, RepositoryIsolation
  <2>1. /\ hook.hits = {}
        /\ hook.passes \in {RepositoryPasses, LegacyPasses}
        /\ \A f \in hook.answer : f.ns \in Head(hook.passes).ns
        /\ \E ns \in {"hashed", "legacy"} : \A f \in hook.shown : f.ns = ns
    BY <1>2 DEF RecallInv, InRepository, RepositoryIsolation
  <2>2. PICK ns \in {"hashed", "legacy"} : Head(hook.passes).ns = {ns}
    BY <2>1, TailInRepository
  <2>3. \A h \in merged : h.fact.ns = ns
    BY <1>4, <1>7, <2>1, <2>2
  <2>4. CASE done
    BY <1>11, <2>1, <2>3, <2>4
  <2>5. CASE ~done
    BY <1>7, <1>10, <2>1, <2>3, <2>5, TailInRepository
  <2>6. QED
    BY <2>4, <2>5
<1>16. HitsAreCurrent'
  <2>1. ASSUME ~hook'.missed, NEW h \in merged
        PROVE  h.fact \notin hook.since
    <3>1. ~hook.missed /\ answered
      BY <1>14, <2>1
    <3>2. CASE h \in hook.hits
      BY <1>2, <3>1, <3>2 DEF RecallInv, HitsAreCurrent
    <3>3. CASE h.fact \in good
      BY <1>4, <3>1, <3>3 DEF RecallInv, HitsAreCurrent
    <3>4. QED
      BY <1>7, <3>2, <3>3
  <2>2. hook'.missed \/ hook.shown \cap hook.since = {}
    BY <1>2, <1>14 DEF RecallInv, HitsAreCurrent, SupersededStaysOut
  <2>3. QED
    BY <1>1, <1>14, <2>1, <2>2 DEF RecallInv, HitsAreCurrent, SupersededStaysOut
<1>17. QED
  BY <1>1, <1>14, <1>15, <1>16 DEF RecallInv, RecallTyped, PhasesFit

\* A hook shows something, or goes on after an answer that shows nothing.
LEMMA ShowRecallInv ==
    ASSUME RecallInv, Emit \/ Render
    PROVE  RecallInv'
<1>1. RecallTyped /\ memory' = memory
  BY DEF RecallInv, Emit, Render
<1>2. ASSUME NEW shown \in SUBSET Facts, hook' = Ended(shown),
             hook.root /\ hook.kit # "neutral" =>
                 \E ns \in {"hashed", "legacy"} : \A f \in shown : f.ns = ns,
             hook.kit \in CodexKits /\ ~hook.missed => shown \cap hook.since = {}
      PROVE  RecallInv'
  <2>1. /\ hook' \in HookRecord
        /\ hook'.pc = "idle" /\ hook'.passes = <<>> /\ hook'.hits = {} /\ hook'.shown = shown
        /\ hook'.kit = hook.kit /\ hook'.root = hook.root
        /\ hook'.since = hook.since /\ hook'.missed = hook.missed
    BY <1>1, <1>2, EndedHook
  <2>2. InRepository'
    BY <1>2, <2>1 DEF InRepository, RepositoryIsolation
  <2>3. HitsAreCurrent'
    BY <1>1, <1>2, <2>1 DEF RecallInv, HitsAreCurrent, SupersededStaysOut
  <2>4. QED
    BY <1>1, <2>1, <2>2, <2>3 DEF RecallInv, RecallTyped, PhasesFit
<1>3. CASE Emit
  <2>1. PICK shown \in Shown(hook.kit, hook.hits, hook.key) : hook' = Ended(shown)
    BY <1>3 DEF Emit
  <2>2. \A f \in shown : \E h \in hook.hits : f = h.fact
    BY ShownAreHits
  <2>3. shown \in SUBSET Facts
    BY <1>1, ShownTyped, HookFields
  <2>4. hook.root /\ hook.kit # "neutral" =>
            \E ns \in {"hashed", "legacy"} : \A f \in shown : f.ns = ns
    BY <2>2 DEF RecallInv, InRepository
  <2>5. hook.kit \in CodexKits /\ ~hook.missed => shown \cap hook.since = {}
    BY <2>2 DEF RecallInv, HitsAreCurrent
  <2>6. QED
    BY <1>2, <2>1, <2>3, <2>4, <2>5
<1>4. CASE Render
  <2>. DEFINE hits == Merge({}, hook.answer, 0)
  <2>1. PICK shown \in Shown(hook.kit, hits, hook.found) :
            hook' = IF shown /= {} THEN Ended(shown)
                    ELSE [hook EXCEPT !.pc = "search", !.passes = Tail(hook.passes), !.answer = {}]
    BY <1>4 DEF Render
  <2>2. /\ hits \in SUBSET Hit
        /\ \A h \in hits : h.fact \in hook.answer
    BY <1>1, MergeHits, HookFields
  <2>3. \A f \in shown : f \in hook.answer
    BY <2>2, ShownAreHits
  <2>4. shown \in SUBSET Facts
    BY <1>1, <2>3, HookFields
  <2>5. hook.passes # <<>> /\ hook.kit \notin CodexKits
    BY <1>4 DEF Render, RecallInv, PhasesFit
  <2>6. CASE shown # {}
    <3>1. ASSUME hook.root, hook.kit # "neutral"
          PROVE  \E ns \in {"hashed", "legacy"} : \A f \in shown : f.ns = ns
      <4>1. /\ hook.passes \in {RepositoryPasses, LegacyPasses}
            /\ \A f \in hook.answer : f.ns \in Head(hook.passes).ns
        BY <1>4, <2>5, <3>1 DEF Render, RecallInv, InRepository
      <4>2. PICK ns \in {"hashed", "legacy"} : Head(hook.passes).ns = {ns}
        BY <4>1, TailInRepository
      <4>3. QED
        BY <2>3, <4>1, <4>2
    <3>2. QED
      BY <1>2, <2>1, <2>4, <2>5, <2>6, <3>1
  <2>7. CASE shown = {}
    <3>1. hook' = [hook EXCEPT !.pc = "search", !.passes = Tail(hook.passes), !.answer = {}]
      BY <2>1, <2>7
    <3>2. /\ hook' \in HookRecord
          /\ hook'.pc = "search" /\ hook'.passes = Tail(hook.passes)
          /\ hook'.hits = hook.hits /\ hook'.shown = hook.shown
          /\ hook'.kit = hook.kit /\ hook'.root = hook.root
          /\ hook'.since = hook.since /\ hook'.missed = hook.missed
      BY <1>1, <2>5, <3>1, TailOfPasses, HookFields DEF HookRecord
    <3>3. InRepository'
      BY <2>5, <3>2, TailInRepository DEF RecallInv, InRepository, RepositoryIsolation
    <3>4. QED
      BY <1>1, <2>5, <3>2, <3>3 DEF RecallInv, RecallTyped, PhasesFit, HitsAreCurrent,
                                    SupersededStaysOut
  <2>8. QED
    BY <2>6, <2>7
<1>5. QED
  BY <1>3, <1>4

LEMMA NextRecallInv == RecallInv /\ [RecallNext]_recallVars => RecallInv'
<1>. SUFFICES ASSUME RecallInv, [RecallNext]_recallVars PROVE RecallInv'
  OBVIOUS
<1>1. CASE UNCHANGED recallVars
  BY <1>1 DEF recallVars, RecallInv, RecallTyped, PhasesFit, InRepository, RepositoryIsolation,
              HitsAreCurrent, SupersededStaysOut
<1>2. QED
  BY <1>1, MemoryRecallInv, StartRecallInv, QuietRecallInv, SearchRecallInv, LookupRecallInv,
     ShowRecallInv DEF RecallNext, HookStep

THEOREM RecallInvariant == RecallSpec => []RecallInv
BY InitRecallInv, NextRecallInv, PTL DEF RecallSpec

\* Every variable of the hooks and of the memory they read keeps its type.
THEOREM RecallTypeCorrect == RecallSpec => []RecallTypeOK
<1>1. RecallInv => RecallTypeOK
  BY DEF RecallInv, RecallTyped, RecallTypeOK, HookRecord, Hit
<1>2. QED
  BY <1>1, RecallInvariant, PTL

\* Whatever the server answers, whichever call fails and whoever writes to the
\* memory meanwhile, a prompt in a repository is shown facts of one of its two
\* namespaces only.
THEOREM RepositoriesAreIsolated == RecallSpec => []RepositoryIsolation
<1>1. RecallInv => RepositoryIsolation
  BY DEF RecallInv, InRepository, RepositoryIsolation
<1>2. QED
  BY <1>1, RecallInvariant, PTL

\* A Codex hook none of whose lookups failed shows nothing that was superseded
\* when it started, however many searches it made and merged.
THEOREM SupersededIsNotShown == RecallSpec => []SupersededStaysOut
<1>1. RecallInv => SupersededStaysOut
  BY DEF RecallInv, HitsAreCurrent
<1>2. QED
  BY <1>1, RecallInvariant, PTL

-----------------------------------------------------------------------------
(* The admission ledger.                                                    *)

Line ==
    [result : Results, fits : BOOLEAN, admitted : BOOLEAN, before : Nat] \union {Torn, Garbled}

AdmissionTyped ==
    /\ admissions \in Seq(Line)
    /\ Len(admissions) <= MaxLines
    /\ tornLines \in 0 .. MaxTornLines
    /\ DOMAIN counters = Holders
    /\ \A p \in Holders : counters[p] # NotLoaded => counters[p] \in [Results -> Nat]
    /\ linesBefore \in [Holders -> [Results -> Nat]]

\* A process has counted at least the lines that were there when it loaded.
CountersCover ==
    \A p \in Holders : counters[p] # NotLoaded =>
        \A r \in Results : linesBefore[p][r] <= counters[p][r]

AdmissionInv == AdmissionTyped /\ CountersCover /\ HubsStayOut

LEMMA AppendedLines ==
    ASSUME admissions \in Seq(Line), NEW line \in Line
    PROVE  /\ AppendedLine(line) \in Seq(Line)
           /\ Len(AppendedLine(line)) <= Len(admissions) + 1
           /\ \A i \in DOMAIN AppendedLine(line) :
                 \/ AppendedLine(line)[i] \in {line, Garbled}
                 \/ i \in DOMAIN admissions /\ AppendedLine(line)[i] = admissions[i]
<1>1. CASE admissions # << >> /\ Last(admissions) = Torn
  <2>1. /\ Front(admissions) \in Seq(Line)
        /\ Len(Front(admissions)) = Len(admissions) - 1
        /\ \A i \in DOMAIN Front(admissions) :
              i \in DOMAIN admissions /\ Front(admissions)[i] = admissions[i]
    <3>1. Len(admissions) \in Nat /\ Len(admissions) > 0
      BY <1>1
    <3>2. QED
      BY <3>1 DEF Front
  <2>2. AppendedLine(line) = Append(Front(admissions), Garbled) /\ Garbled \in Line
    BY <1>1 DEF AppendedLine, Line
  <2>. HIDE DEF Line
  <2>3. QED
    BY <2>1, <2>2
<1>2. CASE ~(admissions # << >> /\ Last(admissions) = Torn)
  <2>1. AppendedLine(line) = Append(admissions, line)
    BY <1>2 DEF AppendedLine
  <2>2. QED
    BY <2>1
<1>3. QED
  BY <1>1, <1>2

LEMMA FrequenciesTyped ==
    ASSUME admissions \in Seq(Line)
    PROVE  Frequencies \in [Results -> Nat]
<1>1. IsFiniteSet(1 .. Len(admissions))
  BY FS_Interval
<1>2. Written \subseteq 1 .. Len(admissions)
  BY DEF Written
<1>3. ASSUME NEW r \in Results
      PROVE  Cardinality({i \in Written : admissions[i].result = r}) \in Nat
  <2>1. {i \in Written : admissions[i].result = r} \subseteq 1 .. Len(admissions)
    BY <1>2
  <2>2. QED
    BY <1>1, <2>1, FS_Subset, FS_CardinalityType
<1>4. QED
  BY <1>3 DEF Frequencies

LEMMA InitAdmissionInv == AdmissionInit => AdmissionInv
BY AdmissionAssumption DEF AdmissionInit, AdmissionInv, AdmissionTyped, CountersCover, HubsStayOut,
   Written

\* A line that is written keeps a hub of old out.
LEMMA EvaluateAdmissionInv ==
    ASSUME AdmissionInv, NEW p \in Holders, NEW r \in Results, EvaluateAndWrite(p, r)
    PROVE  AdmissionInv'
<1>. USE AdmissionAssumption
<1>1. AdmissionTyped /\ CountersCover /\ HubsStayOut
  BY DEF AdmissionInv
<1>2. PICK overlaps \in BOOLEAN, namespaceMatch \in BOOLEAN, score \in Scores :
          admissions' = AppendedLine(
             [result |-> r, fits |-> overlaps \/ namespaceMatch,
              admitted |-> Admitted(counters[p][r], overlaps, score, namespaceMatch),
              before |-> linesBefore[p][r]])
  BY DEF EvaluateAndWrite
<1>. DEFINE admitted == Admitted(counters[p][r], overlaps, score, namespaceMatch)
            line == [result |-> r, fits |-> overlaps \/ namespaceMatch, admitted |-> admitted,
                     before |-> linesBefore[p][r]]
<1>3. /\ counters[p] # NotLoaded /\ counters[p] \in [Results -> Nat]
      /\ counters[p][r] \in Nat /\ linesBefore[p][r] \in Nat
      /\ linesBefore[p][r] <= counters[p][r]
      /\ Len(admissions) < MaxLines
      /\ linesBefore' = linesBefore /\ tornLines' = tornLines
  BY <1>1 DEF EvaluateAndWrite, AdmissionTyped, CountersCover
<1>4. admitted \in BOOLEAN
  BY DEF Admitted
<1>5. linesBefore[p][r] > HubThreshold /\ ~(overlaps \/ namespaceMatch) => ~admitted
  BY <1>3 DEF Admitted
<1>. HIDE DEF admitted
<1>6. line \in Line
  BY <1>3, <1>4 DEF Line
<1>7. /\ line.before = linesBefore[p][r] /\ line.fits = (overlaps \/ namespaceMatch)
      /\ line.admitted = admitted
  OBVIOUS
<1>8. admissions' = AppendedLine(line)
  BY <1>2 DEF admitted
<1>. HIDE DEF line
<1>9. /\ admissions' \in Seq(Line)
      /\ Len(admissions') <= Len(admissions) + 1
      /\ \A i \in DOMAIN admissions' :
            \/ admissions'[i] \in {line, Garbled}
            \/ i \in DOMAIN admissions /\ admissions'[i] = admissions[i]
  BY <1>1, <1>6, <1>8, AppendedLines DEF AdmissionTyped
<1>10. HubsStayOut'
  <2>1. ASSUME NEW i \in Written', admissions'[i].before > HubThreshold, ~admissions'[i].fits
        PROVE  ~admissions'[i].admitted
    <3>1. i \in DOMAIN admissions' /\ admissions'[i] \notin {Torn, Garbled}
      BY DEF Written
    <3>2. CASE admissions'[i] = line
      BY <1>5, <1>7, <2>1, <3>2
    <3>3. CASE i \in DOMAIN admissions /\ admissions'[i] = admissions[i]
      <4>1. i \in Written
        BY <3>1, <3>3 DEF Written
      <4>2. QED
        BY <1>1, <2>1, <3>3, <4>1 DEF HubsStayOut
    <3>4. QED
      BY <1>9, <3>1, <3>2, <3>3
  <2>2. QED
    BY <2>1 DEF HubsStayOut
<1>11. counters' = [counters EXCEPT ![p] = [counters[p] EXCEPT ![r] = counters[p][r] + 1]]
  BY DEF EvaluateAndWrite
<1>12. /\ DOMAIN counters' = Holders
       /\ \A q \in Holders : q # p => counters'[q] = counters[q]
       /\ counters'[p] = [counters[p] EXCEPT ![r] = counters[p][r] + 1]
  BY <1>1, <1>11 DEF AdmissionTyped
<1>13. /\ counters'[p] \in [Results -> Nat]
       /\ \A s \in Results : linesBefore[p][s] <= counters'[p][s]
  <2>1. linesBefore[p] \in [Results -> Nat]
    BY <1>1 DEF AdmissionTyped
  <2>2. \A s \in Results : linesBefore[p][s] <= counters[p][s]
    BY <1>1, <1>3 DEF CountersCover
  <2>3. QED
    BY <1>3, <1>12, <2>1, <2>2
<1>14. AdmissionTyped'
  <2>1. Len(admissions') \in Nat /\ Len(admissions) \in Nat
    BY <1>1, <1>9 DEF AdmissionTyped
  <2>2. Len(admissions') <= MaxLines
    BY <1>3, <1>9, <2>1
  <2>3. QED
    BY <1>1, <1>3, <1>9, <1>12, <1>13, <2>2 DEF AdmissionTyped
<1>15. CountersCover'
  BY <1>1, <1>3, <1>12, <1>13 DEF CountersCover
<1>16. QED
  BY <1>10, <1>14, <1>15 DEF AdmissionInv

\* A torn line is no line, and may take the one before it along.
LEMMA TearAdmissionInv ==
    ASSUME AdmissionInv, NEW p \in Holders, TearLine(p)
    PROVE  AdmissionInv'
<1>. USE AdmissionAssumption
<1>1. AdmissionTyped /\ CountersCover /\ HubsStayOut
  BY DEF AdmissionInv
<1>2. /\ admissions' = AppendedLine(Torn) /\ Torn \in Line
      /\ counters' = [counters EXCEPT ![p] = NotLoaded]
      /\ linesBefore' = linesBefore
      /\ tornLines' \in 0 .. MaxTornLines /\ Len(admissions) < MaxLines
  BY <1>1 DEF TearLine, Line, AdmissionTyped
<1>3. /\ admissions' \in Seq(Line)
      /\ Len(admissions') <= Len(admissions) + 1
      /\ \A i \in DOMAIN admissions' :
            \/ admissions'[i] \in {Torn, Garbled}
            \/ i \in DOMAIN admissions /\ admissions'[i] = admissions[i]
  BY <1>1, <1>2, AppendedLines DEF AdmissionTyped
<1>4. /\ Written' \subseteq Written
      /\ \A i \in Written' : admissions'[i] = admissions[i]
  BY <1>3 DEF Written
<1>5. HubsStayOut'
  BY <1>1, <1>4 DEF HubsStayOut
<1>6. Len(admissions') <= MaxLines
  <2>1. Len(admissions') \in Nat /\ Len(admissions) \in Nat
    BY <1>1, <1>3 DEF AdmissionTyped
  <2>2. QED
    BY <1>2, <1>3, <2>1
<1>7. AdmissionTyped' /\ CountersCover'
  BY <1>1, <1>2, <1>3, <1>6 DEF AdmissionTyped, CountersCover
<1>8. QED
  BY <1>5, <1>7 DEF AdmissionInv

\* A process comes, goes or deletes the file.
LEMMA HolderAdmissionInv ==
    ASSUME AdmissionInv, NEW p \in Holders, LoadAdmissions(p) \/ ResetAdmissions(p) \/ HolderEnds(p)
    PROVE  AdmissionInv'
<1>. USE AdmissionAssumption
<1>1. AdmissionTyped /\ CountersCover /\ HubsStayOut
  BY DEF AdmissionInv
<1>2. CASE LoadAdmissions(p)
  <2>1. /\ counters' = [counters EXCEPT ![p] = Frequencies]
        /\ linesBefore' = [linesBefore EXCEPT ![p] = Frequencies]
        /\ admissions' = admissions /\ tornLines' = tornLines
    BY <1>2 DEF LoadAdmissions, Frequencies
  <2>2. Frequencies \in [Results -> Nat]
    BY <1>1, FrequenciesTyped DEF AdmissionTyped
  <2>3. \A r \in Results : Frequencies[r] <= Frequencies[r]
    BY <2>2
  <2>4. AdmissionTyped'
    BY <1>1, <2>1, <2>2 DEF AdmissionTyped
  <2>5. CountersCover'
    BY <1>1, <2>1, <2>3 DEF CountersCover, AdmissionTyped
  <2>6. HubsStayOut'
    BY <1>1, <2>1 DEF HubsStayOut, Written
  <2>7. QED
    BY <2>4, <2>5, <2>6 DEF AdmissionInv
<1>3. CASE ResetAdmissions(p)
  <2>1. /\ admissions' = << >> /\ tornLines' = tornLines
        /\ counters' = [counters EXCEPT ![p] = [r \in Results |-> 0]]
        /\ linesBefore' = [q \in Holders |-> [r \in Results |-> 0]]
    BY <1>3 DEF ResetAdmissions
  <2>2. AdmissionTyped'
    BY <1>1, <2>1 DEF AdmissionTyped
  <2>3. CountersCover'
    <3>1. ASSUME NEW q \in Holders, counters'[q] # NotLoaded, NEW r \in Results
          PROVE  linesBefore'[q][r] = 0 /\ counters'[q][r] \in Nat
      BY <2>1, <2>2, <3>1 DEF AdmissionTyped
    <3>2. QED
      BY <3>1 DEF CountersCover
  <2>4. HubsStayOut'
    BY <2>1 DEF HubsStayOut, Written
  <2>5. QED
    BY <2>2, <2>3, <2>4 DEF AdmissionInv
<1>4. CASE HolderEnds(p)
  BY <1>1, <1>4 DEF HolderEnds, AdmissionInv, AdmissionTyped, CountersCover, HubsStayOut, Written
<1>5. QED
  BY <1>2, <1>3, <1>4

LEMMA NextAdmissionInv == AdmissionInv /\ [AdmissionNext]_admissionVars => AdmissionInv'
<1>. SUFFICES ASSUME AdmissionInv, [AdmissionNext]_admissionVars PROVE AdmissionInv'
  OBVIOUS
<1>1. CASE UNCHANGED admissionVars
  BY <1>1 DEF admissionVars, AdmissionInv, AdmissionTyped, CountersCover, HubsStayOut, Written
<1>2. QED
  BY <1>1, EvaluateAdmissionInv, TearAdmissionInv, HolderAdmissionInv DEF AdmissionNext

\* A result that was a hub when a process loaded the ledger is not admitted by that
\* process for a query it has little to do with, whatever the other processes
\* append, tear or delete.
THEOREM HubsAreKeptOut == AdmissionSpec => []HubsStayOut
<1>1. AdmissionInv => HubsStayOut
  BY DEF AdmissionInv
<1>2. QED
  BY <1>1, InitAdmissionInv, NextAdmissionInv, PTL DEF AdmissionSpec

\* memory_admission.py: the ledger has lines of results and torn ones, no more than its
\* bounds, and each process that loaded it has a count for every result.
THEOREM AdmissionTypeCorrect == AdmissionSpec => []AdmissionTypeOK
<1>1. AdmissionInv => AdmissionTypeOK
  <2>. SUFFICES ASSUME AdmissionInv
                PROVE  AdmissionTypeOK
    OBVIOUS
  <2>1. AdmissionTyped
    BY DEF AdmissionInv
  <2>2. ASSUME NEW i \in Written
        PROVE  admissions[i].result \in Results /\ admissions[i].admitted \in BOOLEAN
    <3>1. /\ i \in DOMAIN admissions /\ admissions[i] \notin {Torn, Garbled}
          /\ admissions[i] \in Line
      BY <2>1 DEF Written, AdmissionTyped
    <3>. QED
      BY <3>1 DEF Line
  <2>. QED
    BY <2>1, <2>2 DEF AdmissionTyped, AdmissionTypeOK
<1>2. QED
  BY <1>1, InitAdmissionInv, NextAdmissionInv, PTL DEF AdmissionSpec

-----------------------------------------------------------------------------
(* Compactions.                                                             *)

CompactionRecord ==
    [at : {"compact", "store", "overlay", "print", "open", "ended", "done"},
     script : Scripts, refs : RefLists, long : BOOLEAN,
     stored : {"no", "yes", "failed"},
     overlay : {"not needed", "kept", "unstored", "refused", "unavailable"},
     found : RefLists, printed : BOOLEAN]

CompactionTyped ==
    /\ compaction \in [Compactions -> CompactionRecord \union {Waiting}]
    /\ receipts \subseteq Compactions
    /\ overlays \subseteq [of : Compactions, refs : RefLists]
    /\ storeUp \in BOOLEAN

\* The answer has a summary.
Summarised(c) == compaction[c].overlay \in {"kept", "unstored"}

\* The references of a compaction with a summary do not change any more.
OverlaysCome ==
    /\ \A o \in overlays : At(o.of, "print") \/ At(o.of, "done")
    /\ \A c \in Compactions : ~At(c, "waiting") /\ Summarised(c) => At(c, "print") \/ At(c, "done")

CompactionInv == CompactionTyped /\ OverlaysCome /\ RecoverySaysTheTruth

LEMMA InitCompactionInv == CompactionInit => CompactionInv
BY DEF CompactionInit, CompactionInv, CompactionTyped, OverlaysCome, RecoverySaysTheTruth,
   At, Waiting

LEMMA CompactionKinds ==
    ASSUME CompactionTyped, NEW c \in Compactions
    PROVE  /\ At(c, "waiting") \/ compaction[c] \in CompactionRecord
           /\ At(c, "waiting") => ~At(c, "print") /\ ~At(c, "done")
<1>1. compaction[c] \in CompactionRecord \union {Waiting}
  BY DEF CompactionTyped
<1>2. CASE compaction[c] \in CompactionRecord
  BY <1>2 DEF At, CompactionRecord
<1>3. CASE compaction[c] = Waiting
  BY <1>3 DEF At, Waiting
<1>4. QED
  BY <1>1, <1>2, <1>3

\* What a step of one compaction may do without making an earlier answer untrue.
LEMMA OneCompactionInv ==
    ASSUME CompactionInv, NEW c \in Compactions, NEW next \in CompactionRecord,
           compaction' = [compaction EXCEPT ![c] = next],
           receipts' \subseteq Compactions, receipts \subseteq receipts',
           overlays' = overlays, storeUp' = storeUp,
           \/ At(c, "waiting") \/ At(c, "compact")
           \/ next.refs = compaction[c].refs /\ next.at \in {"print", "done"}
           \/ next.refs = compaction[c].refs /\ ~At(c, "print"),
           ~At(c, "done"),
           next.stored = "yes" => c \in receipts',
           next.overlay = "kept" => \E o \in overlays : o.of = c,
           next.overlay \in {"kept", "unstored"} =>
               next.found = next.refs /\ next.at \in {"print", "done"}
    PROVE  CompactionInv'
<1>1. CompactionTyped /\ OverlaysCome /\ RecoverySaysTheTruth
  BY DEF CompactionInv
<1>2. /\ compaction'[c] = next
      /\ \A d \in Compactions : d # c => compaction'[d] = compaction[d]
  BY <1>1 DEF CompactionTyped
<1>3. CompactionTyped'
  BY <1>1 DEF CompactionTyped
<1>4. ASSUME NEW o \in overlays'
      PROVE  /\ At(o.of, "print")' \/ At(o.of, "done")'
             /\ o.refs = compaction'[o.of].refs
  <2>1. o \in overlays /\ o.of \in Compactions /\ o.refs = compaction[o.of].refs
    BY <1>1 DEF CompactionTyped, RecoverySaysTheTruth
  <2>2. At(o.of, "print") \/ At(o.of, "done")
    BY <1>1, <2>1 DEF OverlaysCome
  <2>3. CASE o.of = c
    BY <1>2, <2>1, <2>2, <2>3 DEF At
  <2>4. CASE o.of # c
    BY <1>2, <2>1, <2>2, <2>4 DEF At
  <2>5. QED
    BY <2>3, <2>4
<1>5. ASSUME NEW d \in Compactions, ~At(d, "waiting")'
      PROVE  /\ compaction'[d].stored = "yes" => d \in receipts'
             /\ compaction'[d].overlay = "kept" => \E o \in overlays' : o.of = d
             /\ Summarised(d)' => /\ compaction'[d].found = compaction'[d].refs
                                  /\ At(d, "print")' \/ At(d, "done")'
  <2>1. CASE d = c
    BY <1>2, <2>1 DEF Summarised, At
  <2>2. CASE d # c
    <3>1. /\ compaction'[d] = compaction[d] /\ ~At(d, "waiting")
          /\ At(d, "print")' = At(d, "print") /\ At(d, "done")' = At(d, "done")
          /\ Summarised(d)' = Summarised(d)
      BY <1>2, <1>5, <2>2 DEF At, Summarised
    <3>2. Summarised(d) => /\ compaction[d].found = compaction[d].refs
                           /\ At(d, "print") \/ At(d, "done")
      BY <1>1, <3>1 DEF RecoverySaysTheTruth, OverlaysCome, Summarised
    <3>3. /\ compaction[d].stored = "yes" => d \in receipts
          /\ compaction[d].overlay = "kept" => \E o \in overlays : o.of = d
      BY <1>1, <3>1 DEF RecoverySaysTheTruth
    <3>4. QED
      BY <3>1, <3>2, <3>3
  <2>3. QED
    BY <2>1, <2>2
<1>6. OverlaysCome' /\ RecoverySaysTheTruth'
  BY <1>4, <1>5 DEF OverlaysCome, RecoverySaysTheTruth, Summarised
<1>7. QED
  BY <1>3, <1>6 DEF CompactionInv

LEMMA StepCompactionInv ==
    ASSUME CompactionInv, NEW c \in Compactions,
           \/ \E script \in Scripts : BeginCompaction(c, script)
           \/ FailsOpen(c) \/ GovernorBreaks(c) \/ Compacted(c) \/ Stored(c)
           \/ StoreFails(c) \/ OverlayFails(c) \/ PrintCompaction(c)
    PROVE  CompactionInv'
<1>1. CompactionTyped /\ RecoverySaysTheTruth
  BY DEF CompactionInv
<1>2. compaction \in [Compactions -> CompactionRecord \union {Waiting}]
  BY <1>1 DEF CompactionTyped
<1>3. CASE \E script \in Scripts : BeginCompaction(c, script)
  <2>1. PICK script \in Scripts : BeginCompaction(c, script)
    BY <1>3
  <2>. DEFINE next == [at |-> "compact", script |-> script, refs |-> << >>, long |-> FALSE,
                       stored |-> "no", overlay |-> "not needed", found |-> << >>,
                       printed |-> FALSE]
  <2>2. next \in CompactionRecord /\ next.stored = "no" /\ next.overlay = "not needed"
    BY DEF CompactionRecord, RefLists
  <2>3. /\ At(c, "waiting") /\ compaction' = [compaction EXCEPT ![c] = next]
        /\ UNCHANGED <<receipts, overlays, storeUp>>
    BY <2>1 DEF BeginCompaction
  <2>. HIDE DEF next
  <2>4. ~At(c, "done") /\ receipts \subseteq Compactions
    BY <1>1, <2>3, CompactionKinds DEF CompactionTyped
  <2>5. QED
    BY <2>2, <2>3, <2>4, OneCompactionInv
<1>4. ASSUME ~At(c, "waiting")
      PROVE  /\ compaction[c] \in CompactionRecord
             /\ compaction[c].stored = "yes" => c \in receipts
             /\ compaction[c].overlay = "kept" => \E o \in overlays : o.of = c
             /\ Summarised(c) => /\ compaction[c].found = compaction[c].refs
                                 /\ At(c, "print") \/ At(c, "done")
             /\ receipts \subseteq Compactions
  <2>1. OverlaysCome
    BY DEF CompactionInv
  <2>2. QED
    BY <1>1, <1>4, <2>1, CompactionKinds
    DEF RecoverySaysTheTruth, CompactionTyped, OverlaysCome, Summarised
<1>5. ASSUME NEW next \in CompactionRecord,
             compaction' = [compaction EXCEPT ![c] = next],
             \/ At(c, "compact")
             \/ next.refs = compaction[c].refs /\ next.at \in {"print", "done"} /\ ~At(c, "done")
             \/ next.refs = compaction[c].refs /\ ~At(c, "print") /\ ~At(c, "done"),
             ~At(c, "waiting"),
             receipts' \in {receipts, receipts \union {c}},
             UNCHANGED <<overlays, storeUp>>,
             next.stored = "yes" => compaction[c].stored = "yes" \/ c \in receipts',
             next.overlay \in {compaction[c].overlay, "unavailable"},
             next.found = compaction[c].found
      PROVE  CompactionInv'
  <2>1. ~At(c, "done")
    BY <1>5 DEF At
  <2>2. receipts' \subseteq Compactions /\ receipts \subseteq receipts'
    BY <1>4, <1>5
  <2>3. next.stored = "yes" => c \in receipts'
    BY <1>4, <1>5, <2>2
  <2>4. next.overlay = "kept" => \E o \in overlays : o.of = c
    BY <1>4, <1>5
  <2>5. ASSUME next.overlay \in {"kept", "unstored"}
        PROVE  next.found = next.refs /\ next.at \in {"print", "done"}
    <3>1. Summarised(c)
      BY <1>5, <2>5 DEF Summarised
    <3>2. At(c, "print")
      BY <1>4, <1>5, <2>1, <3>1
    <3>3. QED
      BY <1>4, <1>5, <3>1, <3>2 DEF At
  <2>6. QED
    BY <1>5, <2>1, <2>2, <2>3, <2>4, <2>5, OneCompactionInv
<1>6. CASE FailsOpen(c) \/ GovernorBreaks(c) \/ PrintCompaction(c)
  <2>1. ~At(c, "waiting") /\ compaction[c] \in CompactionRecord
    BY <1>4, <1>6 DEF FailsOpen, GovernorBreaks, PrintCompaction, At
  <2>2. PICK next \in {[compaction[c] EXCEPT !.at = "open"], [compaction[c] EXCEPT !.at = "ended"],
                       [compaction[c] EXCEPT !.at = "done", !.printed = TRUE]} :
            /\ compaction' = [compaction EXCEPT ![c] = next]
            /\ At(c, "print") => next.at = "done"
    BY <1>2, <1>6, <2>1 DEF FailsOpen, GovernorBreaks, PrintCompaction, Goes, At, CompactionRecord
  <2>3. /\ next \in CompactionRecord
        /\ next.refs = compaction[c].refs
        /\ next.stored = compaction[c].stored /\ next.overlay = compaction[c].overlay
        /\ next.found = compaction[c].found
    BY <2>1, <2>2 DEF CompactionRecord
  <2>4. UNCHANGED <<receipts, overlays, storeUp>> /\ ~At(c, "done")
    BY <1>6 DEF FailsOpen, GovernorBreaks, PrintCompaction, At
  <2>5. QED
    BY <1>5, <2>1, <2>2, <2>3, <2>4
<1>7. CASE Compacted(c)
  <2>1. At(c, "compact") /\ ~At(c, "waiting") /\ compaction[c] \in CompactionRecord
    BY <1>4, <1>7 DEF Compacted, At
  <2>2. PICK refs \in RefLists, long \in BOOLEAN, at \in {"store", "ended", "open"} :
            compaction' = [compaction EXCEPT ![c] =
                [compaction[c] EXCEPT !.refs = refs, !.long = long, !.at = at]]
    <3>1. PICK refs \in RefLists, long \in BOOLEAN :
              compaction' = [compaction EXCEPT ![c].refs = refs, ![c].long = long,
                 ![c].at = IF storeUp THEN "store"
                           ELSE IF compaction[c].script = "codex_hook" THEN "ended" ELSE "open"]
      BY <1>7 DEF Compacted
    <3>. DEFINE at == IF storeUp THEN "store"
                      ELSE IF compaction[c].script = "codex_hook" THEN "ended" ELSE "open"
    <3>2. at \in {"store", "ended", "open"}
      OBVIOUS
    <3>3. compaction' = [compaction EXCEPT ![c] =
                [compaction[c] EXCEPT !.refs = refs, !.long = long, !.at = at]]
      BY <1>2, <3>1
    <3>4. QED
      BY <3>2, <3>3
  <2>3. QED
    <3>. DEFINE next == [compaction[c] EXCEPT !.refs = refs, !.long = long, !.at = at]
    <3>1. /\ next \in CompactionRecord
          /\ next.stored = compaction[c].stored /\ next.overlay = compaction[c].overlay
        /\ next.found = compaction[c].found
      BY <2>1 DEF CompactionRecord
    <3>2. compaction' = [compaction EXCEPT ![c] = next] /\ UNCHANGED <<receipts, overlays, storeUp>>
      BY <1>7, <2>2 DEF Compacted
    <3>. HIDE DEF next
    <3>3. QED
      BY <1>5, <2>1, <3>1, <3>2
<1>8. CASE Stored(c) \/ StoreFails(c)
  <2>1. At(c, "store") /\ ~At(c, "waiting") /\ compaction[c] \in CompactionRecord
    BY <1>4, <1>8 DEF Stored, StoreFails, At
  <2>2. PICK at \in {"overlay", "print"}, stored \in {"no", "yes", "failed"} :
            /\ compaction' = [compaction EXCEPT ![c] =
                   [compaction[c] EXCEPT !.stored = stored, !.at = at]]
            /\ stored = "yes" => receipts' = receipts \union {c}
            /\ receipts' \in {receipts, receipts \union {c}}
            /\ UNCHANGED <<overlays, storeUp>>
    <3>1. AfterStore(c) \in {"overlay", "print"}
      BY DEF AfterStore
    <3>2. CASE Stored(c)
      <4>1. compaction' = [compaction EXCEPT ![c] =
                   [compaction[c] EXCEPT !.stored = "yes", !.at = AfterStore(c)]]
        BY <1>2, <3>2 DEF Stored
      <4>2. QED
        BY <3>1, <3>2, <4>1 DEF Stored
    <3>3. CASE StoreFails(c)
      <4>. DEFINE stored == IF compaction[c].script = "codex_hook" THEN "no" ELSE "failed"
      <4>1. stored \in {"no", "failed"}
        OBVIOUS
      <4>2. compaction' = [compaction EXCEPT ![c] =
                   [compaction[c] EXCEPT !.stored = stored, !.at = AfterStore(c)]]
        BY <1>2, <3>3 DEF StoreFails
      <4>3. QED
        BY <3>1, <3>3, <4>1, <4>2 DEF StoreFails
    <3>4. QED
      BY <1>8, <3>2, <3>3
  <2>3. QED
    <3>. DEFINE next == [compaction[c] EXCEPT !.stored = stored, !.at = at]
    <3>1. /\ next \in CompactionRecord /\ next.refs = compaction[c].refs
          /\ next.stored = stored /\ next.overlay = compaction[c].overlay
          /\ next.found = compaction[c].found
      BY <2>1 DEF CompactionRecord
    <3>2. ~At(c, "print") /\ ~At(c, "done")
      BY <2>1 DEF At
    <3>. HIDE DEF next
    <3>3. compaction' = [compaction EXCEPT ![c] = next]
      BY <2>2 DEF next
    <3>4. QED
      BY <1>5, <2>1, <2>2, <3>1, <3>2, <3>3
<1>9. CASE OverlayFails(c)
  <2>1. At(c, "overlay") /\ ~At(c, "waiting") /\ compaction[c] \in CompactionRecord
    BY <1>4, <1>9 DEF OverlayFails, At
  <2>. DEFINE next == [compaction[c] EXCEPT !.at = "print", !.overlay = "unavailable"]
  <2>2. /\ next \in CompactionRecord /\ next.refs = compaction[c].refs
        /\ next.stored = compaction[c].stored /\ next.overlay = "unavailable"
        /\ next.found = compaction[c].found
    BY <2>1 DEF CompactionRecord
  <2>3. compaction' = [compaction EXCEPT ![c] = next]
    BY <1>2, <1>9 DEF OverlayFails
  <2>. HIDE DEF next
  <2>4. UNCHANGED <<receipts, overlays, storeUp>> /\ ~At(c, "print") /\ ~At(c, "done")
    BY <1>9, <2>1 DEF OverlayFails, At
  <2>5. QED
    BY <1>5, <2>1, <2>2, <2>3, <2>4
<1>10. QED
  BY <1>3, <1>6, <1>7, <1>8, <1>9

\* A summary is kept only with the references of the receipt.
LEMMA OverlayCompactionInv ==
    ASSUME CompactionInv, NEW c \in Compactions, RenderOverlay(c)
    PROVE  CompactionInv'
<1>1. CompactionTyped /\ OverlaysCome /\ RecoverySaysTheTruth
  BY DEF CompactionInv
<1>2. /\ compaction \in [Compactions -> CompactionRecord \union {Waiting}]
      /\ At(c, "overlay") /\ ~At(c, "waiting") /\ compaction[c] \in CompactionRecord
  BY <1>1, CompactionKinds DEF CompactionTyped, RenderOverlay, At
<1>3. PICK found \in RefLists :
         LET accepted == RefsAccepted(found, compaction[c].refs) IN
         /\ overlays' = IF accepted /\ storeUp THEN overlays \union {[of |-> c, refs |-> found]}
                        ELSE overlays
         /\ compaction' = [compaction EXCEPT ![c].at = "print", ![c].found = found,
              ![c].overlay = CASE accepted /\ storeUp -> "kept"
                               [] accepted /\ ~storeUp -> "unstored"
                               [] ~accepted /\ found = compaction[c].refs -> "refused"
                               [] OTHER -> "unavailable"]
  BY DEF RenderOverlay
<1>. DEFINE accepted == RefsAccepted(found, compaction[c].refs)
            overlay == CASE accepted /\ storeUp -> "kept"
                         [] accepted /\ ~storeUp -> "unstored"
                         [] ~accepted /\ found = compaction[c].refs -> "refused"
                         [] OTHER -> "unavailable"
            next == [compaction[c] EXCEPT !.at = "print", !.found = found, !.overlay = overlay]
<1>4. accepted => found = compaction[c].refs
  BY DEF RefsAccepted
<1>5. /\ overlay \in {"kept", "unstored", "refused", "unavailable"}
      /\ overlay = "kept" => accepted /\ storeUp
      /\ overlay = "unstored" => accepted
  OBVIOUS
<1>6. overlays' = IF accepted /\ storeUp THEN overlays \union {[of |-> c, refs |-> found]} ELSE overlays
  BY <1>3
<1>7. compaction' = [compaction EXCEPT ![c] = next]
  BY <1>2, <1>3
<1>8. /\ next \in CompactionRecord /\ next.at = "print" /\ next.refs = compaction[c].refs
      /\ next.stored = compaction[c].stored /\ next.overlay = overlay /\ next.found = found
  BY <1>2, <1>5 DEF CompactionRecord
<1>. HIDE DEF accepted, overlay, next
<1>9. /\ compaction'[c] = next
      /\ \A d \in Compactions : d # c => compaction'[d] = compaction[d]
      /\ UNCHANGED <<receipts, storeUp>>
  BY <1>2, <1>7 DEF RenderOverlay
<1>10. CompactionTyped'
  <2>1. compaction' \in [Compactions -> CompactionRecord \union {Waiting}]
    BY <1>2, <1>7, <1>8
  <2>2. overlays' \subseteq [of : Compactions, refs : RefLists]
    BY <1>1, <1>6 DEF CompactionTyped
  <2>3. QED
    BY <1>1, <1>9, <2>1, <2>2 DEF CompactionTyped
<1>11. ASSUME NEW o \in overlays'
       PROVE  /\ At(o.of, "print")' \/ At(o.of, "done")'
              /\ o.refs = compaction'[o.of].refs
  <2>1. CASE o \in overlays /\ o.of # c
    <3>1. o.of \in Compactions /\ o.refs = compaction[o.of].refs
      BY <1>1, <2>1 DEF CompactionTyped, RecoverySaysTheTruth
    <3>2. At(o.of, "print") \/ At(o.of, "done")
      BY <1>1, <2>1 DEF OverlaysCome
    <3>3. QED
      BY <1>9, <2>1, <3>1, <3>2 DEF At
  <2>2. CASE o \in overlays /\ o.of = c
    <3>1. o.refs = compaction[c].refs
      BY <1>1, <2>2 DEF RecoverySaysTheTruth
    <3>2. QED
      BY <1>8, <1>9, <2>2, <3>1 DEF At
  <2>3. CASE o \notin overlays
    <3>1. accepted /\ o = [of |-> c, refs |-> found]
      BY <1>6, <2>3
    <3>2. QED
      BY <1>4, <1>8, <1>9, <3>1 DEF At
  <2>4. QED
    BY <2>1, <2>2, <2>3
<1>12. ASSUME NEW d \in Compactions, ~At(d, "waiting")'
       PROVE  /\ compaction'[d].stored = "yes" => d \in receipts'
              /\ compaction'[d].overlay = "kept" => \E o \in overlays' : o.of = d
              /\ Summarised(d)' => /\ compaction'[d].found = compaction'[d].refs
                                   /\ At(d, "print")' \/ At(d, "done")'
  <2>1. overlays \subseteq overlays'
    BY <1>6
  <2>2. CASE d = c
    <3>1. compaction[c].stored = "yes" => c \in receipts
      BY <1>1, <1>2 DEF RecoverySaysTheTruth
    <3>2. accepted /\ storeUp => \E o \in overlays' : o.of = c
      <4>1. accepted /\ storeUp => [of |-> c, refs |-> found] \in overlays'
        BY <1>6
      <4>2. [of |-> c, refs |-> found].of = c
        OBVIOUS
      <4>3. QED
        BY <4>1, <4>2
    <3>3. QED
      BY <1>4, <1>5, <1>8, <1>9, <2>2, <3>1, <3>2 DEF Summarised, At
  <2>3. CASE d # c
    <3>1. /\ compaction'[d] = compaction[d] /\ ~At(d, "waiting")
          /\ At(d, "print")' = At(d, "print") /\ At(d, "done")' = At(d, "done")
          /\ Summarised(d)' = Summarised(d)
      BY <1>9, <1>12, <2>3 DEF At, Summarised
    <3>2. Summarised(d) => /\ compaction[d].found = compaction[d].refs
                           /\ At(d, "print") \/ At(d, "done")
      BY <1>1, <3>1 DEF RecoverySaysTheTruth, OverlaysCome, Summarised
    <3>3. /\ compaction[d].stored = "yes" => d \in receipts
          /\ compaction[d].overlay = "kept" => \E o \in overlays : o.of = d
      BY <1>1, <3>1 DEF RecoverySaysTheTruth
    <3>4. QED
      BY <1>9, <2>1, <3>1, <3>2, <3>3
  <2>4. QED
    BY <2>2, <2>3
<1>13. OverlaysCome' /\ RecoverySaysTheTruth'
  BY <1>11, <1>12 DEF OverlaysCome, RecoverySaysTheTruth, Summarised
<1>14. QED
  BY <1>10, <1>13 DEF CompactionInv

LEMMA NextCompactionInv == CompactionInv /\ [CompactionNext]_compactionVars => CompactionInv'
<1>. SUFFICES ASSUME CompactionInv, [CompactionNext]_compactionVars PROVE CompactionInv'
  OBVIOUS
<1>1. CASE UNCHANGED compactionVars \/ DiskTurns
  BY <1>1 DEF compactionVars, DiskTurns, CompactionInv, CompactionTyped, OverlaysCome,
              RecoverySaysTheTruth, Summarised, At
<1>2. QED
  BY <1>1, StepCompactionInv, OverlayCompactionInv DEF CompactionNext

\* Every compaction, receipt and overlay keeps its type.
THEOREM CompactionTypeCorrect == CompactionSpec => []CompactionTypeOK
<1>1. CompactionInv => CompactionTypeOK
  <2>1. ASSUME CompactionInv, NEW c \in Compactions, ~At(c, "waiting")
        PROVE  compaction[c] \in CompactionRecord
    BY <2>1, CompactionKinds DEF CompactionInv
  <2>2. QED
    BY <2>1 DEF CompactionInv, CompactionTyped, CompactionTypeOK, CompactionRecord
<1>2. QED
  BY <1>1, InitCompactionInv, NextCompactionInv, PTL DEF CompactionSpec

\* Wherever the disk, the governor or the model fails, an answer names a receipt or
\* an overlay only when it is there, and an overlay has the receipt's references.
THEOREM RecoveryIsTrue == CompactionSpec => []RecoverySaysTheTruth
<1>1. CompactionInv => RecoverySaysTheTruth
  BY DEF CompactionInv
<1>2. QED
  BY <1>1, InitCompactionInv, NextCompactionInv, PTL DEF CompactionSpec

-----------------------------------------------------------------------------
(* Reports.                                                                 *)

AuditRecord ==
    [at : {"idle", "stats", "graph", "count", "search", "done", "aborted"},
     ok : BOOLEAN, targets : SUBSET Entries, graphRead : BOOLEAN, offset : Nat, total : Nat,
     least : Nat, most : Nat, failed : BOOLEAN,
     rows : SUBSET [tops : SUBSET (Entries \union {NoFact}), stale : BOOLEAN]]

GapRecord ==
    [at : {"idle", "health", "search", "edges", "done"}, available : BOOLEAN,
     gaps : SUBSET {"search_failed", "low_recall", "missing_graph_edges"},
     hits : SUBSET Entries, looked : SUBSET Entries, bare : SUBSET Entries, few : BOOLEAN]

ReportsTyped ==
    /\ facts \subseteq Entries /\ edges \subseteq Entries /\ replaced \subseteq Entries
    /\ answering \in BOOLEAN /\ upkeep \in 0 .. MaxUpkeep
    /\ audit \in AuditRecord
    /\ gapReport \in GapRecord

\* What an audit has counted so far: full pages only, of facts that were all there
\* when the last of these pages was read.
CountSoFar ==
    /\ audit.at \in {"stats", "graph"} => audit.total = 0 /\ audit.offset = 0
    /\ audit.at = "count" =>
           /\ audit.ok
           /\ audit.least <= Cardinality(facts) /\ Cardinality(facts) <= audit.most
           /\ ~audit.failed => audit.total = audit.offset /\ audit.offset <= audit.most
    /\ audit.at \in {"search", "done"} /\ audit.ok /\ ~audit.failed =>
           audit.least <= audit.total /\ audit.total <= audit.most

\* The edges of a report are those of its hits.
LookedAtHits ==
    /\ gapReport.bare \subseteq gapReport.looked /\ gapReport.looked \subseteq gapReport.hits
    /\ gapReport.at \in {"health", "search"} => gapReport.looked = {}

ReportsInv == ReportsTyped /\ CountSoFar /\ LookedAtHits /\ OutageIsNotLowRecall

LEMMA CountOfFacts ==
    ASSUME NEW s, s \subseteq Entries
    PROVE  Cardinality(s) \in Nat
BY ReportsAssumption, FS_Subset, FS_CardinalityType

LEMMA LeastOfTwo ==
    ASSUME NEW a \in Nat, NEW b \in Nat
    PROVE  /\ Min({a, b}) \in {a, b} /\ Min({a, b}) <= a /\ Min({a, b}) <= b
           /\ Max({a, b}) \in {a, b} /\ a <= Max({a, b}) /\ b <= Max({a, b})
<1>1. \E x \in {a, b} : \A y \in {a, b} : x <= y
  OBVIOUS
<1>2. \E x \in {a, b} : \A y \in {a, b} : x >= y
  OBVIOUS
<1>3. Min({a, b}) \in {a, b} /\ \A y \in {a, b} : Min({a, b}) <= y
  BY <1>1 DEF Min
<1>4. Max({a, b}) \in {a, b} /\ \A y \in {a, b} : Max({a, b}) >= y
  BY <1>2 DEF Max
<1>5. QED
  BY <1>3, <1>4

\* A page is part of what is left.
LEMMA PageOfFacts ==
    ASSUME facts \subseteq Entries, NEW offset \in Nat
    PROVE  /\ PageCount(offset) \in Nat
           /\ PageCount(offset) <= PageSize
           /\ PageCount(offset) > 0 => offset + PageCount(offset) <= Cardinality(facts)
           /\ PageCount(offset) < PageSize =>
                 offset >= Cardinality(facts) \/ offset + PageCount(offset) = Cardinality(facts)
           /\ offset >= Cardinality(facts) => PageCount(offset) = 0
<1>1. Cardinality(facts) \in Nat /\ PageSize \in Nat
  BY CountOfFacts, ReportsAssumption
<1>2. CASE offset >= Cardinality(facts)
  BY <1>1, <1>2, ReportsAssumption DEF PageCount
<1>3. CASE ~(offset >= Cardinality(facts))
  <2>. DEFINE left == Cardinality(facts) - offset
  <2>1. left \in Nat /\ left > 0
    BY <1>1, <1>3
  <2>2. PageCount(offset) = Min({left, PageSize})
    BY <1>3 DEF PageCount
  <2>3. PageCount(offset) \in {left, PageSize} /\ PageCount(offset) <= left
        /\ PageCount(offset) <= PageSize
    BY <1>1, <2>1, <2>2, LeastOfTwo
  <2>4. QED
    BY <1>1, <1>3, <2>1, <2>3
<1>4. QED
  BY <1>2, <1>3

LEMMA ReportFields ==
    ASSUME ReportsTyped
    PROVE  /\ audit.offset \in Nat /\ audit.total \in Nat
           /\ audit.least \in Nat /\ audit.most \in Nat
           /\ audit.ok \in BOOLEAN /\ audit.failed \in BOOLEAN
           /\ Cardinality(facts) \in Nat
           /\ facts \subseteq Entries /\ replaced \subseteq Entries /\ answering \in BOOLEAN
           /\ gapReport.hits \in SUBSET Entries
           /\ gapReport.looked \in SUBSET Entries /\ gapReport.bare \in SUBSET Entries
           /\ gapReport.gaps \in SUBSET {"search_failed", "low_recall", "missing_graph_edges"}
BY CountOfFacts DEF ReportsTyped, AuditRecord, GapRecord

LEMMA NewTyped ==
    /\ NewAudit \in AuditRecord /\ [NewAudit EXCEPT !.at = "idle"] \in AuditRecord
    /\ NewReport \in GapRecord /\ [NewReport EXCEPT !.at = "idle"] \in GapRecord
BY DEF NewAudit, AuditRecord, NewReport, GapRecord

LEMMA InitReportsInv == ReportsInit => ReportsInv
<1>. SUFFICES ASSUME ReportsInit PROVE ReportsInv
  OBVIOUS
<1>1. ReportsTyped
  BY NewTyped, ReportsAssumption DEF ReportsInit, ReportsTyped
<1>2. audit.at = "idle" /\ gapReport.gaps = {} /\ gapReport.looked = {} /\ gapReport.bare = {}
  BY DEF ReportsInit, NewAudit, NewReport
<1>3. QED
  BY <1>1, <1>2 DEF ReportsInv, CountSoFar, LookedAtHits, OutageIsNotLowRecall

\* A step of the audit leaves the memory and the other report alone.
LEMMA AuditReportsInv ==
    ASSUME ReportsInv,
           StartAudit \/ AuditAborts \/ AuditStats \/ AuditGraph \/ AuditSearch \/ EndAudit
    PROVE  ReportsInv'
<1>. USE ReportFields
<1>1. /\ ReportsTyped /\ CountSoFar
      /\ UNCHANGED <<gapReport, facts, edges, replaced, answering, upkeep>>
  BY DEF ReportsInv, memoryVars, StartAudit, AuditAborts, AuditStats, AuditGraph, AuditSearch,
         EndAudit
<1>2. audit \in AuditRecord
  BY <1>1 DEF ReportsTyped
<1>3. audit' \in AuditRecord /\ CountSoFar'
  <2>1. CASE StartAudit
    <3>1. /\ audit' \in AuditRecord /\ audit'.at = "stats"
          /\ audit'.total = 0 /\ audit'.offset = 0
      BY <2>1, NewTyped DEF StartAudit, NewAudit
    <3>2. QED
      BY <3>1 DEF CountSoFar
  <2>2. CASE AuditAborts \/ AuditStats \/ EndAudit
    <3>1. PICK at \in {"aborted", "graph", "idle"}, ok \in BOOLEAN :
              /\ audit' = [audit EXCEPT !.at = at, !.ok = ok]
              /\ at = "graph" => audit.at = "stats"
      <4>1. CASE AuditAborts
        <5>1. audit' = [audit EXCEPT !.at = "aborted", !.ok = audit.ok]
          BY <1>2, <2>2, <4>1 DEF AuditAborts, AuditRecord
        <5>2. QED
          BY <1>1, <5>1
      <4>2. CASE AuditStats
        <5>1. audit' = [audit EXCEPT !.at = "graph", !.ok = answering]
          BY <1>2, <2>2, <4>2 DEF AuditStats, AuditRecord
        <5>2. QED
          BY <1>1, <4>2, <5>1 DEF AuditStats
      <4>3. CASE EndAudit
        <5>1. audit' = [audit EXCEPT !.at = "idle", !.ok = audit.ok]
          BY <1>2, <2>2, <4>3 DEF EndAudit, AuditRecord
        <5>2. QED
          BY <1>1, <5>1
      <4>4. QED
        BY <2>2, <4>1, <4>2, <4>3
    <3>2. /\ audit' \in AuditRecord /\ audit'.at = at
          /\ audit'.total = audit.total /\ audit'.offset = audit.offset
      BY <1>2, <3>1 DEF AuditRecord
    <3>3. at = "graph" => audit.at = "stats"
      BY <3>1
    <3>4. QED
      BY <1>1, <3>2, <3>3 DEF CountSoFar
  <2>3. CASE AuditGraph
    <3>. DEFINE n == Cardinality(facts)
                targets == IF answering THEN replaced ELSE {}
                at == IF audit.ok THEN "count" ELSE "search"
    <3>1. audit' = [audit EXCEPT !.targets = targets, !.graphRead = answering, !.at = at,
                                 !.least = n, !.most = n]
      BY <2>3 DEF AuditGraph
    <3>2. /\ n \in Nat /\ targets \in SUBSET Entries /\ answering \in BOOLEAN
          /\ at \in {"count", "search"} /\ (at = "count" <=> audit.ok)
      BY <1>1
    <3>. HIDE DEF n, targets, at
    <3>3. /\ audit' \in AuditRecord /\ audit'.at = at /\ audit'.ok = audit.ok
          /\ audit'.least = n /\ audit'.most = n
          /\ audit'.total = audit.total /\ audit'.offset = audit.offset
      BY <1>2, <3>1, <3>2 DEF AuditRecord
    <3>4. audit.total = 0 /\ audit.offset = 0
      BY <1>1, <2>3 DEF AuditGraph, CountSoFar
    <3>5. QED
      BY <1>1, <3>2, <3>3, <3>4 DEF CountSoFar, n
  <2>4. CASE AuditSearch
    <3>1. PICK plain \in facts \union {NoFact}, routed \in facts \union {NoFact} :
              audit' = [audit EXCEPT !.at = "done",
                  !.rows = {[tops |-> {plain, routed}, stale |-> StaleRisk(plain, routed)]}]
      BY <2>4 DEF AuditSearch, Tops
    <3>2. /\ {plain, routed} \in SUBSET (Entries \union {NoFact})
          /\ StaleRisk(plain, routed) \in BOOLEAN
      BY <1>1 DEF StaleRisk
    <3>. DEFINE rows == {[tops |-> {plain, routed}, stale |-> StaleRisk(plain, routed)]}
    <3>3. rows \in SUBSET [tops : SUBSET (Entries \union {NoFact}), stale : BOOLEAN]
      BY <3>2
    <3>. HIDE DEF rows
    <3>4. audit' = [audit EXCEPT !.at = "done", !.rows = rows]
      BY <3>1 DEF rows
    <3>5. /\ audit' \in AuditRecord /\ audit'.at = "done" /\ audit'.ok = audit.ok
          /\ audit'.failed = audit.failed /\ audit'.total = audit.total
          /\ audit'.least = audit.least /\ audit'.most = audit.most
      BY <1>2, <3>3, <3>4 DEF AuditRecord
    <3>6. QED
      BY <1>1, <2>4, <3>5 DEF CountSoFar, AuditSearch
  <2>5. QED
    BY <2>1, <2>2, <2>3, <2>4
<1>4. QED
  BY <1>1, <1>3 DEF ReportsInv, ReportsTyped, LookedAtHits, OutageIsNotLowRecall

\* One more page.
LEMMA PageReportsInv ==
    ASSUME ReportsInv, CountPage
    PROVE  ReportsInv'
<1>. USE ReportFields
<1>1. /\ ReportsTyped /\ CountSoFar
      /\ UNCHANGED <<gapReport, facts, edges, replaced, answering, upkeep>>
      /\ audit.at = "count"
  BY DEF ReportsInv, memoryVars, CountPage
<1>. DEFINE page == IF answering THEN PageCount(audit.offset) ELSE 0
            at == IF LastPage(page) THEN "search" ELSE "count"
<1>2. audit' = [audit EXCEPT !.total = audit.total + page, !.failed = audit.failed \/ ~answering,
                             !.offset = audit.offset + PageSize, !.at = at]
  BY DEF CountPage
<1>3. /\ PageSize \in Nat /\ page \in Nat /\ page <= PageSize
      /\ at \in {"search", "count"} /\ (at = "search" <=> page < PageSize)
      /\ page > 0 => audit.offset + page <= Cardinality(facts)
      /\ answering /\ page < PageSize =>
             \/ audit.offset >= Cardinality(facts) /\ page = 0
             \/ audit.offset + page = Cardinality(facts)
  <2>1. PageSize \in Nat /\ PageSize > 0
    BY ReportsAssumption
  <2>2. /\ PageCount(audit.offset) \in Nat
        /\ PageCount(audit.offset) <= PageSize
        /\ PageCount(audit.offset) > 0 => audit.offset + PageCount(audit.offset) <= Cardinality(facts)
        /\ PageCount(audit.offset) < PageSize =>
              \/ audit.offset >= Cardinality(facts)
              \/ audit.offset + PageCount(audit.offset) = Cardinality(facts)
        /\ audit.offset >= Cardinality(facts) => PageCount(audit.offset) = 0
    BY <1>1, PageOfFacts
  <2>3. CASE answering
    BY <2>1, <2>2, <2>3 DEF LastPage
  <2>4. CASE ~answering
    BY <1>1, <2>1, <2>4 DEF LastPage
  <2>5. QED
    BY <2>3, <2>4
<1>. HIDE DEF page, at
<1>4. (audit.failed \/ ~answering) \in BOOLEAN
  OBVIOUS
<1>5. /\ audit' \in AuditRecord
      /\ audit'.at = at /\ audit'.ok = audit.ok
      /\ audit'.failed = (audit.failed \/ ~answering)
      /\ audit'.total = audit.total + page /\ audit'.offset = audit.offset + PageSize
      /\ audit'.least = audit.least /\ audit'.most = audit.most
  <2>1. audit \in AuditRecord /\ audit.total + page \in Nat /\ audit.offset + PageSize \in Nat
    BY <1>1, <1>3 DEF ReportsTyped
  <2>2. QED
    BY <1>2, <1>3, <1>4, <2>1 DEF AuditRecord
<1>6. CountSoFar'
  <2>1. /\ audit.ok
        /\ audit.least <= Cardinality(facts) /\ Cardinality(facts) <= audit.most
        /\ ~audit.failed => audit.total = audit.offset /\ audit.offset <= audit.most
    BY <1>1 DEF CountSoFar
  <2>2. CASE audit.failed \/ ~answering
    BY <1>1, <1>3, <1>5, <2>1, <2>2 DEF CountSoFar
  <2>3. CASE ~audit.failed /\ answering /\ at = "count"
    <3>1. page = PageSize /\ page > 0
      BY <1>3, <2>3, ReportsAssumption
    <3>2. audit'.total = audit'.offset /\ audit'.offset <= audit.most
      BY <1>1, <1>3, <1>5, <2>1, <2>3, <3>1
    <3>3. QED
      BY <1>1, <1>5, <2>1, <2>3, <3>2 DEF CountSoFar
  <2>4. CASE ~audit.failed /\ answering /\ at = "search"
    <3>1. audit.least <= audit'.total /\ audit'.total <= audit.most
      BY <1>1, <1>3, <1>5, <2>1, <2>4
    <3>2. QED
      BY <1>5, <2>4, <3>1 DEF CountSoFar
  <2>5. QED
    BY <1>3, <2>2, <2>3, <2>4
<1>7. QED
  BY <1>1, <1>5, <1>6 DEF ReportsInv, ReportsTyped, LookedAtHits, OutageIsNotLowRecall

\* A step of the gap detector leaves the memory and the audit alone.
LEMMA GapReportsInv ==
    ASSUME ReportsInv,
           StartGapReport \/ GapHealth \/ GapSearch \/ GapEdges \/ GapDone \/ EndGapReport
    PROVE  ReportsInv'
<1>. USE ReportFields
<1>1. /\ ReportsTyped /\ CountSoFar /\ LookedAtHits /\ OutageIsNotLowRecall
      /\ UNCHANGED <<audit, facts, edges, replaced, answering, upkeep>>
  BY DEF ReportsInv, memoryVars, StartGapReport, GapHealth, GapSearch, GapEdges, GapDone,
         EndGapReport
<1>2. gapReport \in GapRecord
  BY <1>1 DEF ReportsTyped
<1>3. gapReport' \in GapRecord /\ LookedAtHits' /\ OutageIsNotLowRecall'
  <2>1. CASE StartGapReport
    <3>1. /\ gapReport' \in GapRecord
          /\ gapReport'.gaps = {} /\ gapReport'.looked = {} /\ gapReport'.bare = {}
      BY <2>1, NewTyped DEF StartGapReport, NewReport
    <3>2. QED
      BY <3>1 DEF LookedAtHits, OutageIsNotLowRecall
  <2>2. CASE GapHealth \/ EndGapReport
    <3>1. PICK at \in {"search", "done", "idle"}, available \in BOOLEAN :
              /\ gapReport' = [gapReport EXCEPT !.at = at, !.available = available]
              /\ at = "search" => gapReport.at = "health"
      <4>1. CASE GapHealth
        <5>. DEFINE at == IF answering THEN "search" ELSE "done"
        <5>1. gapReport' = [gapReport EXCEPT !.at = at, !.available = answering]
          BY <1>2, <4>1 DEF GapHealth, GapRecord
        <5>2. at \in {"search", "done", "idle"}
          OBVIOUS
        <5>3. QED
          BY <1>1, <4>1, <5>1, <5>2 DEF GapHealth
      <4>2. CASE EndGapReport
        <5>1. gapReport' = [gapReport EXCEPT !.at = "idle", !.available = gapReport.available]
          BY <1>2, <4>2 DEF EndGapReport, GapRecord
        <5>2. gapReport.available \in BOOLEAN
          BY <1>2 DEF GapRecord
        <5>3. QED
          BY <5>1, <5>2
      <4>3. QED
        BY <2>2, <4>1, <4>2
    <3>2. /\ gapReport' \in GapRecord /\ gapReport'.at = at
          /\ gapReport'.gaps = gapReport.gaps /\ gapReport'.few = gapReport.few
          /\ gapReport'.looked = gapReport.looked /\ gapReport'.bare = gapReport.bare
          /\ gapReport'.hits = gapReport.hits
      BY <1>2, <3>1 DEF GapRecord
    <3>3. QED
      BY <1>1, <3>1, <3>2 DEF LookedAtHits, OutageIsNotLowRecall
  <2>3. CASE GapSearch
    <3>. DEFINE gaps == SearchGaps(facts, answering)
                hits == IF answering THEN facts ELSE {}
                few == Cardinality(facts) < FewHits
                at == IF answering THEN "edges" ELSE "done"
    <3>1. gapReport' = [gapReport EXCEPT !.gaps = gaps, !.hits = hits, !.few = few, !.at = at]
      BY <2>3 DEF GapSearch
    <3>2. /\ gaps \in SUBSET {"search_failed", "low_recall", "missing_graph_edges"}
          /\ hits \in SUBSET Entries /\ few \in BOOLEAN /\ at \in {"edges", "done"}
      BY <1>1 DEF SearchGaps
    <3>3. "low_recall" \in gaps => few
      BY DEF SearchGaps
    <3>. HIDE DEF gaps, hits, few, at
    <3>4. /\ gapReport' \in GapRecord /\ gapReport'.at = at
          /\ gapReport'.gaps = gaps /\ gapReport'.few = few
          /\ gapReport'.looked = gapReport.looked /\ gapReport'.bare = gapReport.bare
      BY <1>2, <3>1, <3>2 DEF GapRecord
    <3>5. gapReport.looked = {} /\ gapReport.bare = {}
      BY <1>1, <2>3 DEF GapSearch, LookedAtHits
    <3>6. QED
      BY <3>2, <3>3, <3>4, <3>5 DEF LookedAtHits, OutageIsNotLowRecall
  <2>4. CASE GapEdges
    <3>1. PICK hit \in gapReport.hits \ gapReport.looked :
              gapReport' = [gapReport EXCEPT !.looked = gapReport.looked \union {hit},
                  !.bare = IF answering /\ hit \in edges THEN gapReport.bare
                           ELSE gapReport.bare \union {hit}]
      BY <2>4 DEF GapEdges
    <3>. DEFINE bare == IF answering /\ hit \in edges THEN gapReport.bare
                        ELSE gapReport.bare \union {hit}
    <3>2. /\ bare \subseteq gapReport.bare \union {hit}
          /\ gapReport.looked \union {hit} \in SUBSET Entries /\ bare \in SUBSET Entries
      BY <1>1
    <3>. HIDE DEF bare
    <3>3. gapReport' = [gapReport EXCEPT !.looked = gapReport.looked \union {hit}, !.bare = bare]
      BY <3>1 DEF bare
    <3>4. /\ gapReport' \in GapRecord /\ gapReport'.at = gapReport.at
          /\ gapReport'.gaps = gapReport.gaps /\ gapReport'.few = gapReport.few
          /\ gapReport'.looked = gapReport.looked \union {hit} /\ gapReport'.bare = bare
          /\ gapReport'.hits = gapReport.hits
      BY <1>2, <3>2, <3>3 DEF GapRecord
    <3>5. QED
      BY <1>1, <2>4, <3>2, <3>4 DEF GapEdges, LookedAtHits, OutageIsNotLowRecall
  <2>5. CASE GapDone
    <3>1. PICK missing \in SUBSET {"missing_graph_edges"} :
              gapReport' = [gapReport EXCEPT !.at = "done", !.gaps = gapReport.gaps \union missing]
      BY <2>5 DEF GapDone
    <3>2. /\ gapReport' \in GapRecord /\ gapReport'.at = "done"
          /\ gapReport'.gaps = gapReport.gaps \union missing /\ gapReport'.few = gapReport.few
          /\ gapReport'.looked = gapReport.looked /\ gapReport'.bare = gapReport.bare
          /\ gapReport'.hits = gapReport.hits
      BY <1>1, <1>2, <3>1 DEF GapRecord
    <3>3. QED
      BY <1>1, <3>2 DEF LookedAtHits, OutageIsNotLowRecall
  <2>6. QED
    BY <2>1, <2>2, <2>3, <2>4, <2>5
<1>4. QED
  BY <1>1, <1>3 DEF ReportsInv, ReportsTyped, CountSoFar

\* The memory changes under both.
LEMMA UpkeepReportsInv ==
    ASSUME ReportsInv, Upkeep
    PROVE  ReportsInv'
<1>. USE ReportFields
<1>1. ReportsTyped /\ CountSoFar /\ LookedAtHits /\ OutageIsNotLowRecall
  BY DEF ReportsInv
<1>2. /\ facts' \subseteq Entries /\ edges' \subseteq Entries /\ replaced' \subseteq Entries
      /\ answering' \in BOOLEAN
  BY <1>1 DEF ReportsTyped, Upkeep
<1>3. upkeep' \in 0 .. MaxUpkeep /\ gapReport' = gapReport
  BY <1>1, ReportsAssumption DEF ReportsTyped, Upkeep
<1>4. Cardinality(facts') \in Nat
  BY <1>2, CountOfFacts
<1>5. audit' \in AuditRecord /\ CountSoFar'
  <2>1. audit \in AuditRecord
    BY <1>1 DEF ReportsTyped
  <2>2. CASE audit.at # "count"
    BY <1>1, <2>1, <2>2 DEF Upkeep, CountSoFar
  <2>3. CASE audit.at = "count"
    <3>. DEFINE n == Cardinality(facts')
                least == Min({audit.least, n})
                most == Max({audit.most, n})
    <3>1. audit' = [audit EXCEPT !.least = least, !.most = most]
      BY <2>3 DEF Upkeep
    <3>2. /\ least \in Nat /\ most \in Nat /\ least <= n /\ n <= most
          /\ least <= audit.least /\ audit.most <= most
      BY <1>1, <1>4, LeastOfTwo
    <3>. HIDE DEF least, most
    <3>3. /\ audit' \in AuditRecord /\ audit'.at = "count"
          /\ audit'.ok = audit.ok /\ audit'.failed = audit.failed
          /\ audit'.total = audit.total /\ audit'.offset = audit.offset
          /\ audit'.least = least /\ audit'.most = most
      BY <2>1, <2>3, <3>1, <3>2 DEF AuditRecord
    <3>4. QED
      BY <1>1, <2>3, <3>2, <3>3 DEF CountSoFar
  <2>4. QED
    BY <2>2, <2>3
<1>6. QED
  BY <1>1, <1>2, <1>3, <1>5 DEF ReportsInv, ReportsTyped, LookedAtHits, OutageIsNotLowRecall

LEMMA NextReportsInv == ReportsInv /\ [ReportsNext]_reportVars => ReportsInv'
<1>. SUFFICES ASSUME ReportsInv, [ReportsNext]_reportVars PROVE ReportsInv'
  OBVIOUS
<1>1. CASE UNCHANGED reportVars
  BY <1>1 DEF reportVars, ReportsInv, ReportsTyped, CountSoFar, LookedAtHits, OutageIsNotLowRecall
<1>2. QED
  BY <1>1, AuditReportsInv, PageReportsInv, GapReportsInv, UpkeepReportsInv DEF ReportsNext

\* The reports and the memory they are about keep their types.
THEOREM ReportsTypeCorrect == ReportsSpec => []ReportsTypeOK
<1>1. ReportsInv => ReportsTypeOK
  BY DEF ReportsInv, ReportsTyped, LookedAtHits, ReportsTypeOK, AuditRecord, GapRecord
<1>2. QED
  BY <1>1, InitReportsInv, NextReportsInv, PTL DEF ReportsSpec

\* For any page size and however facts come and go between the pages, a count none
\* of whose pages failed is one the namespace could have had meanwhile; and an outage
\* is never reported as low recall.
THEOREM ReportsTellTheTruth == ReportsSpec => []ReportsAreTrue
<1>1. ReportsInv => ReportsAreTrue
  BY ReportFields DEF ReportsInv, CountSoFar, ReportsAreTrue, CountIsOfTheAudit
<1>2. QED
  BY <1>1, InitReportsInv, NextReportsInv, PTL DEF ReportsSpec

-----------------------------------------------------------------------------
(* The codebase ingester: sets and sequences.                               *)

LEMMA ImageOfFinite ==
    ASSUME NEW S, IsFiniteSet(S), NEW f, f = [x \in S |-> f[x]]
    PROVE  /\ IsFiniteSet({f[x] : x \in S})
           /\ Cardinality({f[x] : x \in S}) <= Cardinality(S)
<1>. DEFINE T == {f[x] : x \in S}
<1>1. f \in Surjection(S, T)
  BY DEF Surjection
<1>2. QED
  BY <1>1, FS_Surjection

\* A finite set is put in a sequence without leaving out or repeating anything.
LEMMA SequenceOfSet ==
    ASSUME NEW S, IsFiniteSet(S)
    PROVE  /\ SetToSeq(S) \in [1 .. Cardinality(S) -> S]
           /\ \A m, n \in 1 .. Cardinality(S) : SetToSeq(S)[m] = SetToSeq(S)[n] => m = n
           /\ \A x \in S : \E n \in 1 .. Cardinality(S) : SetToSeq(S)[n] = x
<1>. DEFINE N == 1 .. Cardinality(S)
<1>1. Cardinality(S) \in Nat /\ ExistsBijection(N, S)
  BY FS_CardinalityType
<1>2. \E f \in [N -> S] : IsInjective(f)
  BY <1>1 DEF ExistsBijection, Bijection, Injection
<1>3. SetToSeq(S) \in [N -> S] /\ IsInjective(SetToSeq(S))
  BY <1>2 DEF SetToSeq
<1>4. IsFiniteSet(N) /\ Cardinality(N) = Cardinality(S)
  BY <1>1, FS_Interval
<1>5. SetToSeq(S) \in Surjection(N, S)
  <2>1. SetToSeq(S) \in Injection(N, S)
    BY <1>3 DEF Injection
  <2>2. QED
    BY <1>4, <2>1, FS_Injection
<1>6. QED
  BY <1>3, <1>5 DEF IsInjective, Surjection

\* A server gets no further than the batch.
LEMMA ServedPart ==
    ASSUME NEW batch, IsFiniteSet(batch), NEW served \in Served(batch)
    PROVE  /\ served \subseteq batch
           /\ IsFiniteSet(served)
<1>1. PICK n \in 0 .. Cardinality(batch) : served = ToSet(SubSeq(SetToSeq(batch), 1, n))
  BY DEF Served
<1>2. Cardinality(batch) \in Nat /\ SetToSeq(batch) \in [1 .. Cardinality(batch) -> batch]
  BY SequenceOfSet, FS_CardinalityType
<1>3. \A i \in 1 .. n : SubSeq(SetToSeq(batch), 1, n)[i] \in batch
  BY <1>2
<1>4. DOMAIN SubSeq(SetToSeq(batch), 1, n) = 1 .. n
  BY <1>2
<1>5. served \subseteq batch
  BY <1>1, <1>3, <1>4 DEF ToSet
<1>6. QED
  BY <1>5, FS_Subset

\* What is written has the keys and texts of what was sent, once each.
LEMMA NumberedFacts ==
    ASSUME NEW written, IsFiniteSet(written), store.next \in Nat,
           \A f \in written : f = [key |-> f.key, text |-> f.text]
    PROVE  /\ IsFiniteSet(Numbered(written))
           /\ Cardinality(Numbered(written)) <= Cardinality(written)
           /\ \A g \in Numbered(written) :
                 /\ g.num \in Nat /\ g.num < store.next + Cardinality(written)
                 /\ [key |-> g.key, text |-> g.text] \in written
           /\ \A f \in written : \E g \in Numbered(written) : g.key = f.key /\ g.text = f.text
           /\ \A g, h \in Numbered(written) : g.key = h.key /\ g.text = h.text => g = h
<1>. DEFINE order == SetToSeq(written)
            N == 1 .. Cardinality(written)
            fact == [n \in N |-> [num |-> store.next + n - 1, key |-> order[n].key,
                                  text |-> order[n].text]]
<1>1. /\ Cardinality(written) \in Nat
      /\ order \in [N -> written]
      /\ \A m, n \in N : order[m] = order[n] => m = n
      /\ \A f \in written : \E n \in N : order[n] = f
  BY SequenceOfSet, FS_CardinalityType
<1>2. Numbered(written) = {fact[n] : n \in N}
  BY DEF Numbered
<1>3. IsFiniteSet(N) /\ Cardinality(N) = Cardinality(written)
  BY <1>1, FS_Interval
<1>4. fact = [n \in N |-> fact[n]]
  OBVIOUS
<1>5. \A n \in N : /\ fact[n].num = store.next + n - 1
                   /\ fact[n].key = order[n].key /\ fact[n].text = order[n].text
  OBVIOUS
<1>. HIDE DEF order, fact
<1>6. /\ IsFiniteSet(Numbered(written))
      /\ Cardinality(Numbered(written)) <= Cardinality(written)
  <2>. HIDE DEF N
  <2>1. /\ IsFiniteSet({fact[n] : n \in N})
        /\ Cardinality({fact[n] : n \in N}) <= Cardinality(N)
    BY <1>3, <1>4, ImageOfFinite
  <2>2. QED
    BY <1>2, <1>3, <2>1
<1>7. ASSUME NEW g \in Numbered(written)
      PROVE  /\ g.num \in Nat /\ g.num < store.next + Cardinality(written)
             /\ [key |-> g.key, text |-> g.text] \in written
  <2>1. PICK n \in N : g = fact[n]
    BY <1>2
  <2>2. g.num = store.next + n - 1
    BY <1>5, <2>1
  <2>3. [key |-> g.key, text |-> g.text] = order[n] /\ order[n] \in written
    BY <1>1, <1>5, <2>1
  <2>4. QED
    BY <1>1, <2>2, <2>3
<1>8. ASSUME NEW f \in written
      PROVE  \E g \in Numbered(written) : g.key = f.key /\ g.text = f.text
  <2>1. PICK n \in N : order[n] = f
    BY <1>1
  <2>2. fact[n] \in Numbered(written)
    BY <1>2
  <2>3. QED
    BY <1>5, <2>1, <2>2
<1>9. ASSUME NEW g \in Numbered(written), NEW h \in Numbered(written),
             g.key = h.key, g.text = h.text
      PROVE  g = h
  <2>1. PICK m \in N, n \in N : g = fact[m] /\ h = fact[n]
    BY <1>2
  <2>2. order[m].key = order[n].key /\ order[m].text = order[n].text
    BY <1>5, <1>9, <2>1
  <2>3. order[m] \in written /\ order[n] \in written
    BY <1>1
  <2>4. /\ order[m] = [key |-> order[m].key, text |-> order[m].text]
        /\ order[n] = [key |-> order[n].key, text |-> order[n].text]
    BY <2>3
  <2>5. order[m] = order[n]
    BY <2>2, <2>4
  <2>6. QED
    BY <1>1, <2>1, <2>5
<1>10. QED
  BY <1>6, <1>7, <1>8, <1>9

-----------------------------------------------------------------------------
(* The codebase ingester: the plan.                                         *)

LinkTrue(l) ==
    \E n \in 1 .. Len(Manifests) :
        /\ Manifests[n].name = l[1]
        /\ IF l[3] = "belongs_to" THEN l[2] = Repo ELSE l[2] \in Manifests[n].deps

LEMMA ComponentsOfManifests ==
    /\ Components \subseteq 1 .. Len(Manifests)
    /\ IsFiniteSet(Components)
<1>1. Components \subseteq 1 .. Len(Manifests)
  BY DEF Components, Readable
<1>2. Len(Manifests) \in Nat
  BY IngesterAssumption
<1>3. IsFiniteSet(1 .. Len(Manifests))
  BY <1>2, FS_Interval
<1>4. QED
  BY <1>1, <1>3, FS_Subset

LEMMA PlannedFactsFinite ==
    /\ IsFiniteSet(PlannedFacts)
    /\ \A f \in PlannedFacts : f = [key |-> f.key, text |-> f.text]
<1>. DEFINE fact == [n \in Components |-> [key |-> Manifests[n].name, text |-> <<tree[n]>>]]
            own == {fact[n] : n \in Components}
            repository == [key |-> Repo, text |-> tree]
<1>1. fact = [n \in Components |-> fact[n]]
  OBVIOUS
<1>2. IsFiniteSet(own)
  <2>. HIDE DEF fact
  <2>1. QED
    BY <1>1, ComponentsOfManifests, ImageOfFinite
<1>3. PlannedFacts = own \union {repository}
  BY DEF PlannedFacts
<1>4. IsFiniteSet(own \union {repository})
  <2>. HIDE DEF own, repository
  <2>1. QED
    BY <1>2, FS_AddElement
<1>5. \A f \in PlannedFacts : f = [key |-> f.key, text |-> f.text]
  BY DEF PlannedFacts
<1>6. QED
  BY <1>3, <1>4, <1>5

LEMMA PlannedLinksFinite ==
    /\ IsFiniteSet(PlannedLinks)
    /\ \A l \in PlannedLinks : LinkTrue(l)
<1>. DEFINE home == [n \in Components |-> <<Manifests[n].name, Repo, "belongs_to">>]
            Others(n) == Manifests[n].deps \ {Manifests[n].name}
            away(n) == [d \in Others(n) |-> <<Manifests[n].name, d, "depends_on">>]
            Away(n) == {<<Manifests[n].name, d, "depends_on">> : d \in Others(n)}
            aways == [n \in Components |-> Away(n)]
            homes == {home[n] : n \in Components}
            all == {aways[n] : n \in Components}
<1>1. IsFiniteSet(homes)
  <2>1. home = [n \in Components |-> home[n]]
    OBVIOUS
  <2>. HIDE DEF home
  <2>2. QED
    BY <2>1, ComponentsOfManifests, ImageOfFinite
<1>2. ASSUME NEW n \in Components
      PROVE  IsFiniteSet(Away(n))
  <2>1. IsFiniteSet(Manifests[n].deps)
    BY ComponentsOfManifests, IngesterAssumption
  <2>2. IsFiniteSet(Others(n))
    BY <2>1, FS_Subset
  <2>. DEFINE link == away(n)
              others == Others(n)
  <2>3. link = [d \in others |-> link[d]] /\ Away(n) = {link[d] : d \in others}
    OBVIOUS
  <2>4. IsFiniteSet(others)
    BY <2>2
  <2>. HIDE DEF link, others
  <2>5. IsFiniteSet({link[d] : d \in others})
    BY <2>3, <2>4, ImageOfFinite
  <2>6. QED
    BY <2>3, <2>5
<1>3. IsFiniteSet(all)
  <2>1. aways = [n \in Components |-> aways[n]]
    OBVIOUS
  <2>. HIDE DEF aways
  <2>2. QED
    BY <2>1, ComponentsOfManifests, ImageOfFinite
<1>4. \A T \in all : IsFiniteSet(T)
  BY <1>2
<1>5. PlannedLinks = homes \union UNION all
  BY DEF PlannedLinks
<1>6. IsFiniteSet(homes \union UNION all)
  <2>. HIDE DEF homes, all
  <2>1. QED
    BY <1>1, <1>3, <1>4, FS_UNION, FS_Union
<1>7. ASSUME NEW l \in PlannedLinks
      PROVE  LinkTrue(l)
  <2>1. CASE \E n \in Components : l = <<Manifests[n].name, Repo, "belongs_to">>
    BY <2>1, ComponentsOfManifests DEF LinkTrue
  <2>2. CASE \E n \in Components : \E d \in Manifests[n].deps :
                 l = <<Manifests[n].name, d, "depends_on">>
    BY <2>2, ComponentsOfManifests DEF LinkTrue
  <2>3. QED
    BY <2>1, <2>2 DEF PlannedLinks
<1>8. QED
  BY <1>5, <1>6, <1>7

-----------------------------------------------------------------------------
(* The codebase ingester: the inductive invariant.                          *)

IngesterTyped ==
    /\ store = [facts |-> store.facts, edges |-> store.edges, next |-> store.next]
    /\ store.next \in Nat
    /\ IsFiniteSet(store.facts)
    /\ \A f \in store.facts : f.num \in Nat /\ f.num < store.next
    /\ ing = [pc |-> ing.pc, plan |-> ing.plan, links |-> ing.links, ids |-> ing.ids,
              todo |-> ing.todo, tries |-> ing.tries]
    /\ ing.pc \in {"idle", "search", "facts", "edges"}
    /\ ing.tries \in 0 .. MaxAttempts
    /\ history = [edits |-> history.edits, runs |-> history.runs, lost |-> history.lost,
                  refused |-> history.refused, undeduped |-> history.undeduped,
                  taken |-> history.taken]
    /\ history.lost \in Nat /\ history.undeduped \in Nat

\* What a run has planned and not done yet.
PlanFits ==
    /\ IsFiniteSet(ing.plan) /\ IsFiniteSet(ing.links) /\ IsFiniteSet(ing.todo)
    /\ \A f \in ing.plan : f = [key |-> f.key, text |-> f.text]
    /\ \A l \in ing.links : LinkTrue(l)

\* An id is that of a stored fact that stands for this key.
IdsTrue ==
    \A k \in DOMAIN ing.ids : \E g \in store.facts : StandsFor(g, k) /\ g.num = ing.ids[k]

EdgeTrue(e) ==
    \E a, b \in store.facts :
        /\ a.num = e[1] /\ b.num = e[2]
        /\ \E n \in 1 .. Len(Manifests) :
              /\ StandsFor(a, Manifests[n].name)
              /\ IF e[3] = "belongs_to" THEN StandsFor(b, Repo)
                 ELSE \E d \in Manifests[n].deps : StandsFor(b, d)

TodoTrue == \A e \in ing.todo : EdgeTrue(e)

SameIn(stock, key, text) == {g \in stock : g.key = key /\ g.text = text}

Copies(key, text) == SameIn(store.facts, key, text)

\* Facts that have no id yet may be written once more.
RoomForOneMore ==
    ing.pc = "facts" =>
        \A f \in Unresolved : Cardinality(Copies(f.key, f.text)) <= history.lost + history.undeduped

IngesterInv ==
    /\ IngesterTyped /\ PlanFits /\ IdsTrue /\ TodoTrue /\ EdgesAreTrue
    /\ RoomForOneMore /\ DuplicatesHaveAReason

\* The bound holds of facts that are not there as well.
LEMMA CopiesBound ==
    ASSUME IngesterTyped, DuplicatesHaveAReason, NEW key, NEW text
    PROVE  /\ IsFiniteSet(Copies(key, text))
           /\ Cardinality(Copies(key, text)) \in Nat
           /\ Cardinality(Copies(key, text)) <= 1 + history.lost + history.undeduped
<1>1. IsFiniteSet(store.facts) /\ history.lost \in Nat /\ history.undeduped \in Nat
  BY DEF IngesterTyped
<1>2. IsFiniteSet(Copies(key, text)) /\ Cardinality(Copies(key, text)) \in Nat
  BY <1>1, FS_Subset, FS_CardinalityType DEF Copies, SameIn
<1>3. CASE Copies(key, text) = {}
  <2>1. Cardinality(Copies(key, text)) = 0
    BY <1>3, FS_EmptySet
  <2>2. QED
    BY <1>1, <1>2, <2>1
<1>4. CASE Copies(key, text) # {}
  <2>1. PICK f \in store.facts : f.key = key /\ f.text = text
    BY <1>4 DEF Copies, SameIn
  <2>2. Cardinality({g \in store.facts : Identical(g, f)})
            <= 1 + history.lost + history.undeduped
    BY DEF DuplicatesHaveAReason
  <2>3. Copies(key, text) = {g \in store.facts : Identical(g, f)}
    BY <2>1 DEF Copies, SameIn, Identical
  <2>4. QED
    BY <1>2, <2>2, <2>3
<1>5. QED
  BY <1>3, <1>4

\* What stands for a component does so for good.
LEMMA StandsOn ==
    ASSUME history.taken \subseteq history'.taken
    PROVE  \A g, k : StandsFor(g, k) => StandsFor(g, k)'
BY DEF StandsFor

\* What is true of the stored facts stays so when more are stored.
LEMMA MoreFacts ==
    ASSUME store.facts \subseteq store'.facts, history.taken \subseteq history'.taken
    PROVE  \A e : EdgeTrue(e) => EdgeTrue(e)'
<1>. TAKE e
<1>. HAVE EdgeTrue(e)
<1>1. PICK a \in store.facts, b \in store.facts :
          /\ a.num = e[1] /\ b.num = e[2]
          /\ \E n \in 1 .. Len(Manifests) :
                /\ StandsFor(a, Manifests[n].name)
                /\ IF e[3] = "belongs_to" THEN StandsFor(b, Repo)
                   ELSE \E d \in Manifests[n].deps : StandsFor(b, d)
  BY DEF EdgeTrue
<1>2. PICK n \in 1 .. Len(Manifests) :
          /\ StandsFor(a, Manifests[n].name)
          /\ IF e[3] = "belongs_to" THEN StandsFor(b, Repo)
             ELSE \E d \in Manifests[n].deps : StandsFor(b, d)
  BY <1>1
<1>3. a \in store'.facts /\ b \in store'.facts
  OBVIOUS
<1>4. \A g, k : StandsFor(g, k) => StandsFor(g, k)'
  BY StandsOn
<1>5. StandsFor(a, Manifests[n].name)'
  BY <1>2, <1>4
<1>6. IF e[3] = "belongs_to" THEN StandsFor(b, Repo)'
      ELSE \E d \in Manifests[n].deps : StandsFor(b, d)'
  BY <1>2, <1>4
<1>7. QED
  BY <1>1, <1>3, <1>5, <1>6 DEF EdgeTrue

LEMMA EdgesAsEdges == EdgesAreTrue <=> \A e \in store.edges : EdgeTrue(e)
BY DEF EdgesAreTrue, EdgeTrue

\* A batch of facts, of which some were written: what there are then.
LEMMA WrittenFacts ==
    ASSUME IngesterTyped, DuplicatesHaveAReason, RoomForOneMore, PlanFits, ing.pc = "facts",
           NEW written, written \subseteq Unresolved,
           NEW stock, stock = store.facts \union Numbered(written)
    PROVE  /\ IsFiniteSet(stock) /\ Cardinality(written) \in Nat
           /\ \A f \in stock : f.num \in Nat /\ f.num < store.next + Cardinality(written)
           /\ \A key, text :
                 /\ Cardinality(SameIn(stock, key, text)) \in Nat
                 /\ Cardinality(SameIn(stock, key, text)) <= 1 + history.lost + history.undeduped
           /\ \A f \in Unresolved \ written :
                 Cardinality(SameIn(stock, f.key, f.text)) <= history.lost + history.undeduped
<1>. DEFINE new == Numbered(written)
<1>1. /\ store.next \in Nat /\ IsFiniteSet(store.facts)
      /\ history.lost \in Nat /\ history.undeduped \in Nat
      /\ \A f \in store.facts : f.num \in Nat /\ f.num < store.next
  BY DEF IngesterTyped
<1>2. /\ IsFiniteSet(written) /\ Cardinality(written) \in Nat
      /\ \A f \in written : f = [key |-> f.key, text |-> f.text]
      /\ \A f \in Unresolved : f = [key |-> f.key, text |-> f.text]
  <2>1. written \subseteq ing.plan /\ Unresolved \subseteq ing.plan
    BY DEF Unresolved
  <2>2. QED
    BY <2>1, FS_Subset, FS_CardinalityType DEF PlanFits
<1>3. /\ IsFiniteSet(new)
      /\ \A g \in new : /\ g.num \in Nat /\ g.num < store.next + Cardinality(written)
                        /\ [key |-> g.key, text |-> g.text] \in written
      /\ \A g, h \in new : g.key = h.key /\ g.text = h.text => g = h
  BY <1>1, <1>2, NumberedFacts
<1>4. stock = store.facts \union new
  OBVIOUS
<1>. HIDE DEF new
<1>5. IsFiniteSet(stock)
  <2>1. IsFiniteSet(store.facts \union new)
    BY <1>1, <1>3, FS_Union
  <2>2. QED
    BY <1>4, <2>1
<1>6. ASSUME NEW f \in stock
      PROVE  f.num \in Nat /\ f.num < store.next + Cardinality(written)
  <2>1. CASE f \in store.facts
    <3>1. f.num \in Nat /\ f.num < store.next
      BY <1>1, <2>1
    <3>2. QED
      BY <1>1, <1>2, <3>1
  <2>2. CASE f \in new
    BY <1>3, <2>2
  <2>3. QED
    BY <1>4, <2>1, <2>2
<1>7. ASSUME NEW key, NEW text, [key |-> key, text |-> text] \notin written
      PROVE  SameIn(stock, key, text) = Copies(key, text)
  BY <1>3, <1>4, <1>7 DEF Copies, SameIn
<1>8. ASSUME NEW key, NEW text
      PROVE  Cardinality(SameIn(stock, key, text)) <= Cardinality(Copies(key, text)) + 1
  <2>1. IsFiniteSet(Copies(key, text)) /\ Cardinality(Copies(key, text)) \in Nat
    BY CopiesBound
  <2>2. CASE \E g \in new : g.key = key /\ g.text = text
    <3>1. PICK g \in new : g.key = key /\ g.text = text
      BY <2>2
    <3>2. SameIn(stock, key, text) = Copies(key, text) \union {g}
      BY <1>3, <1>4, <3>1 DEF Copies, SameIn
    <3>. DEFINE before == Copies(key, text)
    <3>3. IsFiniteSet(before) /\ Cardinality(before) \in Nat
      BY <2>1
    <3>. HIDE DEF before
    <3>4. Cardinality(before \union {g}) <= Cardinality(before) + 1
      BY <3>3, FS_AddElement
    <3>5. QED
      BY <3>2, <3>4 DEF before
  <2>3. CASE ~\E g \in new : g.key = key /\ g.text = text
    <3>1. SameIn(stock, key, text) = Copies(key, text)
      BY <1>4, <2>3 DEF Copies, SameIn
    <3>2. QED
      BY <2>1, <3>1
  <2>4. QED
    BY <2>2, <2>3
<1>9. ASSUME NEW key, NEW text
      PROVE  Cardinality(SameIn(stock, key, text)) \in Nat
  BY <1>5, FS_Subset, FS_CardinalityType DEF SameIn
<1>10. ASSUME NEW f \in Unresolved
       PROVE  /\ Cardinality(Copies(f.key, f.text)) \in Nat
              /\ Cardinality(Copies(f.key, f.text)) <= history.lost + history.undeduped
  BY CopiesBound DEF RoomForOneMore
<1>11. ASSUME NEW f \in Unresolved \ written
       PROVE  Cardinality(SameIn(stock, f.key, f.text)) <= history.lost + history.undeduped
  <2>1. f = [key |-> f.key, text |-> f.text]
    BY <1>2
  <2>2. SameIn(stock, f.key, f.text) = Copies(f.key, f.text)
    BY <1>7, <2>1
  <2>3. QED
    BY <1>10, <2>2
<1>12. ASSUME NEW key, NEW text
       PROVE  Cardinality(SameIn(stock, key, text)) <= 1 + history.lost + history.undeduped
  <2>1. CASE [key |-> key, text |-> text] \in written
    <3>. DEFINE f == [key |-> key, text |-> text]
    <3>1. f \in Unresolved /\ f.key = key /\ f.text = text
      BY <2>1
    <3>. HIDE DEF f
    <3>2. /\ Cardinality(Copies(key, text)) \in Nat
          /\ Cardinality(Copies(key, text)) <= history.lost + history.undeduped
      BY <1>10, <3>1
    <3>3. /\ Cardinality(SameIn(stock, key, text)) <= Cardinality(Copies(key, text)) + 1
          /\ Cardinality(SameIn(stock, key, text)) \in Nat
      BY <1>8, <1>9
    <3>4. QED
      BY <1>1, <3>2, <3>3
  <2>2. CASE [key |-> key, text |-> text] \notin written
    <3>1. SameIn(stock, key, text) = Copies(key, text)
      BY <1>7, <2>2
    <3>2. QED
      BY CopiesBound, <3>1
  <2>3. QED
    BY <2>1, <2>2
<1>13. QED
  BY <1>2, <1>5, <1>6, <1>9, <1>11, <1>12

-----------------------------------------------------------------------------
(* The codebase ingester: its steps.                                        *)

LEMMA IngesterBounds ==
    /\ MaxAttempts \in Nat
    /\ 0 \in 0 .. MaxAttempts
BY IngesterAssumption

LEMMA InitIngesterInv == IngestCodebaseInit => IngesterInv
<1>. SUFFICES ASSUME IngestCodebaseInit
              PROVE  IngesterInv
  OBVIOUS
<1>1. /\ store = [facts |-> {}, edges |-> {}, next |-> 1]
      /\ ing = [pc |-> "idle", plan |-> {}, links |-> {}, ids |-> <<>>, todo |-> {}, tries |-> 0]
      /\ history = [edits |-> 0, runs |-> 0, lost |-> 0, refused |-> 0, undeduped |-> 0,
                   taken |-> {}]
  BY DEF IngestCodebaseInit, Rest
<1>2. /\ store.facts = {} /\ store.edges = {} /\ store.next = 1
      /\ ing.pc = "idle" /\ ing.plan = {} /\ ing.links = {} /\ ing.ids = <<>> /\ ing.todo = {}
      /\ ing.tries = 0
      /\ history.lost = 0 /\ history.undeduped = 0
  BY <1>1
<1>3. IsFiniteSet({})
  BY FS_EmptySet
<1>4. IngesterTyped
  BY <1>1, <1>2, <1>3, IngesterBounds DEF IngesterTyped
<1>5. PlanFits
  BY <1>2, <1>3 DEF PlanFits
<1>6. IdsTrue /\ TodoTrue /\ EdgesAreTrue /\ RoomForOneMore /\ DuplicatesHaveAReason
  BY <1>2 DEF IdsTrue, TodoTrue, EdgesAreTrue, RoomForOneMore, DuplicatesHaveAReason
<1>7. QED
  BY <1>4, <1>5, <1>6 DEF IngesterInv

\* What an ingester that has ended still promises.
LEMMA AtRest ==
    ASSUME ing' = Rest
    PROVE  /\ PlanFits' /\ IdsTrue' /\ TodoTrue' /\ RoomForOneMore'
           /\ ing' = [pc |-> ing'.pc, plan |-> ing'.plan, links |-> ing'.links, ids |-> ing'.ids,
                      todo |-> ing'.todo, tries |-> ing'.tries]
           /\ ing'.pc = "idle" /\ ing'.tries = 0
<1>1. /\ ing'.pc = "idle" /\ ing'.plan = {} /\ ing'.links = {} /\ ing'.ids = <<>>
      /\ ing'.todo = {} /\ ing'.tries = 0
  BY DEF Rest
<1>2. IsFiniteSet({})
  BY FS_EmptySet
<1>3. PlanFits'
  BY <1>1, <1>2 DEF PlanFits
<1>4. IdsTrue' /\ TodoTrue' /\ RoomForOneMore'
  BY <1>1 DEF IdsTrue, TodoTrue, RoomForOneMore
<1>5. QED
  BY <1>1, <1>3, <1>4 DEF Rest

LEMMA EdgesStay ==
    ASSUME EdgesAreTrue, store.facts \subseteq store'.facts, store'.edges = store.edges,
           history.taken \subseteq history'.taken
    PROVE  EdgesAreTrue'
<1>1. \A e \in store.edges : EdgeTrue(e)'
  BY MoreFacts, EdgesAsEdges
<1>2. QED
  BY <1>1 DEF EdgesAreTrue, EdgeTrue

LEMMA DuplicatesStay ==
    ASSUME IngesterTyped, DuplicatesHaveAReason, store'.facts = store.facts,
           history'.lost \in Nat, history'.lost >= history.lost,
           history'.undeduped \in Nat, history'.undeduped >= history.undeduped
    PROVE  DuplicatesHaveAReason'
<1>. SUFFICES ASSUME NEW f \in store.facts
              PROVE  Cardinality({g \in store.facts : Identical(g, f)})
                         <= 1 + history'.lost + history'.undeduped
  BY DEF DuplicatesHaveAReason, Identical
<1>1. /\ Cardinality(Copies(f.key, f.text)) \in Nat
      /\ Cardinality(Copies(f.key, f.text)) <= 1 + history.lost + history.undeduped
  BY CopiesBound
<1>2. Copies(f.key, f.text) = {g \in store.facts : Identical(g, f)}
  BY DEF Copies, SameIn, Identical
<1>3. history.lost \in Nat /\ history.undeduped \in Nat
  BY DEF IngesterTyped
<1>4. QED
  BY <1>1, <1>2, <1>3

\* Where neither the memory nor what searches took changes, all of it stays as true.
LEMMA NothingStored ==
    ASSUME store'.facts = store.facts, store'.edges = store.edges,
           history'.taken = history.taken, history'.lost = history.lost,
           history'.undeduped = history.undeduped
    PROVE  /\ EdgesAreTrue => EdgesAreTrue'
           /\ DuplicatesHaveAReason => DuplicatesHaveAReason'
           /\ \A e : EdgeTrue(e) => EdgeTrue(e)'
<1>1. EdgesAreTrue => EdgesAreTrue'
  BY EdgesStay
<1>2. \A e : EdgeTrue(e) => EdgeTrue(e)'
  BY MoreFacts
<1>3. DuplicatesHaveAReason => DuplicatesHaveAReason'
  BY DEF DuplicatesHaveAReason, Identical
<1>4. QED
  BY <1>1, <1>2, <1>3

LEMMA EditManifestInv == IngesterInv /\ EditManifest => IngesterInv'
<1>. SUFFICES ASSUME IngesterInv, EditManifest
              PROVE  IngesterInv'
  OBVIOUS
<1>1. store' = store /\ ing' = ing
  BY DEF EditManifest
<1>2. IngesterTyped
  BY DEF IngesterInv
<1>3. /\ history' = [edits |-> history.edits + 1, runs |-> history.runs, lost |-> history.lost,
                     refused |-> history.refused, undeduped |-> history.undeduped,
                     taken |-> history.taken]
      /\ history.lost \in Nat /\ history.undeduped \in Nat
  BY <1>2 DEF EditManifest, IngesterTyped
<1>4. /\ history'.lost = history.lost /\ history'.undeduped = history.undeduped
      /\ history'.taken = history.taken
  BY <1>3
<1>5. IngesterTyped'
  BY <1>1, <1>2, <1>3, <1>4 DEF IngesterTyped
<1>6. /\ store'.facts = store.facts /\ store'.edges = store.edges
      /\ EdgesAreTrue /\ DuplicatesHaveAReason /\ TodoTrue /\ IdsTrue /\ PlanFits
  BY <1>1 DEF IngesterInv
<1>7. /\ EdgesAreTrue' /\ DuplicatesHaveAReason'
      /\ \A e : EdgeTrue(e) => EdgeTrue(e)'
  BY <1>4, <1>6, NothingStored
<1>8. TodoTrue'
  BY <1>1, <1>6, <1>7 DEF TodoTrue
<1>9. PlanFits' /\ IdsTrue'
  BY <1>1, <1>4, <1>6 DEF PlanFits, LinkTrue, IdsTrue, StandsFor
<1>10. RoomForOneMore'
  BY <1>1, <1>4 DEF IngesterInv, RoomForOneMore, Unresolved, Copies, SameIn
<1>11. QED
  BY <1>5, <1>7, <1>8, <1>9, <1>10 DEF IngesterInv

LEMMA StartIngesterInv ==
    ASSUME NEW dedupe \in BOOLEAN, IngesterInv, StartIngester(dedupe)
    PROVE  IngesterInv'
<1>1. /\ store' = store /\ IngesterTyped /\ DuplicatesHaveAReason /\ EdgesAreTrue
      /\ history.lost \in Nat /\ history.undeduped \in Nat
  BY DEF StartIngester, IngesterInv, IngesterTyped
<1>2. ing' = [pc |-> IF dedupe THEN "search" ELSE "facts", plan |-> PlannedFacts,
              links |-> PlannedLinks, ids |-> <<>>, todo |-> {}, tries |-> 0]
  BY DEF StartIngester, Rest
<1>3. /\ ing'.pc = IF dedupe THEN "search" ELSE "facts"
      /\ ing'.plan = PlannedFacts /\ ing'.links = PlannedLinks /\ ing'.ids = <<>>
      /\ ing'.todo = {} /\ ing'.tries = 0
  BY <1>2
<1>4. history' = [edits |-> history.edits, runs |-> history.runs + 1, lost |-> history.lost,
                  refused |-> history.refused,
                  undeduped |-> IF dedupe THEN history.undeduped ELSE history.undeduped + 1,
                  taken |-> history.taken]
  BY <1>1 DEF StartIngester, IngesterTyped
<1>5. /\ history'.lost = history.lost
      /\ history'.undeduped = IF dedupe THEN history.undeduped ELSE history.undeduped + 1
      /\ history'.taken = history.taken
  BY <1>4
<1>6. history'.undeduped \in Nat /\ history'.undeduped >= history.undeduped
  BY <1>1, <1>5
<1>7. IngesterTyped'
  BY <1>1, <1>2, <1>3, <1>4, <1>5, <1>6, IngesterBounds DEF IngesterTyped
<1>8. IsFiniteSet({})
  BY FS_EmptySet
<1>9. PlanFits'
  <2>1. /\ IsFiniteSet(PlannedFacts) /\ IsFiniteSet(PlannedLinks)
        /\ \A f \in PlannedFacts : f = [key |-> f.key, text |-> f.text]
        /\ \A l \in PlannedLinks : LinkTrue(l)
    BY PlannedFactsFinite, PlannedLinksFinite
  <2>2. \A l \in PlannedLinks : LinkTrue(l)'
    BY <2>1 DEF LinkTrue
  <2>3. QED
    BY <1>3, <1>8, <2>1, <2>2 DEF PlanFits
<1>10. IdsTrue' /\ TodoTrue'
  BY <1>3 DEF IdsTrue, TodoTrue
<1>11. EdgesAreTrue'
  BY <1>1, <1>5, EdgesStay
<1>12. DuplicatesHaveAReason'
  BY <1>1, <1>5, <1>6, DuplicatesStay
<1>13. RoomForOneMore'
  <2>1. CASE dedupe
    BY <1>3, <2>1 DEF RoomForOneMore
  <2>2. CASE ~dedupe
    <3>. SUFFICES ASSUME NEW f
                  PROVE  (Cardinality(Copies(f.key, f.text)) <= history.lost + history.undeduped)'
      BY DEF RoomForOneMore
    <3>1. /\ Cardinality(Copies(f.key, f.text)) \in Nat
          /\ Cardinality(Copies(f.key, f.text)) <= 1 + history.lost + history.undeduped
      BY <1>1, CopiesBound
    <3>2. Copies(f.key, f.text)' = Copies(f.key, f.text)
      BY <1>1 DEF Copies, SameIn
    <3>3. history'.undeduped = history.undeduped + 1
      BY <1>5, <2>2
    <3>4. QED
      BY <1>1, <1>5, <3>1, <3>2, <3>3
  <2>3. QED
    BY <2>1, <2>2
<1>14. QED
  BY <1>7, <1>9, <1>10, <1>11, <1>12, <1>13 DEF IngesterInv

\* A set that is not empty has a member to count.
LEMMA AtLeastOne ==
    ASSUME NEW S, IsFiniteSet(S), NEW x \in S
    PROVE  Cardinality(S) \in Nat /\ Cardinality(S) >= 1
<1>1. Cardinality(S) \in Nat
  BY FS_CardinalityType
<1>2. Cardinality(S) # 0
  BY FS_EmptySet
<1>3. QED
  BY <1>1, <1>2

LEMMA FindExistingInv == IngesterInv /\ FindExisting => IngesterInv'
<1>. SUFFICES ASSUME IngesterInv, FindExisting
              PROVE  IngesterInv'
  OBVIOUS
<1>. DEFINE Missed(found) == {f \in ing.plan \ found : \E g \in store.facts : Identical(g, f)}
            Alike(found, top) == {f \in found : ~Identical(top[f], f)}
            Ids(found, top) == [k \in {f.key : f \in found} |->
                                    top[CHOOSE f \in found : f.key = k].num]
<1>1. PICK asked \in SUBSET {f \in ing.plan : Matches(f) # {}} :
        \E best \in [asked -> store.facts] :
             /\ \A f \in asked : best[f] \in Matches(f)
             /\ ing' = [ing EXCEPT !.pc = "facts", !.ids = Ids(asked, best)]
             /\ history' = [history EXCEPT
                               !.lost = history.lost + Cardinality(Missed(asked)),
                               !.taken = history.taken \union
                                   {<<f.key, best[f].num>> : f \in Alike(asked, best)}]
  BY DEF FindExisting
<1>2. PICK best \in [asked -> store.facts] :
          /\ \A f \in asked : best[f] \in Matches(f)
          /\ ing' = [ing EXCEPT !.pc = "facts", !.ids = Ids(asked, best)]
          /\ history' = [history EXCEPT
                            !.lost = history.lost + Cardinality(Missed(asked)),
                            !.taken = history.taken \union
                                {<<f.key, best[f].num>> : f \in Alike(asked, best)}]
  BY <1>1
<1>. DEFINE unanswered == Cardinality(Missed(asked))
            taken == history.taken \union
                         {<<f.key, best[f].num>> : f \in Alike(asked, best)}
<1>. DEFINE found == [k \in {f.key : f \in asked} |-> best[CHOOSE f \in asked : f.key = k].num]
<1>3. /\ store' = store /\ IngesterTyped /\ PlanFits /\ DuplicatesHaveAReason /\ EdgesAreTrue
      /\ history.lost \in Nat /\ history.undeduped \in Nat /\ TodoTrue
  BY DEF FindExisting, IngesterInv, IngesterTyped
<1>4. ing' = [pc |-> "facts", plan |-> ing.plan, links |-> ing.links, ids |-> found,
              todo |-> ing.todo, tries |-> ing.tries]
  <2>1. ing' = [ing EXCEPT !.pc = "facts", !.ids = found]
    BY <1>2
  <2>2. ing = [pc |-> ing.pc, plan |-> ing.plan, links |-> ing.links, ids |-> ing.ids,
               todo |-> ing.todo, tries |-> ing.tries]
    BY <1>3 DEF IngesterTyped
  <2>. HIDE DEF found
  <2>3. QED
    BY <2>1, <2>2
<1>5. /\ asked \subseteq ing.plan
      /\ IsFiniteSet(Missed(asked)) /\ unanswered \in Nat
  <2>1. IsFiniteSet(ing.plan)
    BY <1>3 DEF PlanFits
  <2>2. Missed(asked) \subseteq ing.plan
    OBVIOUS
  <2>3. IsFiniteSet(Missed(asked))
    BY <2>1, <2>2, FS_Subset
  <2>. HIDE DEF Missed
  <2>4. QED
    BY <2>3, FS_CardinalityType
<1>6. /\ \A k \in DOMAIN found : \E g \in store.facts :
            (g.key = k \/ <<k, g.num>> \in taken) /\ g.num = found[k]
      /\ \A f \in asked : f.key \in DOMAIN found
  <2>1. DOMAIN found = {f.key : f \in asked}
    OBVIOUS
  <2>2. ASSUME NEW k \in {f.key : f \in asked}
        PROVE  \E g \in store.facts :
                  (g.key = k \/ <<k, g.num>> \in taken) /\ g.num = found[k]
    <3>. DEFINE f == CHOOSE f \in asked : f.key = k
    <3>1. f \in asked /\ f.key = k
      OBVIOUS
    <3>2. found[k] = best[f].num
      OBVIOUS
    <3>. HIDE DEF f, found
    <3>3. best[f] \in store.facts
      BY <1>2, <3>1
    <3>4. CASE Identical(best[f], f)
      BY <3>1, <3>2, <3>3, <3>4 DEF Identical
    <3>5. CASE ~Identical(best[f], f)
      <4>1. <<f.key, best[f].num>> \in taken
        BY <3>1, <3>5
      <4>2. QED
        BY <3>1, <3>2, <3>3, <4>1
    <3>6. QED
      BY <3>4, <3>5
  <2>3. QED
    BY <2>1, <2>2
<1>. HIDE DEF found
<1>7. /\ ing'.pc = "facts" /\ ing'.plan = ing.plan /\ ing'.links = ing.links
      /\ ing'.ids = found /\ ing'.todo = ing.todo /\ ing'.tries = ing.tries
  BY <1>4
<1>. HIDE DEF unanswered, taken
<1>8. /\ history' = [edits |-> history.edits, runs |-> history.runs,
                     lost |-> history.lost + unanswered,
                     refused |-> history.refused, undeduped |-> history.undeduped,
                     taken |-> taken]
  <2>1. history' = [history EXCEPT !.lost = history.lost + unanswered, !.taken = taken]
    BY <1>2 DEF unanswered, taken
  <2>2. QED
    BY <1>3, <2>1 DEF IngesterTyped
<1>9. /\ history'.lost = history.lost + unanswered /\ history'.undeduped = history.undeduped
      /\ history'.lost \in Nat /\ history'.lost >= history.lost
      /\ history'.taken = taken /\ history.taken \subseteq taken
  BY <1>3, <1>5, <1>8 DEF taken
<1>10. IngesterTyped'
  BY <1>3, <1>4, <1>7, <1>8, <1>9 DEF IngesterTyped
<1>11. PlanFits'
  BY <1>3, <1>7 DEF PlanFits, LinkTrue
<1>12. IdsTrue'
  BY <1>3, <1>6, <1>7, <1>9 DEF IdsTrue, StandsFor
<1>13. TodoTrue'
  <2>1. \A e : EdgeTrue(e) => EdgeTrue(e)'
    BY <1>3, <1>9, MoreFacts
  <2>2. QED
    BY <1>3, <1>7, <2>1 DEF TodoTrue
<1>14. EdgesAreTrue'
  BY <1>3, <1>9, EdgesStay
<1>15. DuplicatesHaveAReason'
  BY <1>3, <1>9, DuplicatesStay
<1>16. ASSUME NEW f \in ing.plan, f.key \notin DOMAIN found
       PROVE  Cardinality(Copies(f.key, f.text)) <= history'.lost + history.undeduped
  <2>1. /\ Cardinality(Copies(f.key, f.text)) \in Nat
        /\ Cardinality(Copies(f.key, f.text)) <= 1 + history.lost + history.undeduped
    BY <1>3, CopiesBound
  <2>2. f \notin asked
    BY <1>6, <1>16
  <2>3. CASE Copies(f.key, f.text) = {}
    <3>1. Cardinality(Copies(f.key, f.text)) = 0
      BY <2>3, FS_EmptySet
    <3>2. QED
      BY <1>3, <1>9, <3>1
  <2>4. CASE Copies(f.key, f.text) # {}
    <3>1. PICK g \in store.facts : Identical(g, f)
      BY <2>4 DEF Copies, SameIn, Identical
    <3>2. f \in Missed(asked)
      BY <2>2, <3>1
    <3>3. unanswered >= 1
      <4>. HIDE DEF Missed
      <4>1. QED
        BY <1>5, <3>2, AtLeastOne DEF unanswered
    <3>4. QED
      BY <1>3, <1>5, <1>9, <2>1, <3>3
  <2>5. QED
    BY <2>3, <2>4
<1>17. RoomForOneMore'
  <2>1. Unresolved' = {f \in ing.plan : f.key \notin DOMAIN found}
    BY <1>7 DEF Unresolved
  <2>2. \A key, text : Copies(key, text)' = Copies(key, text)
    BY <1>3 DEF Copies, SameIn
  <2>3. QED
    BY <1>9, <1>16, <2>1, <2>2 DEF RoomForOneMore
<1>18. QED
  BY <1>10, <1>11, <1>12, <1>13, <1>14, <1>15, <1>17 DEF IngesterInv

LEMMA PlanEdgesInv == IngesterInv /\ PlanEdges => IngesterInv'
<1>. SUFFICES ASSUME IngesterInv, PlanEdges
              PROVE  IngesterInv'
  OBVIOUS
<1>1. /\ store' = store /\ history' = history /\ IngesterTyped /\ PlanFits /\ IdsTrue
      /\ EdgesAreTrue /\ DuplicatesHaveAReason
  BY DEF PlanEdges, IngesterInv
<1>2. EdgesAreTrue' /\ DuplicatesHaveAReason'
  BY <1>1, NothingStored
<1>3. CASE ing' = Rest
  <2>1. IngesterTyped'
    BY <1>1, <1>3, AtRest, IngesterBounds DEF IngesterTyped
  <2>2. QED
    BY <1>2, <1>3, <2>1, AtRest DEF IngesterInv
<1>4. CASE ing' # Rest
  <2>. DEFINE ids == ing.ids
              known == {l \in ing.links : l[1] \in DOMAIN ids /\ l[2] \in DOMAIN ids}
              edge == [l \in known |-> <<ids[l[1]], ids[l[2]], l[3]>>]
              todo == {edge[l] : l \in known}
  <2>1. ing' = [pc |-> "edges", plan |-> {}, links |-> {}, ids |-> <<>>, todo |-> todo,
                tries |-> 0]
    BY <1>4 DEF PlanEdges, Rest
  <2>2. IsFiniteSet(known)
    BY <1>1, FS_Subset DEF PlanFits
  <2>3. edge = [l \in known |-> edge[l]]
    OBVIOUS
  <2>4. ASSUME NEW l \in known
        PROVE  EdgeTrue(edge[l])
    <3>1. edge[l] = <<ids[l[1]], ids[l[2]], l[3]>>
      OBVIOUS
    <3>2. PICK a \in store.facts : StandsFor(a, l[1]) /\ a.num = ids[l[1]]
      BY <1>1 DEF IdsTrue
    <3>3. PICK b \in store.facts : StandsFor(b, l[2]) /\ b.num = ids[l[2]]
      BY <1>1 DEF IdsTrue
    <3>4. LinkTrue(l)
      BY <1>1 DEF PlanFits
    <3>. HIDE DEF edge
    <3>5. QED
      BY <3>1, <3>2, <3>3, <3>4 DEF LinkTrue, EdgeTrue
  <2>. HIDE DEF edge
  <2>5. IsFiniteSet(todo)
    <3>. HIDE DEF known
    <3>1. QED
      BY <2>2, <2>3, ImageOfFinite
  <2>6. \A e \in todo : EdgeTrue(e)
    BY <2>4
  <2>. HIDE DEF todo
  <2>7. /\ ing'.pc = "edges" /\ ing'.plan = {} /\ ing'.links = {} /\ ing'.ids = <<>>
        /\ ing'.todo = todo /\ ing'.tries = 0
    BY <2>1
  <2>8. IngesterTyped'
    BY <1>1, <2>1, <2>7, IngesterBounds DEF IngesterTyped
  <2>9. IsFiniteSet({})
    BY FS_EmptySet
  <2>10. PlanFits' /\ IdsTrue' /\ RoomForOneMore'
    BY <2>5, <2>7, <2>9 DEF PlanFits, IdsTrue, RoomForOneMore
  <2>11. TodoTrue'
    <3>1. \A e : EdgeTrue(e) => EdgeTrue(e)'
      BY <1>1, NothingStored
    <3>2. QED
      BY <2>6, <2>7, <3>1 DEF TodoTrue
  <2>12. QED
    BY <1>2, <2>8, <2>10, <2>11 DEF IngesterInv
<1>5. QED
  BY <1>3, <1>4

LEMMA FinishInv == IngesterInv /\ Finish => IngesterInv'
<1>. SUFFICES ASSUME IngesterInv, Finish
              PROVE  IngesterInv'
  OBVIOUS
<1>1. store' = store /\ history' = history /\ ing' = Rest
  BY DEF Finish
<1>2. EdgesAreTrue' /\ DuplicatesHaveAReason'
  BY <1>1, NothingStored DEF IngesterInv
<1>3. IngesterTyped'
  BY <1>1, AtRest, IngesterBounds DEF IngesterInv, IngesterTyped
<1>4. QED
  BY <1>1, <1>2, <1>3, AtRest DEF IngesterInv

\* A batch of facts keeps every fact, edge and id as true as it was.
LEMMA FactsStored ==
    ASSUME IngesterInv, ing.pc = "facts", NEW written, written \subseteq Unresolved,
           store' = [facts |-> store.facts \union Numbered(written), edges |-> store.edges,
                     next |-> store.next + Cardinality(written)],
           history'.lost \in Nat, history'.lost >= history.lost,
           history'.undeduped = history.undeduped, history'.taken = history.taken
    PROVE  /\ store' = [facts |-> store'.facts, edges |-> store'.edges, next |-> store'.next]
           /\ store'.next \in Nat /\ IsFiniteSet(store'.facts)
           /\ store'.facts = store.facts \union Numbered(written)
           /\ \A f \in store'.facts : f.num \in Nat /\ f.num < store'.next
           /\ EdgesAreTrue' /\ DuplicatesHaveAReason'
           /\ Cardinality(written) \in Nat
<1>. DEFINE stock == store.facts \union Numbered(written)
            upTo == store.next + Cardinality(written)
<1>1. /\ IngesterTyped /\ PlanFits /\ RoomForOneMore /\ DuplicatesHaveAReason /\ EdgesAreTrue
      /\ store = [facts |-> store.facts, edges |-> store.edges, next |-> store.next]
      /\ store.next \in Nat /\ history.lost \in Nat /\ history.undeduped \in Nat
  BY DEF IngesterInv, IngesterTyped
<1>2. stock = store.facts \union Numbered(written)
  OBVIOUS
<1>3. store' = [facts |-> stock, edges |-> store.edges, next |-> upTo]
  OBVIOUS
<1>. HIDE DEF stock
<1>4. /\ IsFiniteSet(stock) /\ Cardinality(written) \in Nat
      /\ \A f \in stock : f.num \in Nat /\ f.num < store.next + Cardinality(written)
      /\ \A key, text :
            /\ Cardinality(SameIn(stock, key, text)) \in Nat
            /\ Cardinality(SameIn(stock, key, text)) <= 1 + history.lost + history.undeduped
  BY <1>1, <1>2, WrittenFacts
<1>5. upTo \in Nat
  BY <1>1, <1>4
<1>6. \A f \in stock : f.num \in Nat /\ f.num < upTo
  BY <1>4
<1>. HIDE DEF upTo
<1>8. store'.facts = stock /\ store'.edges = store.edges /\ store'.next = upTo
  BY <1>3
<1>9. EdgesAreTrue'
  BY <1>1, <1>2, <1>8, EdgesStay
<1>10. DuplicatesHaveAReason'
  <2>1. ASSUME NEW f \in stock
        PROVE  Cardinality({g \in stock : Identical(g, f)})
                   <= 1 + history'.lost + history'.undeduped
    <3>1. /\ Cardinality(SameIn(stock, f.key, f.text)) \in Nat
          /\ Cardinality(SameIn(stock, f.key, f.text)) <= 1 + history.lost + history.undeduped
      BY <1>4
    <3>2. SameIn(stock, f.key, f.text) = {g \in stock : Identical(g, f)}
      BY DEF SameIn, Identical
    <3>3. QED
      BY <1>1, <3>1, <3>2
  <2>2. QED
    BY <1>8, <2>1 DEF DuplicatesHaveAReason, Identical
<1>11. QED
  BY <1>2, <1>3, <1>4, <1>5, <1>6, <1>8, <1>9, <1>10

\* What a batch wrote and did not acknowledge counts among what is lost.
LEMMA UnheardIsLost ==
    ASSUME NEW written, IsFiniteSet(written), store.next \in Nat,
           \A f \in written : f = [key |-> f.key, text |-> f.text],
           NEW heard \in Served(Numbered(written))
    PROVE  /\ Cardinality(heard) \in Nat /\ Cardinality(heard) <= Cardinality(written)
           /\ heard \subseteq Numbered(written)
           /\ \A f \in written : f.key \in {g.key : g \in heard}
                  \/ Cardinality(heard) + 1 <= Cardinality(written)
<1>1. /\ IsFiniteSet(Numbered(written))
      /\ Cardinality(Numbered(written)) <= Cardinality(written)
      /\ \A f \in written : \E g \in Numbered(written) : g.key = f.key /\ g.text = f.text
  BY NumberedFacts
<1>2. heard \subseteq Numbered(written)
  BY <1>1, ServedPart
<1>3. /\ Cardinality(heard) \in Nat /\ Cardinality(heard) <= Cardinality(Numbered(written))
      /\ Cardinality(Numbered(written)) \in Nat /\ Cardinality(written) \in Nat
  BY <1>1, <1>2, FS_Subset, FS_CardinalityType
<1>4. ASSUME NEW f \in written, f.key \notin {g.key : g \in heard}
      PROVE  Cardinality(heard) + 1 <= Cardinality(written)
  <2>1. PICK g \in Numbered(written) : g.key = f.key
    BY <1>1
  <2>2. g \notin heard
    BY <1>4, <2>1
  <2>3. Cardinality(heard) < Cardinality(Numbered(written))
    <3>1. heard # Numbered(written)
      BY <2>1, <2>2
    <3>2. Cardinality(heard) # Cardinality(Numbered(written))
      BY <1>1, <1>2, <3>1, FS_Subset
    <3>3. QED
      BY <1>3, <3>2
  <2>4. QED
    BY <1>1, <1>3, <2>3
<1>5. QED
  BY <1>1, <1>2, <1>3, <1>4

LEMMA AddFactsInv == IngesterInv /\ AddFacts => IngesterInv'
<1>. SUFFICES ASSUME IngesterInv, AddFacts
              PROVE  IngesterInv'
  OBVIOUS
<1>. DEFINE Step(served, refused) ==
                \E heard \in Served(Numbered(served \ refused)) :
                  /\ store' = [store EXCEPT
                                 !.facts = store.facts \union Numbered(served \ refused),
                                 !.next = store.next + Cardinality(served \ refused)]
                  /\ ing' = [ing EXCEPT !.tries = ing.tries + 1,
                                        !.ids = Extended(ing.ids, IdsHeard(Unresolved, heard))]
                  /\ history' = [history EXCEPT
                                   !.lost = history.lost + Cardinality(served \ refused)
                                                - Cardinality(heard),
                                   !.refused = history.refused + Cardinality(refused)]
<1>0. PICK served \in Served(Unresolved) : \E refused \in Refused(served) : Step(served, refused)
  BY DEF AddFacts
<1>1. PICK refused \in Refused(served) : Step(served, refused)
  BY <1>0
<1>. DEFINE written == served \ refused
<1>2. PICK heard \in Served(Numbered(written)) :
          /\ store' = [store EXCEPT !.facts = store.facts \union Numbered(written),
                                    !.next = store.next + Cardinality(written)]
          /\ ing' = [ing EXCEPT !.tries = ing.tries + 1,
                                !.ids = Extended(ing.ids, IdsHeard(Unresolved, heard))]
          /\ history' = [history EXCEPT
                            !.lost = history.lost + Cardinality(written) - Cardinality(heard),
                            !.refused = history.refused + Cardinality(refused)]
  BY <1>1
<1>3. /\ IngesterTyped /\ PlanFits /\ IdsTrue /\ TodoTrue /\ RoomForOneMore
      /\ DuplicatesHaveAReason /\ store.next \in Nat
      /\ history.lost \in Nat /\ history.undeduped \in Nat
      /\ ing.pc = "facts" /\ ing.tries \in 0 .. MaxAttempts /\ ing.tries < MaxAttempts
  BY DEF IngesterInv, IngesterTyped, AddFacts, AnotherTry
<1>4. /\ IsFiniteSet(Unresolved)
      /\ \A f \in Unresolved : f = [key |-> f.key, text |-> f.text]
  BY <1>3, FS_Subset DEF PlanFits, Unresolved
<1>5. written \subseteq Unresolved /\ IsFiniteSet(written)
  <2>1. served \subseteq Unresolved /\ IsFiniteSet(served)
    BY <1>4, ServedPart
  <2>2. QED
    BY <2>1, FS_Subset
<1>. HIDE DEF written
<1>6. /\ Cardinality(heard) \in Nat /\ Cardinality(heard) <= Cardinality(written)
      /\ heard \subseteq Numbered(written)
      /\ \A f \in written : f.key \in {g.key : g \in heard}
             \/ Cardinality(heard) + 1 <= Cardinality(written)
  BY <1>3, <1>4, <1>5, UnheardIsLost
<1>7. Cardinality(written) \in Nat
  BY <1>5, FS_CardinalityType
<1>. DEFINE lost == history.lost + Cardinality(written) - Cardinality(heard)
            answers == IdsHeard(Unresolved, heard)
            ids == Extended(ing.ids, answers)
<1>8. lost \in Nat /\ lost >= history.lost
  BY <1>3, <1>6, <1>7
<1>9. history' = [edits |-> history.edits, runs |-> history.runs, lost |-> lost,
                  refused |-> history.refused + Cardinality(refused),
                  undeduped |-> history.undeduped, taken |-> history.taken]
  BY <1>2, <1>3 DEF IngesterTyped
<1>10. /\ history'.lost = lost /\ history'.undeduped = history.undeduped
       /\ history'.taken = history.taken
  BY <1>9
<1>11. /\ store' = [facts |-> store'.facts, edges |-> store'.edges, next |-> store'.next]
       /\ store'.next \in Nat /\ IsFiniteSet(store'.facts)
       /\ store'.facts = store.facts \union Numbered(written)
       /\ \A f \in store'.facts : f.num \in Nat /\ f.num < store'.next
       /\ EdgesAreTrue' /\ DuplicatesHaveAReason'
  <2>1. history'.lost \in Nat /\ history'.lost >= history.lost
    BY <1>8, <1>10
  <2>2. store' = [facts |-> store.facts \union Numbered(written), edges |-> store.edges,
                  next |-> store.next + Cardinality(written)]
    BY <1>2, <1>3 DEF IngesterTyped
  <2>3. QED
    BY <1>3, <1>5, <1>10, <2>1, <2>2, FactsStored
<1>12. /\ DOMAIN ids = DOMAIN ing.ids \union {g.key : g \in heard}
       /\ \A k \in DOMAIN ids : \E g \in store'.facts : StandsFor(g, k) /\ g.num = ids[k]
  <2>1. DOMAIN answers = {g.key : g \in heard}
    BY DEF IdsHeard
  <2>2. ASSUME NEW k \in DOMAIN answers
        PROVE  \E g \in heard : g.key = k /\ g.num = answers[k]
    <3>. DEFINE g == CHOOSE g \in heard : g.key = k
    <3>1. g \in heard /\ g.key = k
      BY <2>1
    <3>2. answers[k] = g.num
      BY <2>1 DEF IdsHeard
    <3>3. QED
      BY <3>1, <3>2
  <2>. HIDE DEF answers
  <2>3. /\ DOMAIN ids = DOMAIN ing.ids \union DOMAIN answers
        /\ \A k \in DOMAIN ids : ids[k] = IF k \in DOMAIN answers THEN answers[k] ELSE ing.ids[k]
    BY DEF Extended
  <2>. HIDE DEF ids
  <2>4. \A k \in DOMAIN ing.ids : \E g \in store.facts : StandsFor(g, k) /\ g.num = ing.ids[k]
    BY <1>3 DEF IdsTrue
  <2>5. ASSUME NEW k \in DOMAIN ids
        PROVE  \E g \in store'.facts : StandsFor(g, k) /\ g.num = ids[k]
    <3>1. CASE k \in DOMAIN answers
      BY <1>6, <1>11, <2>2, <2>3, <3>1 DEF StandsFor
    <3>2. CASE k \notin DOMAIN answers
      BY <1>11, <2>3, <2>4, <3>2
    <3>3. QED
      BY <3>1, <3>2
  <2>6. QED
    BY <2>1, <2>3, <2>5
<1>. HIDE DEF ids, lost
<1>13. ing' = [pc |-> ing.pc, plan |-> ing.plan, links |-> ing.links, ids |-> ids,
               todo |-> ing.todo, tries |-> ing.tries + 1]
  <2>1. ing' = [ing EXCEPT !.tries = ing.tries + 1, !.ids = ids]
    BY <1>2 DEF ids
  <2>2. ing = [pc |-> ing.pc, plan |-> ing.plan, links |-> ing.links, ids |-> ing.ids,
               todo |-> ing.todo, tries |-> ing.tries]
    BY <1>3 DEF IngesterTyped
  <2>3. QED
    BY <2>1, <2>2
<1>14. /\ ing'.pc = ing.pc /\ ing'.plan = ing.plan /\ ing'.links = ing.links
       /\ ing'.ids = ids /\ ing'.todo = ing.todo /\ ing'.tries = ing.tries + 1
  BY <1>13
<1>15. ing'.tries \in 0 .. MaxAttempts
  BY <1>3, <1>14, IngesterBounds
<1>16. IngesterTyped'
  <2>1. ing'.pc \in {"idle", "search", "facts", "edges"}
    BY <1>3, <1>14
  <2>2. ing' = [pc |-> ing'.pc, plan |-> ing'.plan, links |-> ing'.links, ids |-> ing'.ids,
                todo |-> ing'.todo, tries |-> ing'.tries]
    BY <1>13, <1>14
  <2>3. history' = [edits |-> history'.edits, runs |-> history'.runs, lost |-> history'.lost,
                    refused |-> history'.refused, undeduped |-> history'.undeduped,
                    taken |-> history'.taken]
    BY <1>9
  <2>4. QED
    BY <1>3, <1>8, <1>10, <1>11, <1>15, <2>1, <2>2, <2>3 DEF IngesterTyped
<1>17. PlanFits'
  BY <1>3, <1>14 DEF PlanFits, LinkTrue
<1>18. IdsTrue'
  BY <1>10, <1>12, <1>14 DEF IdsTrue, StandsFor
<1>19. TodoTrue'
  <2>1. \A e : EdgeTrue(e) => EdgeTrue(e)'
    BY <1>10, <1>11, MoreFacts
  <2>2. \A e \in ing.todo : EdgeTrue(e)'
    BY <1>3, <2>1 DEF TodoTrue
  <2>3. QED
    BY <1>14, <2>2 DEF TodoTrue
<1>20. ASSUME NEW f \in Unresolved, f.key \notin {g.key : g \in heard}
       PROVE  Cardinality(SameIn(store'.facts, f.key, f.text)) <= lost + history.undeduped
  <2>. DEFINE stock == store'.facts
              copies == Cardinality(SameIn(stock, f.key, f.text))
  <2>1. stock = store.facts \union Numbered(written)
    BY <1>11
  <2>. HIDE DEF stock
  <2>2. /\ \A key, text :
              /\ Cardinality(SameIn(stock, key, text)) \in Nat
              /\ Cardinality(SameIn(stock, key, text)) <= 1 + history.lost + history.undeduped
        /\ \A u \in Unresolved \ written :
              Cardinality(SameIn(stock, u.key, u.text)) <= history.lost + history.undeduped
    BY <1>3, <1>5, <2>1, WrittenFacts
  <2>3. copies \in Nat /\ copies <= 1 + history.lost + history.undeduped
    BY <2>2
  <2>4. CASE f \in written
    <3>1. Cardinality(heard) + 1 <= Cardinality(written)
      BY <1>6, <1>20, <2>4
    <3>2. lost >= history.lost + 1
      BY <1>3, <1>6, <1>7, <3>1 DEF lost
    <3>. HIDE DEF copies
    <3>3. copies <= lost + history.undeduped
      BY <1>3, <1>8, <2>3, <3>2
    <3>4. QED
      BY <3>3 DEF copies, stock
  <2>5. CASE f \notin written
    <3>1. copies <= history.lost + history.undeduped
      BY <2>2, <2>5
    <3>. HIDE DEF copies
    <3>2. copies <= lost + history.undeduped
      BY <1>3, <1>8, <2>3, <3>1
    <3>3. QED
      BY <3>2 DEF copies, stock
  <2>6. QED
    BY <2>4, <2>5
<1>21. RoomForOneMore'
  <2>1. Unresolved' = {f \in ing.plan : f.key \notin DOMAIN ids}
    BY <1>14 DEF Unresolved
  <2>2. \A f \in Unresolved' : f \in Unresolved /\ f.key \notin {g.key : g \in heard}
    BY <1>12, <2>1 DEF Unresolved
  <2>3. \A key, text : Copies(key, text)' = SameIn(store'.facts, key, text)
    BY DEF Copies, SameIn
  <2>4. QED
    BY <1>10, <1>20, <2>2, <2>3 DEF RoomForOneMore
<1>22. QED
  BY <1>11, <1>16, <1>17, <1>18, <1>19, <1>21 DEF IngesterInv

\* A batch of edges that say what manifests say.
LEMMA EdgesStored ==
    ASSUME IngesterInv, NEW written, written \subseteq ing.todo,
           store' = [facts |-> store.facts, edges |-> store.edges \union written,
                     next |-> store.next],
           history'.taken = history.taken
    PROVE  /\ store' = [facts |-> store'.facts, edges |-> store'.edges, next |-> store'.next]
           /\ store'.facts = store.facts /\ store'.next = store.next
           /\ EdgesAreTrue'
<1>1. /\ store'.facts = store.facts /\ store'.next = store.next
      /\ store'.edges = store.edges \union written
  OBVIOUS
<1>2. EdgesAreTrue /\ TodoTrue
  BY DEF IngesterInv
<1>3. \A e : EdgeTrue(e) => EdgeTrue(e)'
  BY <1>1, MoreFacts
<1>4. \A e \in store.edges \union written : EdgeTrue(e)'
  BY <1>2, <1>3, EdgesAsEdges DEF TodoTrue
<1>5. EdgesAreTrue'
  BY <1>1, <1>4 DEF EdgesAreTrue, EdgeTrue
<1>6. QED
  BY <1>1, <1>5

LEMMA AddEdgesInv == IngesterInv /\ AddEdges => IngesterInv'
<1>. SUFFICES ASSUME IngesterInv, AddEdges
              PROVE  IngesterInv'
  OBVIOUS
<1>. DEFINE Step(served, refused) ==
                \E heard \in Served(served \ refused) :
                  /\ store' = [store EXCEPT !.edges = store.edges \union (served \ refused)]
                  /\ ing' = [ing EXCEPT !.tries = ing.tries + 1, !.todo = ing.todo \ heard]
                  /\ history' = [history EXCEPT
                                   !.lost = history.lost
                                                + Cardinality((served \ refused) \ heard),
                                   !.refused = history.refused + Cardinality(refused)]
<1>1. PICK served \in Served(ing.todo) : \E refused \in Refused(served) : Step(served, refused)
  BY DEF AddEdges
<1>2. PICK refused \in Refused(served) : Step(served, refused)
  BY <1>1
<1>. DEFINE written == served \ refused
<1>3. PICK heard \in Served(written) :
          /\ store' = [store EXCEPT !.edges = store.edges \union written]
          /\ ing' = [ing EXCEPT !.tries = ing.tries + 1, !.todo = ing.todo \ heard]
          /\ history' = [history EXCEPT !.lost = history.lost + Cardinality(written \ heard),
                                        !.refused = history.refused + Cardinality(refused)]
  BY <1>2
<1>4. /\ IngesterTyped /\ PlanFits /\ IdsTrue /\ TodoTrue /\ DuplicatesHaveAReason
      /\ history.lost \in Nat /\ history.undeduped \in Nat
      /\ ing.pc = "edges" /\ ing.tries \in 0 .. MaxAttempts /\ ing.tries < MaxAttempts
      /\ IsFiniteSet(ing.todo)
  BY DEF IngesterInv, IngesterTyped, PlanFits, AddEdges, AnotherTry
<1>5. written \subseteq ing.todo /\ IsFiniteSet(written)
  <2>1. served \subseteq ing.todo /\ IsFiniteSet(served)
    BY <1>4, ServedPart
  <2>2. QED
    BY <2>1, FS_Subset
<1>. HIDE DEF written
<1>6. Cardinality(written \ heard) \in Nat
  BY <1>5, FS_Subset, FS_CardinalityType
<1>7. store' = [facts |-> store.facts, edges |-> store.edges \union written,
                next |-> store.next]
  BY <1>3, <1>4 DEF IngesterTyped
<1>9. history' = [edits |-> history.edits, runs |-> history.runs,
                  lost |-> history.lost + Cardinality(written \ heard),
                  refused |-> history.refused + Cardinality(refused),
                  undeduped |-> history.undeduped, taken |-> history.taken]
  BY <1>3, <1>4 DEF IngesterTyped
<1>10. /\ history'.lost = history.lost + Cardinality(written \ heard)
       /\ history'.undeduped = history.undeduped /\ history'.taken = history.taken
  BY <1>9
<1>8b. /\ store' = [facts |-> store'.facts, edges |-> store'.edges, next |-> store'.next]
      /\ store'.facts = store.facts /\ store'.next = store.next
      /\ EdgesAreTrue'
  BY <1>5, <1>7, <1>10, EdgesStored
<1>11. history'.lost \in Nat /\ history'.lost >= history.lost
  BY <1>4, <1>6, <1>10
<1>12. ing' = [pc |-> ing.pc, plan |-> ing.plan, links |-> ing.links, ids |-> ing.ids,
               todo |-> ing.todo \ heard, tries |-> ing.tries + 1]
  BY <1>3, <1>4 DEF IngesterTyped
<1>13. /\ ing'.pc = ing.pc /\ ing'.plan = ing.plan /\ ing'.links = ing.links
       /\ ing'.ids = ing.ids /\ ing'.todo = ing.todo \ heard /\ ing'.tries = ing.tries + 1
  BY <1>12
<1>14. ing'.tries \in 0 .. MaxAttempts
  BY <1>4, <1>13, IngesterBounds
<1>15. IngesterTyped'
  <2>1. ing' = [pc |-> ing'.pc, plan |-> ing'.plan, links |-> ing'.links, ids |-> ing'.ids,
                todo |-> ing'.todo, tries |-> ing'.tries]
    BY <1>12, <1>13
  <2>2. history' = [edits |-> history'.edits, runs |-> history'.runs, lost |-> history'.lost,
                    refused |-> history'.refused, undeduped |-> history'.undeduped,
                    taken |-> history'.taken]
    BY <1>9
  <2>3. QED
    BY <1>4, <1>8b, <1>10, <1>11, <1>13, <1>14, <2>1, <2>2 DEF IngesterTyped
<1>16. PlanFits'
  <2>1. IsFiniteSet(ing.todo \ heard)
    BY <1>4, FS_Subset
  <2>2. QED
    BY <1>4, <1>13, <2>1 DEF PlanFits, LinkTrue
<1>17. IdsTrue' /\ RoomForOneMore'
  BY <1>4, <1>8b, <1>10, <1>13 DEF IdsTrue, RoomForOneMore, StandsFor
<1>18. TodoTrue'
  <2>1. \A e : EdgeTrue(e) => EdgeTrue(e)'
    BY <1>8b, <1>10, MoreFacts
  <2>2. \A e \in ing.todo : EdgeTrue(e)'
    BY <1>4, <2>1 DEF TodoTrue
  <2>3. QED
    BY <1>13, <2>2 DEF TodoTrue
<1>19. DuplicatesHaveAReason'
  BY <1>4, <1>8b, <1>10, <1>11, DuplicatesStay
<1>20. QED
  BY <1>8b, <1>15, <1>16, <1>17, <1>18, <1>19 DEF IngesterInv

LEMMA RpcTimeoutInv == IngesterInv /\ RpcTimeout => IngesterInv'
<1>. SUFFICES ASSUME IngesterInv, RpcTimeout
              PROVE  IngesterInv'
  OBVIOUS
<1>1. ing' = Rest /\ history' = [history EXCEPT !.lost = history.lost + 1]
  BY DEF RpcTimeout
<1>2. /\ IngesterTyped /\ EdgesAreTrue /\ DuplicatesHaveAReason
      /\ history.lost \in Nat /\ history.undeduped \in Nat
      /\ IsFiniteSet(ing.plan) /\ IsFiniteSet(ing.todo)
  BY DEF IngesterInv, IngesterTyped, PlanFits
<1>3. history' = [edits |-> history.edits, runs |-> history.runs, lost |-> history.lost + 1,
                  refused |-> history.refused, undeduped |-> history.undeduped,
                  taken |-> history.taken]
  BY <1>1, <1>2 DEF IngesterTyped
<1>4. /\ history'.lost = history.lost + 1 /\ history'.undeduped = history.undeduped
      /\ history'.taken = history.taken
  BY <1>3
<1>5. history'.lost \in Nat /\ history'.lost >= history.lost
  BY <1>2, <1>4
<1>6. ASSUME /\ store' = [facts |-> store'.facts, edges |-> store'.edges, next |-> store'.next]
             /\ store'.next \in Nat /\ IsFiniteSet(store'.facts)
             /\ \A f \in store'.facts : f.num \in Nat /\ f.num < store'.next
             /\ EdgesAreTrue' /\ DuplicatesHaveAReason'
      PROVE  IngesterInv'
  <2>1. IngesterTyped'
    BY <1>1, <1>2, <1>3, <1>4, <1>5, <1>6, AtRest, IngesterBounds DEF IngesterTyped
  <2>2. QED
    BY <1>1, <1>6, <2>1, AtRest DEF IngesterInv
<1>7. CASE /\ ing.pc = "facts"
           /\ \E written \in Served(Unresolved) :
                 store' = [store EXCEPT !.facts = store.facts \union Numbered(written),
                                        !.next = store.next + Cardinality(written)]
  <2>1. PICK written \in Served(Unresolved) :
            store' = [store EXCEPT !.facts = store.facts \union Numbered(written),
                                   !.next = store.next + Cardinality(written)]
    BY <1>7
  <2>2. IsFiniteSet(Unresolved)
    BY <1>2, FS_Subset DEF Unresolved
  <2>3. written \subseteq Unresolved
    BY <2>2, ServedPart
  <2>4. store' = [facts |-> store.facts \union Numbered(written), edges |-> store.edges,
                  next |-> store.next + Cardinality(written)]
    BY <1>2, <2>1 DEF IngesterTyped
  <2>5. ing.pc = "facts"
    BY <1>7
  <2>6. /\ store' = [facts |-> store'.facts, edges |-> store'.edges, next |-> store'.next]
        /\ store'.next \in Nat /\ IsFiniteSet(store'.facts)
        /\ \A f \in store'.facts : f.num \in Nat /\ f.num < store'.next
        /\ EdgesAreTrue' /\ DuplicatesHaveAReason'
    BY <1>4, <1>5, <2>3, <2>4, <2>5, FactsStored
  <2>7. QED
    BY <1>6, <2>6
<1>8. CASE /\ ing.pc = "edges"
           /\ \E written \in Served(ing.todo) :
                 store' = [store EXCEPT !.edges = store.edges \union written]
  <2>1. PICK written \in Served(ing.todo) :
            store' = [store EXCEPT !.edges = store.edges \union written]
    BY <1>8
  <2>2. written \subseteq ing.todo
    BY <1>2, ServedPart
  <2>3. store' = [facts |-> store.facts, edges |-> store.edges \union written,
                  next |-> store.next]
    BY <1>2, <2>1 DEF IngesterTyped
  <2>4. /\ store' = [facts |-> store'.facts, edges |-> store'.edges, next |-> store'.next]
        /\ store'.facts = store.facts /\ store'.next = store.next
        /\ EdgesAreTrue'
    BY <1>4, <2>2, <2>3, EdgesStored
  <2>5. DuplicatesHaveAReason'
    BY <1>2, <1>4, <1>5, <2>4, DuplicatesStay
  <2>6. /\ store'.next \in Nat /\ IsFiniteSet(store'.facts)
        /\ \A f \in store'.facts : f.num \in Nat /\ f.num < store'.next
    BY <1>2, <2>4 DEF IngesterTyped
  <2>7. QED
    BY <1>6, <2>4, <2>5, <2>6
<1>9. CASE store' = store
  <2>1. EdgesAreTrue'
    BY <1>2, <1>4, <1>9, EdgesStay
  <2>2. DuplicatesHaveAReason'
    BY <1>2, <1>4, <1>5, <1>9, DuplicatesStay
  <2>3. /\ store' = [facts |-> store'.facts, edges |-> store'.edges, next |-> store'.next]
        /\ store'.next \in Nat /\ IsFiniteSet(store'.facts)
        /\ \A f \in store'.facts : f.num \in Nat /\ f.num < store'.next
    BY <1>2, <1>9 DEF IngesterTyped
  <2>4. QED
    BY <1>6, <2>1, <2>2, <2>3
<1>10. QED
  BY <1>7, <1>8, <1>9 DEF RpcTimeout

LEMMA NextIngesterInv == IngesterInv /\ [IngestCodebaseNext]_ingesterVars => IngesterInv'
<1>. SUFFICES ASSUME IngesterInv, [IngestCodebaseNext]_ingesterVars
              PROVE  IngesterInv'
  OBVIOUS
<1>1. CASE EditManifest
  BY <1>1, EditManifestInv
<1>2. ASSUME NEW dedupe \in BOOLEAN, StartIngester(dedupe)
      PROVE  IngesterInv'
  BY <1>2, StartIngesterInv
<1>3. CASE FindExisting
  BY <1>3, FindExistingInv
<1>4. CASE AddFacts
  BY <1>4, AddFactsInv
<1>5. CASE PlanEdges
  BY <1>5, PlanEdgesInv
<1>6. CASE AddEdges
  BY <1>6, AddEdgesInv
<1>7. CASE Finish
  BY <1>7, FinishInv
<1>8. CASE RpcTimeout
  BY <1>8, RpcTimeoutInv
<1>9. CASE UNCHANGED ingesterVars
  <2>1. store' = store /\ ing' = ing /\ history' = history
    BY <1>9 DEF ingesterVars
  <2>2. IngesterTyped'
    BY <2>1 DEF IngesterInv, IngesterTyped
  <2>3. /\ EdgesAreTrue' /\ DuplicatesHaveAReason'
        /\ \A e : EdgeTrue(e) => EdgeTrue(e)'
    BY <2>1, NothingStored DEF IngesterInv
  <2>4. /\ PlanFits' /\ IdsTrue' /\ TodoTrue' /\ RoomForOneMore'
    BY <2>1, <2>3 DEF IngesterInv, PlanFits, LinkTrue, IdsTrue, TodoTrue, StandsFor,
                     RoomForOneMore, Unresolved, Copies, SameIn
  <2>5. QED
    BY <2>2, <2>3, <2>4 DEF IngesterInv
<1>10. QED
  BY <1>1, <1>2, <1>3, <1>4, <1>5, <1>6, <1>7, <1>8, <1>9 DEF IngestCodebaseNext, IngesterStep

\* The ingester's whole inductive invariant.
THEOREM IngesterInvariant == IngestCodebaseSpec => []IngesterInv
BY InitIngesterInv, NextIngesterInv, PTL DEF IngestCodebaseSpec

\* The ids an ingester holds are of facts that are stored, and it stops after its
\* attempts.
THEOREM IngesterTypeCorrect == IngestCodebaseSpec => []IngestCodebaseTypeOK
<1>1. IngesterInv => IngestCodebaseTypeOK
  <2>. SUFFICES ASSUME IngesterInv
                PROVE  IngestCodebaseTypeOK
    OBVIOUS
  <2>1. IngesterTyped /\ IdsTrue
    BY DEF IngesterInv
  <2>2. \A k \in DOMAIN ing.ids : ing.ids[k] < store.next
    BY <2>1 DEF IngesterTyped, IdsTrue
  <2>3. QED
    BY <2>1, <2>2 DEF IngestCodebaseTypeOK, IngesterTyped
<1>2. QED
  BY <1>1, IngesterInvariant, PTL

\* However a server stops in the middle of its batches, refuses their calls or keeps
\* back its answers, a fact is there as often as answers were lost and runs did not
\* look, and once more: what is sent again is only what has no id.
THEOREM DuplicatesAreExplained == IngestCodebaseSpec => []DuplicatesHaveAReason
<1>1. IngesterInv => DuplicatesHaveAReason
  BY DEF IngesterInv
<1>2. QED
  BY <1>1, IngesterInvariant, PTL

\* An edge leads from a component to its repository or to what its manifest names,
\* by whichever of a batch's answers its two ids came.
THEOREM EdgesSayWhatManifestsSay == IngestCodebaseSpec => []EdgesAreTrue
<1>1. IngesterInv => EdgesAreTrue
  BY DEF IngesterInv
<1>2. QED
  BY <1>1, IngesterInvariant, PTL

-----------------------------------------------------------------------------
(* The viscosity governor. *)

\* A set of naturals that is not empty has a least member.
LEMMA LeastMember ==
    ASSUME NEW B \in SUBSET Nat, B /= {}
    PROVE  \E k \in B : \A j \in B : k <= j
<1>1. PICK k \in B : \A j \in B : <<j, k>> \notin OpToRel(<, Nat)
    BY NatLessThanWellFounded, WFMin
<1>2. \A j \in B : ~(j < k)
    BY <1>1 DEF OpToRel
<1> QED
    BY <1>2

\* There is a function that sums the records up to each.  (Least place without one.)
SumsTo(records, field, k, f) ==
    f = [n \in 0..k |-> IF n = 0 THEN 0 ELSE f[n - 1] + records[n][field]]

LEMMA SumsExist ==
    ASSUME NEW records, NEW field, NEW L \in Nat
    PROVE  \E f : SumsTo(records, field, L, f)
<1> DEFINE Bad == {k \in 0..L : ~ \E f : SumsTo(records, field, k, f)}
<1>1. SUFFICES Bad = {}
    BY <1>1
<1>2. SUFFICES ASSUME Bad /= {} PROVE FALSE
    OBVIOUS
<1>3. PICK k \in Bad : \A j \in Bad : k <= j
    <2>1. Bad \in SUBSET Nat
        OBVIOUS
    <2> HIDE DEF Bad
    <2> QED
        BY <1>2, <2>1, LeastMember
<1>4. CASE k = 0
    <2> DEFINE f == [n \in 0..0 |-> 0]
    <2>1. SumsTo(records, field, 0, f)
        BY DEF SumsTo
    <2> HIDE DEF f
    <2> QED
        BY <1>3, <1>4, <2>1
<1>5. CASE k /= 0
    <2>1. k - 1 \in 0..L /\ k - 1 \notin Bad /\ k \in Nat /\ k \in 0..L
        BY <1>3, <1>5
    <2>2. PICK f : SumsTo(records, field, k - 1, f)
        BY <2>1
    <2> DEFINE g == [n \in 0..k |-> IF n = k THEN f[k - 1] + records[k][field] ELSE f[n]]
    <2>3. g = [n \in 0..k |-> IF n = 0 THEN 0 ELSE g[n - 1] + records[n][field]]
        <3> SUFFICES ASSUME NEW n \in 0..k
                     PROVE  g[n] = IF n = 0 THEN 0 ELSE g[n - 1] + records[n][field]
            OBVIOUS
        <3>1. CASE n = 0
            <4>1. f[0] = 0
                BY <1>5, <2>1, <2>2 DEF SumsTo
            <4> QED BY <1>5, <3>1, <4>1
        <3>2. CASE n = k
            <4>1. g[k - 1] = f[k - 1] /\ k - 1 \in 0..k
                BY <2>1
            <4> QED BY <1>5, <3>2, <4>1
        <3>3. CASE n /= 0 /\ n /= k
            <4>1. n \in 0..(k - 1) /\ n - 1 \in 0..k /\ n - 1 /= k
                BY <2>1, <3>3
            <4>2. f[n] = f[n - 1] + records[n][field]
                BY <2>2, <3>3, <4>1 DEF SumsTo
            <4>3. g[n] = f[n] /\ g[n - 1] = f[n - 1]
                BY <3>3, <4>1
            <4> QED BY <3>3, <4>2, <4>3
        <3> QED
            BY <3>1, <3>2, <3>3
    <2> HIDE DEF g
    <2>4. SumsTo(records, field, k, g)
        BY <2>3 DEF SumsTo
    <2> QED
        BY <1>3, <2>4
<1> QED
    BY <1>4, <1>5

\* The records of one value sum up to their number times it: none, one or more each.
LEMMA EqualSum ==
    ASSUME NEW records, NEW field, Len(records) \in Nat, NEW c \in {0, 1},
           \A n \in 1..Len(records) : records[n][field] = c
    PROVE  Total(records, field) = IF c = 0 THEN 0 ELSE Len(records)
<1> DEFINE L == Len(records)
           sum == CHOOSE f : f = [n \in 0..L |-> IF n = 0 THEN 0 ELSE f[n - 1] + records[n][field]]
<1>1. Total(records, field) = sum[L]
    BY DEF Total
<1>2. sum = [n \in 0..L |-> IF n = 0 THEN 0 ELSE sum[n - 1] + records[n][field]]
    <2>1. sum = CHOOSE f : SumsTo(records, field, L, f)
        BY DEF SumsTo
    <2> HIDE DEF sum, L
    <2>2. L \in Nat
        BY DEF L
    <2>3. SumsTo(records, field, L, sum)
        BY <2>1, <2>2, SumsExist
    <2> QED
        BY <2>3 DEF SumsTo
<1> HIDE DEF sum
<1>3. sum[0] = 0 /\ \A n \in 1..L : sum[n] = sum[n - 1] + c
    BY <1>2
<1> DEFINE Bad == {n \in 0..L : sum[n] /= IF c = 0 THEN 0 ELSE n}
<1>4. Bad = {}
    <2> SUFFICES ASSUME Bad /= {} PROVE FALSE
        OBVIOUS
    <2>1. PICK k \in Bad : \A j \in Bad : k <= j
        <3>1. Bad \in SUBSET Nat
            OBVIOUS
        <3> HIDE DEF Bad
        <3> QED BY <3>1, LeastMember
    <2>2. k /= 0 /\ k \in 1..L /\ k - 1 \in 0..L /\ k - 1 \notin Bad
        BY <1>3, <2>1
    <2> QED
        BY <1>3, <2>1, <2>2
<1> QED
    BY <1>1, <1>4

LEMMA SumIsNat ==
    ASSUME NEW records, NEW field, Len(records) \in Nat,
           \A n \in 1..Len(records) : records[n][field] \in Nat
    PROVE  Total(records, field) \in Nat
<1> DEFINE L == Len(records)
           sum == CHOOSE f : f = [n \in 0..L |-> IF n = 0 THEN 0 ELSE f[n - 1] + records[n][field]]
<1>1. Total(records, field) = sum[L]
    BY DEF Total
<1>2. sum = [n \in 0..L |-> IF n = 0 THEN 0 ELSE sum[n - 1] + records[n][field]]
    <2>1. sum = CHOOSE f : SumsTo(records, field, L, f)
        BY DEF SumsTo
    <2> HIDE DEF sum, L
    <2>2. L \in Nat
        BY DEF L
    <2>3. SumsTo(records, field, L, sum)
        BY <2>1, <2>2, SumsExist
    <2> QED
        BY <2>3 DEF SumsTo
<1> HIDE DEF sum
<1>3. sum[0] = 0 /\ \A n \in 1..L : sum[n] = sum[n - 1] + records[n][field]
    BY <1>2
<1> DEFINE Bad == {n \in 0..L : sum[n] \notin Nat}
<1>4. Bad = {}
    <2> SUFFICES ASSUME Bad /= {} PROVE FALSE
        OBVIOUS
    <2>1. PICK k \in Bad : \A j \in Bad : k <= j
        <3>1. Bad \in SUBSET Nat
            OBVIOUS
        <3> HIDE DEF Bad
        <3> QED BY <3>1, LeastMember
    <2>2. k /= 0 /\ k \in 1..L /\ k - 1 \in 0..L /\ k - 1 \notin Bad
        BY <1>3, <2>1
    <2>3. sum[k - 1] \in Nat /\ records[k][field] \in Nat
        BY <2>2
    <2> QED
        BY <1>3, <2>1, <2>2, <2>3
<1> QED
    BY <1>1, <1>4

\* The score of bad loops alone, and that of good loops alone.
LEMMA BadAndGoodLoops ==
    ASSUME NEW recent \in Seq(Metrics), Len(recent) > 0
    PROVE  /\ (\A n \in 1..Len(recent) : recent[n].error = 1) =>
                 Composite(recent) >= 70 * Len(recent)
           /\ (\A n \in 1..Len(recent) : recent[n].success = 1) => Composite(recent) = 0
           /\ Composite(recent) \in Int
<1> DEFINE n == Len(recent)
           S == Total(recent, "success")
           E == Total(recent, "error")
           C == Total(recent, "contradictions")
           T == 3 * n * C
<1>1. n \in Nat /\ n > 0 /\ \A i \in 1..n : recent[i] \in Metrics
    OBVIOUS
<1>2. \A m \in Metrics : /\ m["success"] \in Nat /\ m["error"] \in Nat /\ m["contradictions"] \in Nat
                         /\ m.error = 1 => m["error"] = 1 /\ m["success"] = 0
                         /\ m.success = 1 => m["success"] = 1 /\ m["error"] = 0 /\ m["contradictions"] = 0
    BY DEF Metrics
<1>3. S \in Nat /\ E \in Nat /\ C \in Nat
    BY <1>1, <1>2, SumIsNat
<1>4. Composite(recent) = 40 * (n - S) + 30 * E + (IF T < 30 * n THEN T ELSE 30 * n)
    BY DEF Composite
<1>5. ASSUME \A i \in 1..n : recent[i].error = 1
      PROVE  S = 0 /\ E = n
    BY <1>1, <1>2, <1>5, EqualSum
<1>6. ASSUME \A i \in 1..n : recent[i].success = 1
      PROVE  S = n /\ E = 0 /\ C = 0
    BY <1>1, <1>2, <1>6, EqualSum
<1> HIDE DEF n, S, E, C
<1>7. T \in Nat
    BY <1>1, <1>3
<1>8. C = 0 => T = 0
    BY <1>1
<1> HIDE DEF T
<1>9. Composite(recent) \in Int
    BY <1>1, <1>3, <1>4, <1>7
<1>10. (\A i \in 1..n : recent[i].error = 1) => Composite(recent) >= 70 * n
    BY <1>1, <1>3, <1>4, <1>5, <1>7
<1>11. (\A i \in 1..n : recent[i].success = 1) => Composite(recent) = 0
    BY <1>1, <1>3, <1>4, <1>6, <1>8
<1> QED
    BY <1>9, <1>10, <1>11 DEF n

\* The last Window records are the recent ones.
LEMMA RecentAreLast ==
    ASSUME NEW records \in Seq(Metrics), Len(records) >= Window
    PROVE  /\ Recent(records) \in Seq(Metrics) /\ Len(Recent(records)) = Window
           /\ \A n \in 1..Window : Recent(records)[n] = records[Len(records) - Window + n]
<1> DEFINE L == Len(records)
           first == L - Window + 1
<1>1. L \in Nat /\ Window \in Nat /\ Window > 0 /\ first \in 1..L
    BY ViscosityAssumption
<1>2. Recent(records) = SubSeq(records, first, L)
    <2>1. (IF L > Window THEN L - Window + 1 ELSE 1) = first
        BY <1>1
    <2> QED
        BY <2>1 DEF Recent
<1>3. \A i \in first..L : records[i] \in Metrics
    BY <1>1
<1> HIDE DEF L
<1>4. /\ SubSeq(records, first, L) \in Seq(Metrics)
      /\ Len(SubSeq(records, first, L)) = IF first <= L THEN L - first + 1 ELSE 0
      /\ \A i \in 1..(L - first + 1) : SubSeq(records, first, L)[i] = records[first + i - 1]
    BY <1>1, <1>3, SubSeqProperties
<1>5. first <= L /\ L - first + 1 = Window /\ \A i \in 1..Window : first + i - 1 = L - Window + i
    BY <1>1
<1> QED
    BY <1>2, <1>4, <1>5 DEF L

Levels == {"fluid", "normal", "strict", "frozen"}

LEMMA LevelType == \A records : Level(records) \in Levels
<1> TAKE records
<1> DEFINE recent == Recent(records)
           A == recent = << >> \/ Composite(recent) < 30 * Len(recent)
           B == Composite(recent) < 50 * Len(recent)
           C == Composite(recent) < 70 * Len(recent)
           N == recent /= << >> /\ ~(Composite(recent) < 30 * Len(recent))
           M == recent /= << >> /\ ~(Composite(recent) < 50 * Len(recent))
<1>1. Level(records) = CASE A -> "fluid" [] N /\ B -> "normal" [] M /\ C -> "strict" [] OTHER -> "frozen"
    BY DEF Level
<1> HIDE DEF A, B, C, N, M
<1>2. CASE A
    BY <1>1, <1>2 DEF Levels
<1>3. CASE ~A /\ N /\ B
    BY <1>1, <1>3 DEF Levels
<1>4. CASE ~A /\ ~(N /\ B) /\ M /\ C
    BY <1>1, <1>4 DEF Levels
<1>5. CASE ~A /\ ~(N /\ B) /\ ~(M /\ C)
    BY <1>1, <1>5 DEF Levels
<1> QED
    BY <1>2, <1>3, <1>4, <1>5

LEMMA LevelOfBadAndGood ==
    ASSUME NEW records \in Seq(Metrics), Len(records) >= Window
    PROVE  LET latest == {records[i] : i \in (Len(records) - Window + 1)..Len(records)} IN
           /\ (\A m \in latest : m.error = 1) => Level(records) = "frozen"
           /\ (\A m \in latest : m.success = 1) => Level(records) = "fluid"
<1> DEFINE recent == Recent(records)
           L == Len(records)
           latest == {records[i] : i \in (L - Window + 1)..L}
           n == Len(recent)
           score == Composite(recent)
<1>1. L \in Nat /\ Window \in Nat /\ Window > 0
    BY ViscosityAssumption
<1>2. recent \in Seq(Metrics) /\ n = Window /\ recent /= << >>
      /\ \A i \in 1..Window : recent[i] = records[L - Window + i]
    BY <1>1, RecentAreLast
<1>3. \A i \in 1..Window : recent[i] \in latest
    <2> TAKE i \in 1..Window
    <2>1. L - Window + i \in (L - Window + 1)..L
        BY <1>1
    <2> QED
        BY <1>2, <2>1
<1>4. /\ (\A i \in 1..n : recent[i].error = 1) => score >= 70 * n
      /\ (\A i \in 1..n : recent[i].success = 1) => score = 0
      /\ score \in Int
    BY <1>1, <1>2, BadAndGoodLoops
<1>5. Level(records) = CASE recent = << >> \/ score < 30 * n -> "fluid"
                         [] recent /= << >> /\ ~(score < 30 * n) /\ score < 50 * n -> "normal"
                         [] recent /= << >> /\ ~(score < 50 * n) /\ score < 70 * n -> "strict"
                         [] OTHER -> "frozen"
    BY DEF Level
<1> HIDE DEF latest, score, n, recent, L
<1>6. ASSUME \A m \in latest : m.error = 1
      PROVE  Level(records) = "frozen"
    <2>1. score >= 70 * n
        BY <1>2, <1>3, <1>4, <1>6
    <2>2. ~(score < 30 * n) /\ ~(score < 50 * n) /\ ~(score < 70 * n)
        BY <1>1, <1>2, <1>4, <2>1
    <2> QED
        BY <1>2, <1>5, <2>2
<1>7. ASSUME \A m \in latest : m.success = 1
      PROVE  Level(records) = "fluid"
    <2>1. score = 0
        BY <1>2, <1>3, <1>4, <1>7
    <2>2. score < 30 * n /\ score < 50 * n /\ score < 70 * n
        BY <1>1, <1>2, <2>1
    <2> QED
        BY <1>2, <1>5, <2>2
<1> QED
    BY <1>6, <1>7 DEF latest, L

-----------------------------------------------------------------------------
\* While no recorder raced and no save was torn, the file holds every record made,
\* in order; and what a process decides is what its history says.
ViscosityInv ==
    /\ loopHistory = TornFile \/ loopHistory \in Seq(Metrics)
    /\ loaded \in [Recorders -> Seq(Metrics) \union {NoHistory}]
    /\ posture \in [Recorders -> Levels]
    /\ recorded \in Seq(Metrics) /\ raced \in BOOLEAN /\ tornSaves \in 0..MaxTornSaves
    /\ saving \subseteq {p \in Recorders : loaded[p] /= NoHistory}
    /\ ~raced /\ tornSaves = 0 =>
          /\ saving = {} => loopHistory = recorded
          /\ \A p \in saving : saving = {p} /\ loaded[p] = recorded /\ loopHistory = TornFile
    /\ \A p \in Recorders : loaded[p] /= NoHistory => posture[p] = Level(loaded[p])

LEMMA ParsedType == ViscosityInv => Parsed \in Seq(Metrics) /\ (loopHistory /= TornFile => Parsed = loopHistory)
BY DEF ViscosityInv, Parsed

LEMMA ViscosityInvInitially == ViscosityInit => ViscosityInv
<1> SUFFICES ASSUME ViscosityInit PROVE ViscosityInv
    OBVIOUS
<1>1. << >> \in Seq(Metrics) /\ "fluid" \in Levels /\ 0 \in 0..MaxTornSaves
    BY ViscosityAssumption DEF Levels
<1> QED
    BY <1>1 DEF ViscosityInit, ViscosityInv

LEMMA ViscosityInvNext == ViscosityInv /\ [ViscosityNext]_viscosityVars => ViscosityInv'
<1> SUFFICES ASSUME ViscosityInv, [ViscosityNext]_viscosityVars PROVE ViscosityInv'
    OBVIOUS
<1> USE DEF ViscosityInv
<1>1. NoHistory \notin Seq(Metrics) /\ TornFile \notin Seq(Metrics)
    BY ViscosityAssumption
<1>2. ASSUME NEW p \in Recorders, LoadHistory(p) PROVE ViscosityInv'
    <2>1. Parsed \in Seq(Metrics) /\ Level(Parsed) \in Levels
        BY ParsedType, LevelType
    <2> QED
        BY <1>2, <2>1 DEF LoadHistory
<1>3. ASSUME NEW p \in Recorders, NEW m \in Metrics, RecordLoop(p, m) PROVE ViscosityInv'
    <2> DEFINE new == Append(loaded[p], m)
    <2>1. loaded[p] \in Seq(Metrics) /\ new \in Seq(Metrics) /\ Append(recorded, m) \in Seq(Metrics)
        BY <1>3 DEF RecordLoop
    <2>2. loaded' = [loaded EXCEPT ![p] = new] /\ loopHistory' = TornFile
          /\ saving' = saving \union {p}
          /\ posture' = [posture EXCEPT ![p] = Level(new)] /\ recorded' = Append(recorded, m)
          /\ raced' = (raced \/ saving /= {} \/ loaded[p] /= Parsed) /\ tornSaves' = tornSaves
        BY <1>3, <2>1 DEF RecordLoop
    <2>3. ASSUME ~raced', tornSaves' = 0
          PROVE  saving' = {p} /\ loaded'[p] = recorded'
        <3>1. saving = {} /\ loopHistory = recorded /\ loaded[p] = Parsed
            BY <2>2, <2>3
        <3>2. Parsed = recorded
            BY <1>1, <3>1 DEF Parsed
        <3> QED
            BY <2>2, <3>1, <3>2
    <2>4. Level(new) \in Levels /\ new /= NoHistory
        BY <1>1, <2>1, LevelType
    <2> HIDE DEF new
    <2>5. \A q \in Recorders : loaded'[q] /= NoHistory => posture'[q] = Level(loaded'[q])
        <3> TAKE q \in Recorders
        <3>1. CASE q = p
            BY <2>2, <3>1
        <3>2. CASE q /= p
            BY <2>2, <3>2
        <3> QED BY <3>1, <3>2
    <2>6. saving' \subseteq {q \in Recorders : loaded'[q] /= NoHistory}
        BY <2>2, <2>4
    <2> QED
        BY <2>1, <2>2, <2>3, <2>4, <2>5, <2>6
<1>4. ASSUME NEW p \in Recorders, SaveHistory(p) PROVE ViscosityInv'
    <2>1. /\ loaded' = loaded /\ posture' = posture /\ recorded' = recorded
          /\ raced' = raced /\ tornSaves' = tornSaves /\ saving' = saving \ {p}
          /\ loopHistory' \in {TornFile, loaded[p]}
          /\ loopHistory = TornFile => loopHistory' = loaded[p]
        BY <1>4 DEF SaveHistory
    <2>2. p \in saving /\ loaded[p] \in Seq(Metrics)
        BY <1>4 DEF SaveHistory
    <2> QED
        BY <2>1, <2>2
<1>7. ASSUME NEW p \in Recorders, TearSave(p) PROVE ViscosityInv'
    <2>1. tornSaves' \in 0..MaxTornSaves /\ tornSaves' /= 0
        BY <1>7, ViscosityAssumption DEF TearSave
    <2> QED
        BY <1>7, <2>1 DEF TearSave
<1>5. ASSUME NEW p \in Recorders, RecorderEnds(p) PROVE ViscosityInv'
    BY <1>5 DEF RecorderEnds
<1>6. CASE UNCHANGED viscosityVars
    BY <1>6 DEF viscosityVars
<1> QED
    BY <1>2, <1>3, <1>4, <1>5, <1>6, <1>7 DEF ViscosityNext

\* The inductive invariant of the recorders.
THEOREM ViscosityInvariant == ViscositySpec => []ViscosityInv
BY ViscosityInvInitially, ViscosityInvNext, PTL DEF ViscositySpec

LEMMA ViscosityInvImplies == ViscosityInv => ViscosityTypeOK /\ PostureFollowsTheLoops
<1> SUFFICES ASSUME ViscosityInv PROVE ViscosityTypeOK /\ PostureFollowsTheLoops
    OBVIOUS
<1>1. ViscosityTypeOK
    BY DEF ViscosityInv, ViscosityTypeOK, Levels
<1>2. PostureFollowsTheLoops
    <2> SUFFICES ASSUME NEW p \in Recorders, ~raced, tornSaves = 0, loaded[p] /= NoHistory,
                        loaded[p] = loopHistory, Len(recorded) >= Window
                 PROVE  LET latest == {recorded[i] : i \in (Len(recorded) - Window + 1)..Len(recorded)} IN
                        /\ (\A m \in latest : m.error = 1) => posture[p] = "frozen"
                        /\ (\A m \in latest : m.success = 1) => posture[p] = "fluid"
        BY DEF PostureFollowsTheLoops
    <2>1. posture[p] = Level(recorded) /\ recorded \in Seq(Metrics)
        <3>1. loopHistory /= TornFile
            BY ViscosityAssumption DEF ViscosityInv
        <3>2. saving = {}
            BY <3>1 DEF ViscosityInv
        <3> QED
            BY <3>2 DEF ViscosityInv
    <2> QED
        BY <2>1, LevelOfBadAndGood
<1> QED
    BY <1>1, <1>2

\* The types of the histories and the postures.
THEOREM ViscosityTypeCorrect == ViscositySpec => []ViscosityTypeOK
BY ViscosityInvariant, ViscosityInvImplies, PTL

\* The posture follows the loops, for every number of records that count and of recorders:
\* the sums of any records of one kind are found by their least place of failure.
THEOREM PostureIsThatOfTheLoops == ViscositySpec => []PostureFollowsTheLoops
BY ViscosityInvariant, ViscosityInvImplies, PTL

-----------------------------------------------------------------------------
(* The components together.                                                 *)

\* A behaviour of the components beside each other is one of each component, with its
\* fairness: what is proved of a component alone holds of it there.
THEOREM MemoryIsItsParts ==
    MCSpec => /\ RecallSpec /\ IngestCodebaseSpec /\ AdmissionSpec
              /\ ViscositySpec /\ CompactionSpec /\ ReportsSpec
<1>1. /\ MCInit => RecallInit /\ IngestCodebaseInit /\ AdmissionInit
      /\ MCInit => ViscosityInit /\ CompactionInit /\ ReportsInit
  BY DEF MCInit
<1>2. /\ [MCNext]_MCVars => [RecallNext]_recallVars
      /\ [MCNext]_MCVars => [IngestCodebaseNext]_ingesterVars
      /\ [MCNext]_MCVars => [AdmissionNext]_admissionVars
  BY DEF MCNext, MCVars
<1>3. /\ [MCNext]_MCVars => [ViscosityNext]_viscosityVars
      /\ [MCNext]_MCVars => [CompactionNext]_compactionVars
      /\ [MCNext]_MCVars => [ReportsNext]_reportVars
  BY DEF MCNext, MCVars
<1>. QED
  BY <1>1, <1>2, <1>3, PTL DEF MCSpec, RecallSpec, IngestCodebaseSpec, AdmissionSpec,
     ViscositySpec, CompactionSpec, ReportsSpec

\* Whatever the server, the users and the crashes do, the variables of everything that
\* reads, writes and reports on the memory keep their types.
THEOREM MemoryTypesCorrect == MCSpec => []MCTypeOK
<1>1. MCSpec => []RecallTypeOK /\ []IngestCodebaseTypeOK /\ []AdmissionTypeOK
  BY MemoryIsItsParts, RecallTypeCorrect, IngesterTypeCorrect, AdmissionTypeCorrect, PTL
<1>2. MCSpec => []ViscosityTypeOK /\ []CompactionTypeOK /\ []ReportsTypeOK
  BY MemoryIsItsParts, ViscosityTypeCorrect, CompactionTypeCorrect, ReportsTypeCorrect, PTL
<1>. QED
  BY <1>1, <1>2, PTL DEF MCTypeOK
=============================================================================
