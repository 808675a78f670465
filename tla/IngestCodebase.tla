--------------------------- MODULE IngestCodebase ---------------------------
(***************************************************************************)
(* ingest_codebase.py: a repository's manifests become facts and edges of    *)
(* the memory server.  Every batch of calls goes to a server process of its  *)
(* own, which may stop anywhere in the batch; what it did not acknowledge is *)
(* sent again, up to four times.                                            *)
(*                                                                          *)
(* `tree` is the repository, `store` the memory, `ing` the ingester at work.  *)
(* That there is one at a time is AutoIngest's OneIngest.                    *)
(***************************************************************************)
EXTENDS Integers, Sequences, FiniteSets, FiniteSetsExt, SequencesExt, Functions

CONSTANTS
    Manifests,      \* sequence of [name, deps]: the manifest files, in walk order
    Texts,          \* what a manifest may say
    Near(_, _),     \* a fact's first 200 characters have a cosine of at least 0.995
                    \* with a stored one: whatever the two are about
    MaxAttempts,    \* range(4) in the code
    MaxComponents,
    MaxEdits, MaxRuns,
    MaxLost,        \* bound on answers that do not arrive or show another fact
    MaxRefused      \* bound on calls that are refused

Repo == "__repo__"

ASSUME IngesterAssumption ==
    /\ IsFiniteSet(Texts)
    /\ Manifests \in Seq([name: STRING, deps: SUBSET STRING])
    /\ \A n \in 1..Len(Manifests) : IsFiniteSet(Manifests[n].deps)
    /\ {MaxAttempts, MaxComponents, MaxEdits, MaxRuns, MaxLost, MaxRefused}
        \subseteq Nat

VARIABLES tree, store, ing, history

ingesterVars == <<tree, store, ing, history>>

Unreadable == "unreadable"     \* a manifest its parser gives up on

Rest == [pc |-> "idle", plan |-> {}, links |-> {}, ids |-> <<>>, todo |-> {}, tries |-> 0]

IngestCodebaseInit ==
    /\ tree = [n \in 1..Len(Manifests) |-> CHOOSE t \in Texts : TRUE]
    /\ store = [facts |-> {}, edges |-> {}, next |-> 1]
    /\ ing = Rest
    /\ history = [edits |-> 0, runs |-> 0, lost |-> 0, refused |-> 0, undeduped |-> 0,
                   taken |-> {}]

-----------------------------------------------------------------------------
(* The walk.                                                                *)

Readable == {n \in 1..Len(Manifests) : tree[n] /= Unreadable}

\* Of manifests with one name the first counts, and of those the first
\* MaxComponents.
Components ==
    LET firsts == {n \in Readable :
                      \A k \in Readable : k < n => Manifests[k].name /= Manifests[n].name}
    IN {n \in firsts : Cardinality({k \in firsts : k < n}) < MaxComponents}

\* One fact for each component and one for the repository, whose text changes with
\* any of them.
PlannedFacts ==
    {[key |-> Manifests[n].name, text |-> <<tree[n]>>] : n \in Components}
        \union {[key |-> Repo, text |-> tree]}

\* Edges by key: to the repository, and to every dependency found in it.
PlannedLinks ==
    {<<Manifests[n].name, Repo, "belongs_to">> : n \in Components}
        \union UNION {{<<Manifests[n].name, d, "depends_on">> :
                          d \in Manifests[n].deps \ {Manifests[n].name}} : n \in Components}

\* A fact's content begins with its component's name, so equal contents are equal
\* keys and texts.
Identical(g, f) == g.key = f.key /\ g.text = f.text

\* What a search takes for a planned fact, should it be the best hit.
Matches(f) == {g \in store.facts : Identical(g, f) \/ Near(f, g)}

\* A server reads a batch in its order and may stop after any call of it: what it
\* wrote, and of that what it acknowledged, are prefixes of the batch.
Served(batch) ==
    {ToSet(SubSeq(SetToSeq(batch), 1, n)) : n \in 0..Cardinality(batch)}

\* ... less a call that it refused.
Refused(batch) ==
    {{}} \union (IF history.refused < MaxRefused THEN {{c} : c \in batch} ELSE {})

\* Mutant of Unresolved: a batch is sent again as it was.
WholePlan == ing.plan

\* Mutant of Over: only the last answer ends the attempts.
OverWhenAnswered(left) == left = {}

\* All is answered, or the attempts are used up.
Over(left) == ing.tries = MaxAttempts \/ left = {}

\* Mutant of AnotherTry: one attempt too many.
OneTryMore == ing.tries <= MaxAttempts

AnotherTry == ing.tries < MaxAttempts

Unresolved == {f \in ing.plan : f.key \notin DOMAIN ing.ids}

-----------------------------------------------------------------------------
(* The user edits the repository: external.  The walk is one step, so an edit   *)
(* during a run is as good as one after it.                                 *)
EditManifest ==
    /\ ing.pc = "idle"
    /\ history.edits < MaxEdits
    /\ \E n \in DOMAIN tree, t \in Texts \union {Unreadable} :
          t /= tree[n] /\ tree' = [tree EXCEPT ![n] = t]
    /\ history' = [history EXCEPT !.edits = @ + 1]
    /\ UNCHANGED <<store, ing>>

-----------------------------------------------------------------------------
\* Arguments, walk and plan.
StartIngester(dedupe) ==
    /\ ing.pc = "idle"
    /\ history.runs < MaxRuns
    /\ ing' = [Rest EXCEPT !.pc = IF dedupe THEN "search" ELSE "facts",
                           !.plan = PlannedFacts, !.links = PlannedLinks]
    /\ history' = [history EXCEPT !.runs = @ + 1,
                                  !.undeduped = IF dedupe THEN @ ELSE @ + 1]
    /\ UNCHANGED <<tree, store>>

\* Only the best hit counts, and which that is is the server's ranking: a fact that
\* is there is missed when the answer is lost or another fact ranks first.
FindExisting ==
    /\ ing.pc = "search"
    /\ \E found \in SUBSET {f \in ing.plan : Matches(f) /= {}} :
       \E top \in [found -> store.facts] :
         LET missed == {f \in ing.plan \ found : \E g \in store.facts : Identical(g, f)}
             alike == {f \in found : ~Identical(top[f], f)}
         IN /\ \A f \in found : top[f] \in Matches(f)
            /\ history.lost + Cardinality(missed) <= MaxLost
            /\ ing' = [ing EXCEPT !.pc = "facts",
                                  !.ids = [k \in {f.key : f \in found} |->
                                      top[CHOOSE f \in found : f.key = k].num]]
            /\ history' = [history EXCEPT
                              !.lost = @ + Cardinality(missed),
                              !.taken = @ \union {<<f.key, top[f].num>> : f \in alike}]
    /\ UNCHANGED <<tree, store>>

\* The new facts with the numbers they get.
Numbered(written) ==
    LET order == SetToSeq(written)
    IN {[num |-> store.next + n - 1, key |-> order[n].key, text |-> order[n].text] :
            n \in 1..Cardinality(written)}

\* Mutant of IdsHeard: the n-th answer is taken for that to the n-th call.
IdsInOrder(asked, heard) ==
    LET calls == SetToSeq(asked)
        answers == SetToSortSeq(heard, LAMBDA g, h : g.num < h.num)
        place(k) == CHOOSE n \in 1..Len(answers) : calls[n].key = k
    IN [k \in {calls[n].key : n \in 1..Len(answers)} |-> answers[place(k)].num]

\* Every answer carries the number of its call.
IdsHeard(asked, heard) ==
    [k \in {g.key : g \in heard} |-> (CHOOSE g \in heard : g.key = k).num]

Extended(ids, more) ==
    [k \in DOMAIN ids \union DOMAIN more |-> IF k \in DOMAIN more THEN more[k] ELSE ids[k]]

\* One batch of sm_add_fact with every fact that has no id yet.
AddFacts ==
    /\ ing.pc = "facts"
    /\ AnotherTry /\ Unresolved /= {}
    /\ \E served \in Served(Unresolved) : \E refused \in Refused(served) :
       LET written == served \ refused IN \E heard \in Served(Numbered(written)) :
          /\ history.lost + Cardinality(written) - Cardinality(heard) <= MaxLost
          /\ store' = [store EXCEPT !.facts = @ \union Numbered(written),
                                    !.next = @ + Cardinality(written)]
          /\ ing' = [ing EXCEPT
                       !.tries = @ + 1,
                       !.ids = Extended(@, IdsHeard(Unresolved, heard))]
          /\ history' = [history EXCEPT !.lost = @ + Cardinality(written) - Cardinality(heard),
                                        !.refused = @ + Cardinality(refused)]
    /\ UNCHANGED tree

\* All written, or four attempts made.  Without the repository's own fact there is
\* no graph; an end of an edge that has no id is left out.
PlanEdges ==
    /\ ing.pc = "facts"
    /\ Over(Unresolved)
    /\ LET ids == ing.ids
           known == {l \in ing.links : l[1] \in DOMAIN ids /\ l[2] \in DOMAIN ids}
       IN ing' = IF Repo \in DOMAIN ids
                 THEN [Rest EXCEPT !.pc = "edges",
                                   !.todo = {<<ids[l[1]], ids[l[2]], l[3]>> : l \in known}]
                 ELSE Rest
    /\ UNCHANGED <<tree, store, history>>

\* One batch of sm_add_graph_edge.
AddEdges ==
    /\ ing.pc = "edges"
    /\ AnotherTry /\ ing.todo /= {}
    /\ \E served \in Served(ing.todo) : \E refused \in Refused(served) :
       LET written == served \ refused IN \E heard \in Served(written) :
          /\ history.lost + Cardinality(written \ heard) <= MaxLost
          /\ store' = [store EXCEPT !.edges = @ \union written]
          /\ ing' = [ing EXCEPT !.tries = @ + 1, !.todo = @ \ heard]
          /\ history' = [history EXCEPT !.lost = @ + Cardinality(written \ heard),
                                        !.refused = @ + Cardinality(refused)]
    /\ UNCHANGED tree

Finish ==
    /\ ing.pc = "edges"
    /\ Over(ing.todo)
    /\ ing' = Rest
    /\ UNCHANGED <<tree, store, history>>

\* A batch that outlives its 300 s raises and ends the program, whatever it wrote.
RpcTimeout ==
    /\ ing.pc /= "idle"
    /\ \/ /\ ing.pc = "facts"
          /\ \E written \in Served(Unresolved) :
                store' = [store EXCEPT !.facts = @ \union Numbered(written),
                                       !.next = @ + Cardinality(written)]
       \/ /\ ing.pc = "edges"
          /\ \E written \in Served(ing.todo) :
                store' = [store EXCEPT !.edges = @ \union written]
       \/ /\ ing.pc = "search"
          /\ UNCHANGED store
    /\ history.lost < MaxLost
    /\ history' = [history EXCEPT !.lost = @ + 1]
    /\ ing' = Rest
    /\ UNCHANGED tree

IngesterStep ==
    FindExisting \/ AddFacts \/ PlanEdges \/ AddEdges \/ Finish \/ RpcTimeout

IngestCodebaseNext ==
    \/ EditManifest
    \/ \E dedupe \in BOOLEAN : StartIngester(dedupe)
    \/ IngesterStep

IngestCodebaseSpec ==
    /\ IngestCodebaseInit
    /\ [][IngestCodebaseNext]_ingesterVars
    /\ WF_ingesterVars(IngesterStep)

-----------------------------------------------------------------------------
IngestCodebaseTypeOK ==
    /\ \A f \in store.facts : f.num < store.next
    /\ ing.pc \in {"idle", "search", "facts", "edges"}
    /\ ing.tries \in 0..MaxAttempts
    /\ \A k \in DOMAIN ing.ids : ing.ids[k] < store.next

\* A fact is in the memory twice only for a reason: the answer to it was lost, a
\* search did not rank it first, or a run did not look for what is there.  A batch is
\* sent again up to three times, so this rests on what is left out of it.
DuplicatesHaveAReason ==
    \A f \in store.facts :
        Cardinality({g \in store.facts : Identical(g, f)})
            <= 1 + history.lost + history.undeduped

\* The fact stands for the component: it is about it, or a search took it for one
\* that is, by likeness alone.
StandsFor(g, key) == g.key = key \/ <<key, g.num>> \in history.taken

\* An edge says what a manifest says: it leads from a component to its repository,
\* or to a component its manifest names, in spite of answers that are missing from
\* a batch and components that were reused or never got an id.  Only a search that
\* took a fact for one like it can put another component in an end's place.
EdgesAreTrue ==
    \A e \in store.edges : \E a, b \in store.facts :
        /\ a.num = e[1] /\ b.num = e[2]
        /\ \E n \in 1..Len(Manifests) :
              /\ StandsFor(a, Manifests[n].name)
              /\ IF e[3] = "belongs_to" THEN StandsFor(b, Repo)
                 ELSE \E d \in Manifests[n].deps : StandsFor(b, d)

\* Every ingest ends, even with a server that accepts batches and answers nothing.
IngestsEnd == []<>(ing.pc = "idle")
=============================================================================
