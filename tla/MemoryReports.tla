--------------------------- MODULE MemoryReports ---------------------------
(***************************************************************************)
(* Read-only reports on a memory that others write: the audit              *)
(* (audit_memory.py), which counts facts page by page and compares two     *)
(* searches, and the gap detector (memory-gaps.py).                        *)
(***************************************************************************)
EXTENDS Naturals, FiniteSets, FiniteSetsExt

CONSTANTS Entries,
          PageSize,      \* facts of a page, 100 in the code
          FewHits,       \* fewer hits are low recall, 3 in the code
          MaxUpkeep,     \* bound on changes of the memory and of the server
          NoFact         \* a search without results

ASSUME ReportsAssumption ==
    /\ IsFiniteSet(Entries)
    /\ PageSize \in Nat \ {0}
    /\ {FewHits, MaxUpkeep} \subseteq Nat

VARIABLES facts,         \* the facts of the namespace
          edges,         \* facts with a graph edge
          replaced,      \* facts that a newer one supersedes
          answering,     \* the server answers
          audit,         \* the audit: where it is and what it found
          gapReport,     \* the gap detector
          upkeep

reportVars == <<facts, edges, replaced, answering, audit, gapReport, upkeep>>
memoryVars == <<facts, edges, replaced, answering, upkeep>>

-----------------------------------------------------------------------------
\* What sm_list_facts counts in the page at an offset.
PageCount(offset) ==
    IF offset >= Cardinality(facts) THEN 0 ELSE Min({Cardinality(facts) - offset, PageSize})

\* The first result of a search, any fact or none.
Tops == IF facts = {} THEN {NoFact} ELSE facts

NewAudit == [at |-> "stats", ok |-> FALSE, targets |-> {}, graphRead |-> FALSE,
             offset |-> 0, total |-> 0, least |-> 0, most |-> 0, failed |-> FALSE,
             rows |-> {}]

StartAudit ==
    /\ audit.at = "idle"
    /\ audit' = NewAudit
    /\ UNCHANGED <<gapReport, memoryVars>>

\* A call that is not answered counts as an empty answer; one that hangs for
\* 30 s ends the audit with nothing printed.
AuditAborts ==
    /\ audit.at \in {"stats", "graph", "count", "search"} /\ ~answering
    /\ audit' = [audit EXCEPT !.at = "aborted"]
    /\ UNCHANGED <<gapReport, memoryVars>>

\* sm_stats and sm_list_namespaces decide the audit's ok.
AuditStats ==
    /\ audit.at = "stats"
    /\ audit' = [audit EXCEPT !.ok = answering,
         !.at = "graph"]
    /\ UNCHANGED <<gapReport, memoryVars>>

\* supersession_summary
AuditGraph ==
    /\ audit.at = "graph"
    /\ audit' = [audit EXCEPT !.targets = IF answering THEN replaced ELSE {},
         !.graphRead = answering,
         !.at = IF audit.ok THEN "count" ELSE "search",
         !.least = Cardinality(facts), !.most = Cardinality(facts)]
    /\ UNCHANGED <<gapReport, memoryVars>>

\* Mutant of LastPage: a page that is just full ends the count too.
LastPageIfFull(page) == page <= PageSize

LastPage(page) == page < PageSize

\* namespace_counts: a short page is the last one, and so is one that failed.
CountPage ==
    /\ audit.at = "count"
    /\ LET page == IF answering THEN PageCount(audit.offset) ELSE 0 IN
       audit' = [audit EXCEPT !.total = @ + page, !.failed = @ \/ ~answering,
                   !.offset = @ + PageSize,
                   !.at = IF LastPage(page) THEN "search" ELSE "count"]
    /\ UNCHANGED <<gapReport, memoryVars>>

\* retrieval_cases, for a query about what is current: a superseded result or two
\* searches that disagree are a stale risk.
StaleRisk(plain, routed) ==
    \/ {plain, routed} \cap audit.targets # {}
    \/ plain # NoFact /\ routed # NoFact /\ plain # routed

AuditSearch ==
    /\ audit.at = "search"
    /\ \E plain, routed \in IF answering THEN Tops ELSE {NoFact} :
         audit' = [audit EXCEPT !.at = "done",
           !.rows = {[tops |-> {plain, routed}, stale |-> StaleRisk(plain, routed)]}]
    /\ UNCHANGED <<gapReport, memoryVars>>

EndAudit ==
    /\ audit.at \in {"done", "aborted"}
    /\ audit' = [audit EXCEPT !.at = "idle"]
    /\ UNCHANGED <<gapReport, memoryVars>>

-----------------------------------------------------------------------------
\* What a search shows: it failed, or it found little.
SearchGaps(hits, answered) ==
    IF ~answered THEN {"search_failed"}
    ELSE IF Cardinality(hits) < FewHits THEN {"low_recall"} ELSE {}

NewReport == [at |-> "health", available |-> FALSE, gaps |-> {}, hits |-> {},
              looked |-> {}, bare |-> {}, few |-> FALSE]

StartGapReport ==
    /\ gapReport.at = "idle"
    /\ gapReport' = NewReport
    /\ UNCHANGED <<audit, memoryVars>>

\* Without a healthy server the report is empty and says so.
GapHealth ==
    /\ gapReport.at = "health"
    /\ gapReport' = [gapReport EXCEPT !.available = answering,
         !.at = IF answering THEN "search" ELSE "done"]
    /\ UNCHANGED <<audit, memoryVars>>

GapSearch ==
    /\ gapReport.at = "search"
    /\ gapReport' = [gapReport EXCEPT !.gaps = SearchGaps(facts, answering),
         !.hits = IF answering THEN facts ELSE {},
         !.few = Cardinality(facts) < FewHits,
         !.at = IF answering THEN "edges" ELSE "done"]
    /\ UNCHANGED <<audit, memoryVars>>

\* The edges of one hit: no answer counts as no edges.
GapEdges ==
    /\ gapReport.at = "edges"
    /\ \E hit \in gapReport.hits \ gapReport.looked :
         gapReport' = [gapReport EXCEPT !.looked = @ \union {hit},
           !.bare = IF answering /\ hit \in edges THEN @ ELSE @ \union {hit}]
    /\ UNCHANGED <<audit, memoryVars>>

\* More than seven in ten without edges, of more than two hits.
GapDone ==
    /\ gapReport.at = "edges" /\ gapReport.looked = gapReport.hits
    /\ LET hits == Cardinality(gapReport.hits) IN
       gapReport' = [gapReport EXCEPT !.at = "done",
         !.gaps = @ \union (IF 10 * Cardinality(gapReport.bare) > 7 * hits /\ hits > 2
                            THEN {"missing_graph_edges"} ELSE {})]
    /\ UNCHANGED <<audit, memoryVars>>

EndGapReport ==
    /\ gapReport.at = "done"
    /\ gapReport' = [gapReport EXCEPT !.at = "idle"]
    /\ UNCHANGED <<audit, memoryVars>>

-----------------------------------------------------------------------------
\* External: agents write the memory; the server comes and goes. The audit's
\* bounds are the fewest and the most facts there were while it counted.
Upkeep ==
    /\ upkeep < MaxUpkeep /\ upkeep' = upkeep + 1
    /\ \/ \E f \in Entries : /\ facts' = IF f \in facts THEN facts \ {f} ELSE facts \union {f}
                           /\ UNCHANGED <<edges, replaced, answering>>
       \/ \E f \in facts \ edges : edges' = edges \union {f} /\ UNCHANGED <<facts, replaced, answering>>
       \/ \E f \in facts \ replaced : /\ replaced' = replaced \union {f}
                                      /\ UNCHANGED <<facts, edges, answering>>
       \/ answering' = ~answering /\ UNCHANGED <<facts, edges, replaced>>
    /\ audit' = IF audit.at = "count"
                THEN [audit EXCEPT !.least = Min({@, Cardinality(facts')}),
                                   !.most = Max({@, Cardinality(facts')})]
                ELSE audit
    /\ UNCHANGED gapReport

ReportsInit ==
    /\ facts \in SUBSET Entries /\ edges = {} /\ replaced = {} /\ answering = TRUE
    /\ audit = [NewAudit EXCEPT !.at = "idle"]
    /\ gapReport = [NewReport EXCEPT !.at = "idle"]
    /\ upkeep = 0

ReportsNext ==
    \/ StartAudit \/ AuditAborts \/ AuditStats \/ AuditGraph
    \/ CountPage \/ AuditSearch \/ EndAudit
    \/ StartGapReport \/ GapHealth \/ GapSearch \/ GapEdges \/ GapDone \/ EndGapReport
    \/ Upkeep

ReportsSpec == ReportsInit /\ [][ReportsNext]_reportVars

-----------------------------------------------------------------------------
\* Types of the state.
ReportsTypeOK ==
    /\ facts \subseteq Entries /\ edges \subseteq Entries /\ replaced \subseteq Entries
    /\ answering \in BOOLEAN /\ upkeep \in 0..MaxUpkeep
    /\ audit.at \in {"idle", "stats", "graph", "count", "search", "done", "aborted"}
    /\ audit.total \in Nat /\ audit.targets \subseteq Entries
    /\ gapReport.at \in {"idle", "health", "search", "edges", "done"}
    /\ gapReport.gaps \subseteq {"search_failed", "low_recall", "missing_graph_edges"}
    /\ gapReport.bare \subseteq gapReport.looked /\ gapReport.looked \subseteq gapReport.hits

\* A count that no failed page cut short is a number of facts the namespace could
\* have had while it was counted, though facts come and go between the pages.
CountIsOfTheAudit ==
    audit.at = "done" /\ audit.ok /\ ~audit.failed
    => audit.total \in audit.least..audit.most

\* An outage is not reported as thin knowledge: low recall is found only of a
\* memory that had few facts, however the server comes and goes in the report.
OutageIsNotLowRecall == "low_recall" \in gapReport.gaps => gapReport.few

\* The reports on a memory that changes under them.
ReportsAreTrue == CountIsOfTheAudit /\ OutageIsNotLowRecall
=============================================================================
