---------------------------- MODULE PageIdentity ----------------------------
(***************************************************************************)
(* The pages of one document across its versions: which stable page every  *)
(* source page of a new version is, when a human must decide it, what is   *)
(* tombstoned, and which review a page version inherits (ADR-0004).        *)
(*                                                                         *)
(* The plan is computed inside the transaction that activates, pauses or   *)
(* confirms a version, so acceptance and processing of a version (module   *)
(* Ingestion) happen inside one action here.  A page is named by the       *)
(* version and page number that created it: page_id and chunk_id are fresh *)
(* there and never change.  The snapshots behind a review, the evidence    *)
(* files and the soft deletion of the document are left out.               *)
(***************************************************************************)
EXTENDS Naturals, FiniteSets

CONSTANTS
    Versions,       \* version identities; bounds the history
    Numbers,        \* page numbers
    Decks,          \* the source files: functions from page numbers to
                    \* [content, slide, hidden]; content stands for the fingerprint
    Verdicts,       \* the human verdicts that are given
    None            \* NULL

ASSUME PageAssumption ==
    /\ None \notin Versions /\ IsFiniteSet(Versions)
    /\ \A d \in Decks : DOMAIN d \subseteq Numbers
    /\ Verdicts \subseteq {"approved", "excluded"}

VARIABLES
    status,         \* document_versions.status
    readyAt,        \* document_versions.ready_at as a rank, 0 while NULL
    current,        \* documents.current_version_id
    deck,           \* ingestion_page_results of the version
    placed,         \* page_versions: the page behind every enabled page number
    live,           \* pages with deleted_at IS NULL
    cases,          \* page_mapping_cases: [candidates, decision, page] by page number
    review,         \* review_status and review_source_version_id of page_versions
    disturbed       \* history: a mapping waits, and since it does a ready version was
                    \* voided or a hidden page enabled; no action reads it

vars == <<status, readyAt, current, deck, placed, live, cases, review, disturbed>>

Pages == Versions \X Numbers
Pending == [status |-> "pending", source |-> None]
Empty == [n \in {} |-> None]

Ready == {v \in Versions : status[v] = "ready"}
Waiting == \E v \in Versions : status[v] = "awaiting_mapping"
Visible(d) == {n \in DOMAIN d : ~d[n].hidden}
PagesOf(v) == {placed[v][n] : n \in DOMAIN placed[v]}
\* Mutant: versions are counted, not activations.
Accepted == Cardinality({v \in Versions : status[v] # "absent"})
Activations == Cardinality({v \in Versions : readyAt[v] # 0})

\* ORDER BY ready_at DESC LIMIT 1, None when there is no row.
Newest(S) ==
    IF S = {} THEN None ELSE CHOOSE v \in S : \A u \in S : readyAt[u] <= readyAt[v]

\* The page versions of all ready versions.
\* Mutant: of the current version only.
CurrentHistory ==
    {x \in Versions \X Numbers : x[1] = current /\ x[2] \in DOMAIN placed[x[1]]}
History == {x \in Ready \X Numbers : x[2] \in DOMAIN placed[x[1]]}

\* The row has one candidate, and no other row can be that page.
\* Mutant: other rows are not looked at.
OneCandidate(candidates, n) == \E p \in candidates[n] : candidates[n] = {p}
OnlyCandidate(candidates, n) ==
    \E p \in candidates[n] :
        /\ candidates[n] = {p}
        /\ \A m \in DOMAIN candidates : p \in candidates[m] => m = n

-----------------------------------------------------------------------------
(* _build_page_mapping_plan for the page numbers `rows` of deck d: cur is the *)
(* version whose slide ids count, used the pages the target already has.      *)

Plan(cur, used, d, rows) ==
    LET history == History
        candidates ==
            [n \in rows |->
                {placed[x[1]][x[2]] : x \in
                    {y \in history : deck[y[1]][y[2]].content = d[n].content}} \ used]
        \* reused without asking
        sameContent == {n \in rows : OnlyCandidate(candidates, n)}
        \* anything else with candidates, and repeated content, is for a human
        unclear ==
            {n \in rows \ sameContent :
                \/ candidates[n] # {}
                \/ cur # None /\ \E m \in rows \ {n} : d[m].content = d[n].content}
        taken == UNION {candidates[n] : n \in sameContent}
        \* pages of cur that had the slide id and are not reused by content
        slide ==
            [n \in rows |->
                IF cur = None THEN {}
                ELSE {placed[cur][m] : m \in {k \in DOMAIN placed[cur] :
                                                deck[cur][k].slide = d[n].slide}} \ taken]
        rest == rows \ (sameContent \cup unclear)
        sameSlide ==
            {n \in rest : /\ Cardinality(slide[n]) = 1
                          /\ \A m \in rest : d[m].slide = d[n].slide => m = n}
        conflict == {n \in rest \ sameSlide : slide[n] # {}}
    IN [match |-> [n \in sameContent \cup sameSlide |->
                        CHOOSE p \in IF n \in sameContent THEN candidates[n] ELSE slide[n] : TRUE],
        asked |-> [n \in unclear \cup conflict |-> candidates[n] \cup slide[n]]]

\* The review a page version of page p with content c starts with: that of the
\* most recent ready page version of the same page and content, if it has one.
ReviewOfNewest(same) ==
    IF same = {} THEN Pending
    ELSE LET newest == Newest({x[1] : x \in same})
         IN review[newest][CHOOSE n \in Numbers : <<newest, n>> \in same]

\* Mutants: the content is not compared; a pending review is passed over.
InheritedByPage(p, c) == ReviewOfNewest({x \in History : placed[x[1]][x[2]] = p})
InheritedVerdict(p, c) ==
    ReviewOfNewest({x \in History : /\ placed[x[1]][x[2]] = p
                                    /\ deck[x[1]][x[2]].content = c
                                    /\ review[x[1]][x[2]].status # "pending"})
Inherited(p, c) ==
    ReviewOfNewest({x \in History : /\ placed[x[1]][x[2]] = p
                                    /\ deck[x[1]][x[2]].content = c})

-----------------------------------------------------------------------------
Init ==
    /\ status = [v \in Versions |-> "absent"]
    /\ readyAt = [v \in Versions |-> 0]
    /\ current = None
    /\ deck = [v \in Versions |-> Empty]
    /\ placed = [v \in Versions |-> Empty]
    /\ live = {}
    /\ cases = [v \in Versions |-> Empty]
    /\ review = [v \in Versions |-> Empty]
    /\ disturbed = FALSE

\* Reused pages revive, pages of the document the version lacks are tombstoned.
LiveAfter(pages) == pages

\* _materialize_page_versions and the switch: rows without an identity become new
\* pages.
Materialize(v, d, identity) ==
    LET page == [n \in Visible(d) |->
                    IF n \in DOMAIN identity THEN identity[n] ELSE <<v, n>>]
    IN /\ placed' = [placed EXCEPT ![v] = page]
       /\ live' = LiveAfter({page[n] : n \in Visible(d)})
       /\ review' = [review EXCEPT ![v] =
                        [n \in Visible(d) |-> Inherited(page[n], d[n].content)]]
       /\ status' = [status EXCEPT ![v] = "ready"]
       /\ readyAt' = [readyAt EXCEPT ![v] = Activations + 1]
       /\ current' = v

\* At most one version of a document is being ingested or mapped.
Acceptable(v) ==
    /\ status[v] = "absent"
    /\ \A u \in Versions : status[u] # "awaiting_mapping"

\* _activate_first_version of an unambiguous version.
ActivateVersion(v, d) ==
    LET plan == Plan(current, {}, d, Visible(d)) IN
    /\ Acceptable(v)
    /\ DOMAIN plan.asked = {}
    /\ deck' = [deck EXCEPT ![v] = d]
    /\ Materialize(v, d, plan.match)
    /\ UNCHANGED <<cases, disturbed>>

\* _activate_first_version of an ambiguous one: record the cases and wait.
PauseForMapping(v, d) ==
    LET plan == Plan(current, {}, d, Visible(d)) IN
    /\ Acceptable(v)
    /\ DOMAIN plan.asked # {}
    /\ deck' = [deck EXCEPT ![v] = d]
    /\ status' = [status EXCEPT ![v] = "awaiting_mapping"]
    /\ cases' = [cases EXCEPT ![v] =
                    [n \in DOMAIN plan.asked |->
                        [candidates |-> plan.asked[n], decision |-> "undecided", page |-> None]]]
    /\ disturbed' = FALSE
    /\ UNCHANGED <<readyAt, current, placed, live, review>>

\* PUT .../page-mapping/cases/{n}: the page number is a new page, page = None, or
\* reuses a candidate that neither another decision nor the plan has taken.
SavePageMappingDecision(v, n, page) ==
    /\ status[v] = "awaiting_mapping"
    /\ n \in DOMAIN cases[v]
    /\ page # None =>
        /\ page \in cases[v][n].candidates
        /\ \A m \in DOMAIN cases[v] \ {n} : cases[v][m].page # page
        /\ LET match == Plan(current, {}, deck[v], Visible(deck[v])).match
           IN \A m \in DOMAIN match : match[m] # page
    /\ cases' = [cases EXCEPT ![v][n].decision = IF page = None THEN "new" ELSE "reuse",
                              ![v][n].page = page]
    /\ UNCHANGED <<status, readyAt, current, deck, placed, live, review, disturbed>>

\* POST .../page-mapping/confirm: the plan is computed again, over the history as
\* it is now, and the reuse decisions are added to its matches.
\* Mutant: a reused page is taken for a new one.
NewIdentities(v) ==
    LET match == Plan(current, {}, deck[v], Visible(deck[v])).match
        reused == {n \in DOMAIN cases[v] : cases[v][n].decision = "reuse"}
    IN [n \in DOMAIN match \cup reused |->
            IF n \in reused THEN <<v, n>> ELSE match[n]]
Identities(v) ==
    LET match == Plan(current, {}, deck[v], Visible(deck[v])).match
        reused == {n \in DOMAIN cases[v] : cases[v][n].decision = "reuse"}
    IN [n \in DOMAIN match \cup reused |->
            IF n \in reused THEN cases[v][n].page ELSE match[n]]

\* No page is taken twice, by the plan and a decision or by two decisions.
TakenOnce(v) ==
    LET page == Identities(v)
        fresh == Plan(current, {}, deck[v], Visible(deck[v])).match
        reused == {n \in DOMAIN cases[v] : cases[v][n].decision = "reuse"}
    IN /\ \A m, n \in reused : page[m] = page[n] => m = n
       /\ \A m \in DOMAIN fresh, n \in reused : fresh[m] # page[n]

ConfirmPageMapping(v) ==
    /\ status[v] = "awaiting_mapping"
    /\ \A n \in DOMAIN cases[v] : cases[v][n].decision # "undecided"
    \* every candidate still has a ready page version to show as evidence
    /\ \A n \in DOMAIN cases[v] : cases[v][n].candidates \subseteq UNION {PagesOf(u) : u \in Ready}
    /\ TakenOnce(v)
    /\ Materialize(v, deck[v], Identities(v))
    /\ disturbed' = FALSE
    /\ UNCHANGED <<deck, cases>>

\* POST .../versions/{v}/void: tombstones are not touched.
VoidVersion(v) ==
    /\ status[v] \in {"awaiting_mapping", "ready"}
    /\ status' = [status EXCEPT ![v] = "voided"]
    /\ current' = IF current = v THEN Newest(Ready \ {v}) ELSE current
    /\ disturbed' = (status[v] = "ready" /\ Waiting)
    /\ UNCHANGED <<readyAt, deck, placed, live, cases, review>>

\* _activate_hidden_page: the plan for one row against the ready version before v.
EnabledPage(v, n) ==
    LET match == Plan(Newest(Ready \ {v}), PagesOf(v), deck[v], {n}).match
    IN IF n \in DOMAIN match THEN match[n] ELSE <<v, n>>

\* The INSERT fails on UNIQUE (version_id, page_id) when v has the page already.
EnableHiddenPage(v, n) ==
    LET page == EnabledPage(v, n) IN
    /\ v = current
    /\ n \in DOMAIN deck[v] \ DOMAIN placed[v]
    /\ page \notin PagesOf(v)
    /\ placed' = [placed EXCEPT ![v] = [m \in DOMAIN @ \cup {n} |-> IF m = n THEN page ELSE @[m]]]
    /\ review' = [review EXCEPT ![v] = [m \in DOMAIN @ \cup {n} |->
                    IF m = n THEN Inherited(page, deck[v][n].content) ELSE @[m]]]
    /\ live' = live \cup {page}
    /\ disturbed' = Waiting
    /\ UNCHANGED <<status, readyAt, current, deck, cases>>

\* approve_page (its curation checks passed) and exclude_page.
ReviewPage(n, verdict) ==
    /\ current # None
    /\ n \in DOMAIN placed[current]
    /\ review[current][n].status = "pending"
    /\ review' = [review EXCEPT ![current][n] = [status |-> verdict, source |-> current]]
    /\ UNCHANGED <<status, readyAt, current, deck, placed, live, cases, disturbed>>

ReopenPage(n) ==
    /\ current # None
    /\ n \in DOMAIN placed[current]
    /\ review[current][n].status # "pending"
    /\ review' = [review EXCEPT ![current][n] = Pending]
    /\ UNCHANGED <<status, readyAt, current, deck, placed, live, cases, disturbed>>

Next ==
    \/ \E v \in Versions, d \in Decks : ActivateVersion(v, d) \/ PauseForMapping(v, d)
    \/ \E v \in Versions, n \in Numbers, page \in Pages \cup {None} :
            SavePageMappingDecision(v, n, page)
    \/ \E v \in Versions : ConfirmPageMapping(v) \/ VoidVersion(v)
    \/ \E v \in Versions, n \in Numbers : EnableHiddenPage(v, n)
    \/ \E n \in Numbers, verdict \in Verdicts : ReviewPage(n, verdict)
    \/ \E n \in Numbers : ReopenPage(n)

Spec == Init /\ [][Next]_vars

-----------------------------------------------------------------------------
TypeOK ==
    /\ status \in [Versions -> {"absent", "awaiting_mapping", "ready", "voided"}]
    /\ readyAt \in [Versions -> 0..Cardinality(Versions)]
    /\ current \in Versions \cup {None}
    /\ live \subseteq Pages
    /\ disturbed \in BOOLEAN
    /\ \A v \in Versions :
        /\ deck[v] = Empty \/ deck[v] \in Decks
        /\ DOMAIN placed[v] \subseteq DOMAIN deck[v]
        /\ DOMAIN review[v] = DOMAIN placed[v]
        /\ DOMAIN cases[v] \subseteq Visible(deck[v])
        /\ PagesOf(v) \subseteq Pages
        /\ \A n \in DOMAIN cases[v] :
            /\ cases[v][n].candidates \subseteq Pages
            /\ cases[v][n].decision \in {"undecided", "new", "reuse"}
            /\ cases[v][n].page \in Pages \cup {None}
        /\ \A n \in DOMAIN review[v] :
            review[v][n] \in [status : {"pending"} \cup Verdicts,
                              source : Versions \cup {None}]

\* The versions of the document move as VersionLifecycle says, which Ingestion
\* implements: once ready or voided for good, current is the latest ready version.
\* A version that is not accepted yet counts as one that is being processed.
Document == {"document"}
Lifecycle == INSTANCE VersionLifecycle WITH
    Documents <- Document,
    status <- [v \in Versions |-> IF status[v] = "absent" THEN "processing" ELSE status[v]],
    owner <- [v \in Versions |-> "document"],
    current <- [d \in Document |-> current],
    activations <- Activations
MovesAsLifecycle == [][Lifecycle!Next]_<<status, readyAt, current>>

\* Two page numbers of a version are never the same page: neither an activation nor the
\* confirmation of a mapping loses a page or runs into UNIQUE (version_id, page_id).  It
\* is this index that keeps an enabling from breaking the rule: HiddenPagesCanBeEnabled.
OnePagePerVersion ==
    \A v \in Versions : \A m, n \in DOMAIN placed[v] : placed[v][m] = placed[v][n] => m = n

\* The live pages are those of the current version, unless a void has moved it back.
LiveIsCurrent ==
    current # None /\ (\A v \in Versions : readyAt[v] <= readyAt[current])
        => live = PagesOf(current)

\* Content that any ready version has keeps its page in a version that activates
\* without asking: identity never forks silently.
KnownContentKeepsItsPage ==
    [][\A v \in Versions : status[v] = "absent" /\ status'[v] = "ready" =>
          \A u \in Ready, m, n \in Numbers :
             /\ m \in DOMAIN placed[u]
             /\ n \in DOMAIN placed'[v]
             /\ deck[u][m].content = deck'[v][n].content
             => placed'[v][n] = placed[u][m]]_vars

\* A review is inherited, or a human gave it: the version it names as its source has
\* the same page with the same content, and the same review of it.
ReviewsAreEarned ==
    \A v \in Versions : \A n \in DOMAIN review[v] :
        review[v][n].status # "pending" =>
            LET s == review[v][n].source IN
            \E m \in DOMAIN placed[s] :
                /\ placed[s][m] = placed[v][n]
                /\ deck[s][m].content = deck[v][n].content
                /\ v \in Ready /\ s \in Ready => review[s][m] = review[v][n]

\* A reopened review stays reopened: an older verdict never comes back past a
\* ready version in which the same page with the same content is pending.
NoReviewResurrected ==
    \A v, w \in Ready : \A n \in DOMAIN review[v], m \in DOMAIN review[w] :
        LET s == review[v][n].source IN
        /\ s \in Ready
        /\ readyAt[s] < readyAt[w]
        /\ readyAt[w] < readyAt[v]
        /\ placed[w][m] = placed[v][n]
        /\ deck[w][m].content = deck[v][n].content
        => review[w][m].status # "pending"

\* A confirmed mapping is the one the human decided: every page number that is
\* ambiguous was decided, a reused page is the chosen one, a new page is a new one
\* (ADR-0004: a human decides each of them before the version becomes current).
ConfirmedAsDecided ==
    [][\A v \in Versions : status[v] = "awaiting_mapping" /\ status'[v] = "ready" =>
          /\ DOMAIN Plan(current, {}, deck[v], Visible(deck[v])).asked \subseteq DOMAIN cases[v]
          /\ \A n \in DOMAIN cases[v] :
                placed'[v][n] = IF cases[v][n].decision = "reuse" THEN cases[v][n].page
                                                                 ELSE <<v, n>>]_vars

\* What a human decided and the code keeps of it.  A page that was chosen is taken,
\* whatever happens before the confirmation.  A page that was called new is new, and
\* nothing is ambiguous that nobody was asked about, unless a ready version was voided
\* or a hidden page enabled while the mapping was waiting: nothing else overturns it.
DecisionsStand ==
    [][\A v \in Versions : status[v] = "awaiting_mapping" /\ status'[v] = "ready" =>
          /\ \A n \in DOMAIN cases[v] :
                /\ cases[v][n].decision = "reuse" => placed'[v][n] = cases[v][n].page
                /\ cases[v][n].decision # "reuse" => placed'[v][n] = <<v, n>> \/ disturbed
          /\ DOMAIN Plan(current, {}, deck[v], Visible(deck[v])).asked \subseteq DOMAIN cases[v]
             \/ disturbed]_vars

\* A page is tombstoned because it is not in the current version (ADR-0004).
CurrentPagesAreLive == current # None => PagesOf(current) \subseteq live

\* Every hidden page of the current version can be enabled (ADR-0004).
HiddenPagesCanBeEnabled ==
    current # None =>
        \A n \in DOMAIN deck[current] \ DOMAIN placed[current] :
            EnabledPage(current, n) \notin PagesOf(current)
=============================================================================
