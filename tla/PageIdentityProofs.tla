------------------------- MODULE PageIdentityProofs -------------------------
(***************************************************************************)
(* PageIdentity for any number of versions and any decks.  No activation   *)
(* or confirmation gives two page numbers of a version the same page;      *)
(* known content keeps its page; what a human decided stands unless the    *)
(* history is disturbed; and a review is always one that a human gave to   *)
(* the same page with the same content and did not reopen.                 *)
(*                                                                         *)
(* The identities follow from one fact about the plan: what it matches it  *)
(* matches to different pages.  The reviews follow from the order of       *)
(* activations: only the newest ready version is reviewed, and it inherits *)
(* from the newest one before it.                                          *)
(***************************************************************************)
EXTENDS PageIdentity, FiniteSetTheorems, WellFoundedInduction, TLAPS

Reviews == [status : {"pending"} \cup Verdicts, source : Versions \cup {None}]
Cases == [candidates : SUBSET Pages, decision : {"undecided", "new", "reuse"},
          page : Pages \cup {None}]

Types ==
    /\ status \in [Versions -> {"absent", "awaiting_mapping", "ready", "voided"}]
    /\ readyAt \in [Versions -> Nat]
    /\ current \in Versions \cup {None}
    /\ live \subseteq Pages
    /\ deck = [v \in Versions |-> deck[v]] /\ placed = [v \in Versions |-> placed[v]]
    /\ cases = [v \in Versions |-> cases[v]] /\ review = [v \in Versions |-> review[v]]
    /\ \A v \in Versions :
        /\ deck[v] = Empty \/ deck[v] \in Decks
        /\ DOMAIN placed[v] \subseteq DOMAIN deck[v]
        /\ placed[v] \in [DOMAIN placed[v] -> Pages]
        /\ review[v] \in [DOMAIN placed[v] -> Reviews]
        /\ DOMAIN cases[v] \subseteq Visible(deck[v])
        /\ cases[v] \in [DOMAIN cases[v] -> Cases]

\* Activations are numbered in their order; only what was accepted has a deck, and
\* only what was activated has pages.
RanksInOrder ==
    /\ \A v \in Versions :
        /\ status[v] = "absent" => deck[v] = Empty
        /\ readyAt[v] <= Activations
        /\ status[v] \in {"absent", "awaiting_mapping"} => readyAt[v] = 0
        /\ status[v] = "ready" => readyAt[v] # 0
        /\ readyAt[v] = 0 => DOMAIN placed[v] = {}
    /\ \A u, v \in Versions : readyAt[u] = readyAt[v] /\ readyAt[v] # 0 => u = v

\* The current version is the ready one that was activated last.
CurrentIsNewest ==
    /\ current = None => Ready = {}
    /\ current # None => current \in Ready /\ \A u \in Ready : readyAt[u] <= readyAt[current]

\* A page is named by a version that was activated: <<v, n>> is new when v is.
PagesAreMade ==
    \A v \in Versions : \A n \in DOMAIN placed[v] : readyAt[placed[v][n][1]] # 0

\* A page that a decision reuses is one of the candidates it was shown.
ReusedWasCandidate ==
    \A v \in Versions : \A n \in DOMAIN cases[v] :
        cases[v][n].decision = "reuse" => cases[v][n].page \in cases[v][n].candidates

\* A review that is not pending names an activation that was not later.
ReviewsAreTraced ==
    \A v \in Versions : \A n \in DOMAIN placed[v] :
        IF review[v][n].status = "pending" THEN review[v][n] = Pending
        ELSE /\ review[v][n].source \in Versions
             /\ readyAt[review[v][n].source] <= readyAt[v]

Order == Types /\ RanksInOrder /\ CurrentIsNewest
PagesInv == Order /\ PagesAreMade /\ ReusedWasCandidate /\ OnePagePerVersion
ReviewsInv == ReviewsAreTraced /\ ReviewsAreEarned /\ NoReviewResurrected
IInv == PagesInv /\ LiveIsCurrent /\ ReviewsInv

-----------------------------------------------------------------------------
(* The newest version of a set. *)

\* A nonempty set of natural numbers has a least element.
LEMMA LeastNat ==
    ASSUME NEW T, T \subseteq Nat, T # {}
    PROVE  \E x \in T : \A y \in T : x <= y
<1>1. IsWellFoundedOn(OpToRel(<, Nat), Nat)
  BY NatLessThanWellFounded
<1>2. \A x, y \in Nat : <<x, y>> \in OpToRel(<, Nat) <=> x < y
  BY DEF OpToRel
<1>3. PICK R : IsWellFoundedOn(R, Nat) /\ \A x, y \in Nat : <<x, y>> \in R <=> x < y
  BY <1>1, <1>2
<1>4. IsWellFoundedOn(R, Nat)
  BY <1>3
<1>5. \E x \in T : \A y \in T : ~ (<<y, x>> \in R)
  BY <1>4, WFMin
<1>6. PICK x \in T : \A y \in T : ~ (<<y, x>> \in R)
  BY <1>5
<1>7. \A y \in T : ~ (y < x)
  BY <1>3, <1>6
<1>8. \A y \in T : x <= y
  BY <1>7, SMT
<1> QED
  BY <1>8

LEMMA RanksAreNat == Activations \in Nat /\ Cardinality(Versions) \in Nat
                     /\ Activations <= Cardinality(Versions)
<1>1. {v \in Versions : readyAt[v] # 0} \in SUBSET Versions
  OBVIOUS
<1> QED
  BY <1>1, PageAssumption, FS_Subset, FS_CardinalityType DEF Activations

LEMMA NewestIn ==
    ASSUME Types, RanksInOrder, NEW S, S \subseteq Versions, S # {}
    PROVE  Newest(S) \in S /\ \A u \in S : readyAt[u] <= readyAt[Newest(S)]
<1> DEFINE a == Activations
           T == {a - readyAt[u] : u \in S}
<1>1. a \in Nat
  BY RanksAreNat
<1>2. \A u \in S : readyAt[u] \in Nat /\ readyAt[u] <= a
  BY DEF Types, RanksInOrder
<1> HIDE DEF a
<1>3. T \subseteq Nat /\ T # {}
  BY <1>1, <1>2
<1>4. PICK x \in T : \A y \in T : x <= y
  BY <1>3, LeastNat
<1>5. PICK v \in S : x = a - readyAt[v]
  OBVIOUS
<1>6. ASSUME NEW u \in S PROVE readyAt[u] <= readyAt[v]
  <2>1. a - readyAt[v] <= a - readyAt[u]
    BY <1>4, <1>5
  <2> QED
    BY <1>1, <1>2, <2>1
<1> QED
  BY <1>6 DEF Newest

-----------------------------------------------------------------------------
(* What the plan matches, and what is inherited. *)

\* The page of some page version of an activated version.
Taken(p) == \E u \in Versions : \E k \in DOMAIN placed[u] : p = placed[u][k]

\* The plan matches its rows to different pages, all of which exist.
LEMMA PlanMatches ==
    ASSUME PagesInv, NEW cur \in Versions \cup {None}, NEW used, NEW d, NEW rows
    PROVE  LET match == Plan(cur, used, d, rows).match
           IN /\ DOMAIN match \subseteq rows
              /\ \A n \in DOMAIN match : Taken(match[n])
              /\ \A m, n \in DOMAIN match : match[m] = match[n] => m = n
<1> DEFINE history == History
           candidates ==
            [n \in rows |->
                {placed[x[1]][x[2]] : x \in
                    {y \in history : deck[y[1]][y[2]].content = d[n].content}} \ used]
           sameContent == {n \in rows : OnlyCandidate(candidates, n)}
           unclear ==
            {n \in rows \ sameContent :
                \/ candidates[n] # {}
                \/ cur # None /\ \E m \in rows \ {n} : d[m].content = d[n].content}
           taken == UNION {candidates[n] : n \in sameContent}
           slide ==
            [n \in rows |->
                IF cur = None THEN {}
                ELSE {placed[cur][m] : m \in {k \in DOMAIN placed[cur] :
                                                deck[cur][k].slide = d[n].slide}} \ taken]
           rest == rows \ (sameContent \cup unclear)
           sameSlide ==
            {n \in rest : /\ Cardinality(slide[n]) = 1
                          /\ \A m \in rest : d[m].slide = d[n].slide => m = n}
           match == Plan(cur, used, d, rows).match
<1>1. match = [n \in sameContent \cup sameSlide |->
                CHOOSE p \in IF n \in sameContent THEN candidates[n] ELSE slide[n] : TRUE]
  BY DEF Plan
<1>2. ASSUME NEW n \in rows, NEW p \in candidates[n]
      PROVE  Taken(p)
  BY <1>2 DEF History, Ready, Taken
<1>3. ASSUME NEW n \in sameContent
      PROVE  /\ match[n] \in candidates[n]
             /\ \A m \in rows : match[n] \in candidates[m] => m = n
             /\ match[n] \in taken
  <2>1. PICK p \in candidates[n] :
            /\ candidates[n] = {p}
            /\ \A m \in rows : p \in candidates[m] => m = n
    BY DEF OnlyCandidate
  <2> HIDE DEF candidates
  <2>2. match[n] = p
    BY <1>1, <2>1
  <2> QED
    BY <2>1, <2>2
<1>4. ASSUME NEW n \in sameSlide
      PROVE  /\ n \in rest /\ n \notin sameContent /\ match[n] \notin taken
             /\ cur # None
             /\ \E k \in DOMAIN placed[cur] :
                    deck[cur][k].slide = d[n].slide /\ match[n] = placed[cur][k]
  <2>1. n \in rest /\ n \in rows /\ n \notin sameContent
    OBVIOUS
  <2>2. slide[n] # {}
    <3>1. Cardinality(slide[n]) = 1
      OBVIOUS
    <3> HIDE DEF slide, sameSlide
    <3> QED
      BY <3>1, FS_EmptySet
  <2>3. match[n] \in slide[n]
    <3> HIDE DEF slide, sameSlide, sameContent, candidates, match
    <3> QED
      BY <1>1, <2>1, <2>2
  <2> HIDE DEF taken, rest, sameContent, match
  <2> QED
    BY <2>1, <2>3
<1> HIDE DEF match, sameContent, sameSlide, slide, taken, candidates, unclear, rest, history
<1>5. DOMAIN match = sameContent \cup sameSlide
  BY <1>1
<1>6. DOMAIN match \subseteq rows
  BY <1>5 DEF sameContent, sameSlide, rest
<1>7. ASSUME NEW n \in DOMAIN match
      PROVE  Taken(match[n])
  <2>1. CASE n \in sameContent
    BY <1>2, <1>3, <1>6, <2>1
  <2>2. CASE n \in sameSlide
    BY <1>4, <2>2 DEF Taken
  <2> QED
    BY <1>5, <2>1, <2>2
<1>8. ASSUME NEW m \in DOMAIN match, NEW n \in DOMAIN match, match[m] = match[n]
      PROVE  m = n
  <2>1. CASE m \in sameContent /\ n \in sameContent
    BY <1>3, <1>6, <1>8, <2>1
  <2>2. CASE \/ m \in sameContent /\ n \in sameSlide
             \/ m \in sameSlide /\ n \in sameContent
    BY <1>3, <1>4, <1>8, <2>2
  <2>3. CASE m \in sameSlide /\ n \in sameSlide
    <3>1. PICK k \in DOMAIN placed[cur] :
            deck[cur][k].slide = d[m].slide /\ match[m] = placed[cur][k]
      BY <1>4, <2>3
    <3>2. PICK l \in DOMAIN placed[cur] :
            deck[cur][l].slide = d[n].slide /\ match[n] = placed[cur][l]
      BY <1>4, <2>3
    <3>3. cur \in Versions
      BY <1>4, <2>3
    <3>4. k = l
      BY <1>8, <3>1, <3>2, <3>3 DEF PagesInv, OnePagePerVersion
    <3>5. d[m].slide = d[n].slide
      BY <3>1, <3>2, <3>4
    <3> QED
      BY <1>4, <2>3, <3>5 DEF sameSlide
  <2> QED
    BY <1>5, <2>1, <2>2, <2>3
<1> QED
  BY <1>6, <1>7, <1>8 DEF match

\* What the plan asks a human about are pages that exist.
LEMMA PlanAsks ==
    ASSUME PagesInv, NEW cur \in Versions \cup {None}, NEW used, NEW d, NEW rows
    PROVE  LET asked == Plan(cur, used, d, rows).asked
           IN /\ DOMAIN asked \subseteq rows
              /\ \A n \in DOMAIN asked : \A p \in asked[n] : Taken(p)
<1> DEFINE history == History
           candidates ==
            [n \in rows |->
                {placed[x[1]][x[2]] : x \in
                    {y \in history : deck[y[1]][y[2]].content = d[n].content}} \ used]
           sameContent == {n \in rows : OnlyCandidate(candidates, n)}
           unclear ==
            {n \in rows \ sameContent :
                \/ candidates[n] # {}
                \/ cur # None /\ \E m \in rows \ {n} : d[m].content = d[n].content}
           taken == UNION {candidates[n] : n \in sameContent}
           slide ==
            [n \in rows |->
                IF cur = None THEN {}
                ELSE {placed[cur][m] : m \in {k \in DOMAIN placed[cur] :
                                                deck[cur][k].slide = d[n].slide}} \ taken]
           rest == rows \ (sameContent \cup unclear)
           sameSlide ==
            {n \in rest : /\ Cardinality(slide[n]) = 1
                          /\ \A m \in rest : d[m].slide = d[n].slide => m = n}
           conflict == {n \in rest \ sameSlide : slide[n] # {}}
           asked == Plan(cur, used, d, rows).asked
<1>1. asked = [n \in unclear \cup conflict |-> candidates[n] \cup slide[n]]
  BY DEF Plan
<1>2. unclear \cup conflict \subseteq rows
  OBVIOUS
<1>3. ASSUME NEW n \in rows, NEW p \in candidates[n]
      PROVE  Taken(p)
  BY <1>3 DEF History, Ready, Taken
<1>4. ASSUME NEW n \in rows, NEW p \in slide[n]
      PROVE  Taken(p)
  <2> HIDE DEF taken
  <2> QED
    BY <1>4 DEF Taken
<1> HIDE DEF candidates, slide, unclear, conflict, asked
<1> QED
  BY <1>1, <1>2, <1>3, <1>4 DEF asked

LEMMA DeckNumbers ==
    ASSUME Types, NEW v \in Versions
    PROVE  /\ DOMAIN deck[v] \subseteq Numbers /\ Visible(deck[v]) \subseteq Numbers
           /\ DOMAIN placed[v] \subseteq Numbers
           /\ \A n \in DOMAIN placed[v] : placed[v][n] \in Pages
<1>1. DOMAIN Empty = {}
  BY DEF Empty
<1>2. DOMAIN deck[v] \subseteq Numbers
  BY <1>1, PageAssumption DEF Types
<1> QED
  BY <1>2 DEF Types, Visible

LEMMA TakenIsMade ==
    ASSUME PagesInv, NEW p, Taken(p)
    PROVE  p \in Pages /\ readyAt[p[1]] # 0
  BY DEF PagesInv, Order, PagesAreMade, Taken, Types

\* A page version starts with the review of the last ready version in which its page
\* had the same content, if there is one.
LEMMA InheritedFrom ==
    ASSUME Order, OnePagePerVersion, NEW p, NEW c
    PROVE  \/ Inherited(p, c) = Pending
           \/ \E u \in Ready : \E k \in DOMAIN placed[u] :
                /\ placed[u][k] = p /\ deck[u][k].content = c
                /\ Inherited(p, c) = review[u][k]
                /\ \A w \in Ready : \A m \in DOMAIN placed[w] :
                        placed[w][m] = p /\ deck[w][m].content = c
                            => readyAt[w] <= readyAt[u]
<1> DEFINE same == {x \in History : /\ placed[x[1]][x[2]] = p
                                    /\ deck[x[1]][x[2]].content = c}
           newest == Newest({x[1] : x \in same})
           k == CHOOSE n \in Numbers : <<newest, n>> \in same
<1>1. Inherited(p, c) = IF same = {} THEN Pending ELSE review[newest][k]
  BY DEF Inherited, ReviewOfNewest
<1>2. \A x : x \in same <=>
            /\ x \in Ready \X Numbers /\ x[2] \in DOMAIN placed[x[1]]
            /\ placed[x[1]][x[2]] = p /\ deck[x[1]][x[2]].content = c
  BY DEF History
<1>3. SUFFICES ASSUME same # {}
               PROVE  /\ newest \in Ready /\ k \in DOMAIN placed[newest]
                      /\ placed[newest][k] = p /\ deck[newest][k].content = c
                      /\ \A w \in Ready : \A m \in DOMAIN placed[w] :
                            placed[w][m] = p /\ deck[w][m].content = c
                                => readyAt[w] <= readyAt[newest]
  BY <1>1
<1> HIDE DEF same
<1>4. {x[1] : x \in same} \subseteq Versions /\ {x[1] : x \in same} # {}
  BY <1>2, <1>3 DEF Ready
<1>5. /\ newest \in {x[1] : x \in same}
      /\ \A u \in {x[1] : x \in same} : readyAt[u] <= readyAt[newest]
  BY <1>4, NewestIn DEF Order
<1> HIDE DEF newest
<1>6. \E n \in Numbers : <<newest, n>> \in same
  <2>1. PICK x \in same : newest = x[1]
    BY <1>5
  <2>2. x = <<newest, x[2]>> /\ x[2] \in Numbers
    BY <1>2, <2>1
  <2> QED
    BY <2>1, <2>2
<1>7. <<newest, k>> \in same
  BY <1>6
<1> HIDE DEF k
<1>8. /\ newest \in Ready /\ k \in DOMAIN placed[newest]
      /\ placed[newest][k] = p /\ deck[newest][k].content = c
  BY <1>2, <1>7
<1>9. ASSUME NEW w \in Ready, NEW m \in DOMAIN placed[w],
             placed[w][m] = p, deck[w][m].content = c
      PROVE  readyAt[w] <= readyAt[newest]
  <2>1. m \in Numbers
    BY DeckNumbers DEF Order, Ready
  <2>2. <<w, m>> \in same
    BY <1>2, <1>9, <2>1
  <2>3. <<w, m>>[1] = w
    OBVIOUS
  <2>4. w \in {x[1] : x \in same}
    BY <2>2, <2>3
  <2> QED
    BY <1>5, <2>4
<1> QED
  BY <1>8, <1>9

-----------------------------------------------------------------------------
(* What the steps do. *)

\* The version v gets the pages of deck d: the common part of an activation and of the
\* confirmation of a mapping.
Installed(v, d, page) ==
    /\ status[v] \in {"absent", "awaiting_mapping"}
    /\ d = Empty \/ d \in Decks
    /\ DOMAIN cases[v] \subseteq Visible(d)
    /\ page \in [Visible(d) -> Pages]
    /\ \A n \in Visible(d) : page[n] = <<v, n>> \/ Taken(page[n])
    /\ \A m, n \in Visible(d) : page[m] = page[n] => m = n
    /\ status' = [status EXCEPT ![v] = "ready"]
    /\ readyAt' = [readyAt EXCEPT ![v] = Activations + 1]
    /\ current' = v
    /\ deck' = [deck EXCEPT ![v] = d]
    /\ placed' = [placed EXCEPT ![v] = page]
    /\ live' = {page[n] : n \in Visible(d)}
    /\ review' = [review EXCEPT ![v] = [n \in Visible(d) |-> Inherited(page[n], d[n].content)]]
    /\ UNCHANGED cases

\* What is asked of the identities that a version is materialized with.
Identifies(v, d, identity) ==
    /\ status[v] \in {"absent", "awaiting_mapping"}
    /\ d = Empty \/ d \in Decks
    /\ DOMAIN cases[v] \subseteq Visible(d)
    /\ \A n \in DOMAIN identity : Taken(identity[n])
    /\ \A m, n \in DOMAIN identity : identity[m] = identity[n] => m = n

LEMMA Materialized ==
    ASSUME PagesInv, NEW v \in Versions, NEW d, NEW identity,
           Identifies(v, d, identity),
           deck' = [deck EXCEPT ![v] = d], UNCHANGED cases,
           Materialize(v, d, identity)
    PROVE  \E page : Installed(v, d, page)
<1> USE DEF Identifies
<1> DEFINE page == [n \in Visible(d) |->
                        IF n \in DOMAIN identity THEN identity[n] ELSE <<v, n>>]
<1>1. Visible(d) \subseteq Numbers
  <2>1. DOMAIN Empty = {}
    BY DEF Empty
  <2> QED
    BY <2>1, PageAssumption DEF Visible
<1>2. readyAt[v] = 0
  BY DEF PagesInv, Order, RanksInOrder
<1>3. ASSUME NEW n \in Visible(d)
      PROVE  page[n] \in Pages /\ (page[n] = <<v, n>> \/ Taken(page[n]))
  <2>1. CASE n \in DOMAIN identity
    BY <2>1, TakenIsMade
  <2>2. CASE n \notin DOMAIN identity
    BY <1>1, <2>2 DEF Pages
  <2> QED
    BY <2>1, <2>2
<1>4. ASSUME NEW m \in Visible(d), NEW n \in Visible(d), page[m] = page[n]
      PROVE  m = n
  <2>1. \A k \in DOMAIN identity : \A l : identity[k] # <<v, l>>
    <3> SUFFICES ASSUME NEW k \in DOMAIN identity, NEW l, identity[k] = <<v, l>>
                 PROVE  FALSE
      OBVIOUS
    <3>1. readyAt[identity[k][1]] # 0 /\ identity[k][1] = v
      BY TakenIsMade
    <3> QED
      BY <1>2, <3>1
  <2>2. CASE m \in DOMAIN identity /\ n \in DOMAIN identity
    BY <1>4, <2>2
  <2>3. CASE m \notin DOMAIN identity /\ n \notin DOMAIN identity
    BY <1>4, <2>3
  <2>4. CASE ~(m \in DOMAIN identity <=> n \in DOMAIN identity)
    BY <1>4, <2>1, <2>4
  <2> QED
    BY <2>2, <2>3, <2>4
<1>5. /\ placed' = [placed EXCEPT ![v] = page]
      /\ live' = {page[n] : n \in Visible(d)}
      /\ review' = [review EXCEPT ![v] =
                        [n \in Visible(d) |-> Inherited(page[n], d[n].content)]]
      /\ status' = [status EXCEPT ![v] = "ready"]
      /\ readyAt' = [readyAt EXCEPT ![v] = Activations + 1]
      /\ current' = v
  BY DEF Materialize, LiveAfter
<1>6. page \in [Visible(d) -> Pages]
  BY <1>3
<1> HIDE DEF page
<1>7. Installed(v, d, page)
  BY <1>3, <1>4, <1>5, <1>6 DEF Installed
<1> QED
  BY <1>7

LEMMA ActivationInstalls ==
    ASSUME PagesInv, NEW v \in Versions, NEW d \in Decks, ActivateVersion(v, d)
    PROVE  \E page : Installed(v, d, page)
<1> DEFINE match == Plan(current, {}, d, Visible(d)).match
<1>1. /\ status[v] = "absent" /\ deck' = [deck EXCEPT ![v] = d] /\ UNCHANGED cases
      /\ Materialize(v, d, match)
  BY DEF ActivateVersion, Acceptable
<1>2. /\ \A n \in DOMAIN match : Taken(match[n])
      /\ \A m, n \in DOMAIN match : match[m] = match[n] => m = n
  BY PlanMatches DEF PagesInv, Order, Types
<1>3. DOMAIN cases[v] \subseteq Visible(d)
  <2>1. Visible(Empty) = {}
    BY DEF Visible, Empty
  <2> QED
    BY <1>1, <2>1 DEF PagesInv, Order, Types, RanksInOrder
<1>4. PICK identity : identity = match
  OBVIOUS
<1>5. Materialize(v, d, identity)
  BY <1>1, <1>4
<1> HIDE DEF match
<1>6. Identifies(v, d, identity)
  BY <1>1, <1>2, <1>3, <1>4 DEF Identifies
<1> QED
  BY <1>1, <1>5, <1>6, Materialized

LEMMA ConfirmationInstalls ==
    ASSUME PagesInv, NEW v \in Versions, ConfirmPageMapping(v)
    PROVE  \E page : Installed(v, deck[v], page)
<1> DEFINE match == Plan(current, {}, deck[v], Visible(deck[v])).match
           reused == {n \in DOMAIN cases[v] : cases[v][n].decision = "reuse"}
           identity == Identities(v)
<1>1. /\ \A n \in DOMAIN match : Taken(match[n])
      /\ \A m, n \in DOMAIN match : match[m] = match[n] => m = n
  BY PlanMatches DEF PagesInv, Order, Types
<1>2. identity = [n \in DOMAIN match \cup reused |->
                    IF n \in reused THEN cases[v][n].page ELSE match[n]]
  BY DEF Identities
<1>3. /\ \A m, n \in reused : identity[m] = identity[n] => m = n
      /\ \A m \in DOMAIN match, n \in reused : match[m] # identity[n]
  BY DEF ConfirmPageMapping, TakenOnce
<1>4. ASSUME NEW n \in reused
      PROVE  Taken(cases[v][n].page)
  <2>1. cases[v][n].page \in cases[v][n].candidates
    BY DEF PagesInv, ReusedWasCandidate
  <2>2. cases[v][n].page \in UNION {PagesOf(u) : u \in Ready}
    BY <2>1 DEF ConfirmPageMapping
  <2> QED
    BY <2>2 DEF PagesOf, Ready, Taken
<1> HIDE DEF match, reused, identity
<1>5. /\ DOMAIN identity = DOMAIN match \cup reused
      /\ \A n \in reused : identity[n] = cases[v][n].page
      /\ \A n \in DOMAIN match \ reused : identity[n] = match[n]
  BY <1>2
<1>6. \A n \in DOMAIN identity : Taken(identity[n])
  BY <1>1, <1>4, <1>5
<1>7. ASSUME NEW m \in DOMAIN identity, NEW n \in DOMAIN identity, identity[m] = identity[n]
      PROVE  m = n
  <2>1. CASE m \in reused /\ n \in reused
    BY <1>3, <1>7, <2>1
  <2>2. CASE m \notin reused /\ n \notin reused
    BY <1>1, <1>5, <1>7, <2>2
  <2>3. CASE ~(m \in reused <=> n \in reused)
    BY <1>3, <1>5, <1>7, <2>3
  <2> QED
    BY <2>1, <2>2, <2>3
<1>8. /\ status[v] = "awaiting_mapping" /\ UNCHANGED <<deck, cases>>
      /\ Materialize(v, deck[v], identity)
  BY DEF ConfirmPageMapping, identity
<1>9. /\ deck[v] = Empty \/ deck[v] \in Decks
      /\ DOMAIN cases[v] \subseteq Visible(deck[v])
      /\ deck' = [deck EXCEPT ![v] = deck[v]]
  BY <1>8 DEF PagesInv, Order, Types
<1>10. PICK d, i : d = deck[v] /\ i = identity
  OBVIOUS
<1>11. Materialize(v, d, i)
  BY <1>8, <1>10
<1>12. Identifies(v, d, i)
  BY <1>6, <1>7, <1>8, <1>9, <1>10 DEF Identifies
<1>13. \E page : Installed(v, d, page)
  BY <1>8, <1>9, <1>10, <1>11, <1>12, Materialized
<1> QED
  BY <1>10, <1>13

\* A hidden page of the current version gets a page it does not have yet.
Enabled(v, n, page) ==
    /\ v = current /\ status[v] = "ready"
    /\ n \in DOMAIN deck[v] \ DOMAIN placed[v] /\ n \in Numbers
    /\ page \in Pages /\ page \notin PagesOf(v)
    /\ page = <<v, n>> \/ Taken(page)
    /\ placed' = [placed EXCEPT ![v] =
                    [m \in DOMAIN placed[v] \cup {n} |-> IF m = n THEN page ELSE placed[v][m]]]
    /\ review' = [review EXCEPT ![v] =
                    [m \in DOMAIN placed[v] \cup {n} |->
                        IF m = n THEN Inherited(page, deck[v][n].content) ELSE review[v][m]]]
    /\ live' = live \cup {page}
    /\ UNCHANGED <<status, readyAt, current, deck, cases>>

LEMMA EnablingAddsAPage ==
    ASSUME PagesInv, NEW v \in Versions, NEW n \in Numbers, EnableHiddenPage(v, n)
    PROVE  Enabled(v, n, EnabledPage(v, n))
<1> DEFINE match == Plan(Newest(Ready \ {v}), PagesOf(v), deck[v], {n}).match
           page == EnabledPage(v, n)
<1>1. Newest(Ready \ {v}) \in Versions \cup {None}
  <2>1. CASE Ready \ {v} = {}
    BY <2>1 DEF Newest
  <2>2. CASE Ready \ {v} # {}
    BY <2>2, NewestIn DEF PagesInv, Order, Ready
  <2> QED
    BY <2>1, <2>2
<1>2. \A m \in DOMAIN match : Taken(match[m])
  BY <1>1, PlanMatches
<1>3. page = IF n \in DOMAIN match THEN match[n] ELSE <<v, n>>
  BY DEF EnabledPage
<1> HIDE DEF match
<1>4. page = <<v, n>> \/ Taken(page)
  BY <1>2, <1>3
<1>5. page \in Pages
  BY <1>4, TakenIsMade DEF Pages
<1>6. v \in Ready
  BY PageAssumption DEF EnableHiddenPage, PagesInv, Order, CurrentIsNewest
<1>7. DOMAIN review[v] = DOMAIN placed[v]
  BY DEF PagesInv, Order, Types
<1>8. /\ v = current /\ n \in DOMAIN deck[v] \ DOMAIN placed[v] /\ page \notin PagesOf(v)
      /\ live' = live \cup {page}
      /\ UNCHANGED <<status, readyAt, current, deck, cases>>
      /\ placed' = [placed EXCEPT ![v] =
                    [m \in DOMAIN placed[v] \cup {n} |-> IF m = n THEN page ELSE placed[v][m]]]
      /\ review' = [review EXCEPT ![v] =
                    [m \in DOMAIN placed[v] \cup {n} |->
                        IF m = n THEN Inherited(page, deck[v][n].content) ELSE review[v][m]]]
  BY <1>7 DEF EnableHiddenPage
<1> HIDE DEF page
<1> QED
  BY <1>4, <1>5, <1>6, <1>8 DEF Enabled, Ready, page

-----------------------------------------------------------------------------
(* Pages and their order are kept. *)

LEMMA OneMoreActivation ==
    ASSUME PagesInv, NEW v \in Versions, NEW d, NEW page, Installed(v, d, page)
    PROVE  Activations' = Activations + 1
<1> DEFINE made == {u \in Versions : readyAt[u] # 0}
<1>1. made' = made \cup {v} /\ v \notin made
  <2>1. readyAt[v] = 0 /\ readyAt'[v] # 0
    BY RanksAreNat DEF Installed, PagesInv, Order, RanksInOrder, Types
  <2>2. \A u \in Versions \ {v} : readyAt'[u] = readyAt[u]
    BY DEF Installed, PagesInv, Order, Types
  <2> QED
    BY <2>1, <2>2
<1>2. made \in SUBSET Versions
  OBVIOUS
<1>3. IsFiniteSet(made)
  BY <1>2, PageAssumption, FS_Subset
<1>4. Activations = Cardinality(made) /\ Activations' = Cardinality(made')
  BY DEF Activations
<1> HIDE DEF made
<1> QED
  BY <1>1, <1>3, <1>4, FS_AddElement

LEMMA InstalledPages ==
    ASSUME PagesInv, LiveIsCurrent, NEW v \in Versions, NEW d, NEW page, Installed(v, d, page)
    PROVE  PagesInv' /\ LiveIsCurrent'
<1> USE DEF PagesInv, Order
<1>1. /\ readyAt[v] = 0 /\ Activations \in Nat /\ v \notin Ready /\ v # None
      /\ \A n \in Visible(d) : n \in DOMAIN d /\ n \in Numbers
  <2>1. DOMAIN Empty = {}
    BY DEF Empty
  <2>2. readyAt[v] = 0 /\ v \notin Ready
    BY DEF Installed, RanksInOrder, Ready
  <2>3. \A n \in Visible(d) : n \in DOMAIN d /\ n \in Numbers
    BY <2>1, PageAssumption DEF Installed, Visible
  <2> QED
    BY <2>2, <2>3, RanksAreNat, PageAssumption
<1>2. /\ readyAt'[v] = Activations + 1 /\ status'[v] = "ready" /\ current' = v
      /\ deck'[v] = d /\ placed'[v] = page
      /\ review'[v] = [n \in Visible(d) |-> Inherited(page[n], d[n].content)]
      /\ DOMAIN placed'[v] = Visible(d)
      /\ cases' = cases
  BY DEF Installed, Types
<1>3. \A u \in Versions \ {v} :
            /\ readyAt'[u] = readyAt[u] /\ status'[u] = status[u]
            /\ deck'[u] = deck[u] /\ placed'[u] = placed[u] /\ review'[u] = review[u]
  BY DEF Installed, Types
<1>4. \A n \in Visible(d) : Inherited(page[n], d[n].content) \in Reviews
  <2> SUFFICES ASSUME NEW n \in Visible(d)
               PROVE  Inherited(page[n], d[n].content) \in Reviews
    OBVIOUS
  <2>1. Pending \in Reviews
    BY DEF Pending, Reviews
  <2>2. \A u \in Ready : \A k \in DOMAIN placed[u] : review[u][k] \in Reviews
    BY DEF Types, Ready
  <2>3. \/ Inherited(page[n], d[n].content) = Pending
        \/ \E u \in Ready : \E k \in DOMAIN placed[u] :
                Inherited(page[n], d[n].content) = review[u][k]
    BY InheritedFrom
  <2> QED
    BY <2>1, <2>2, <2>3
<1>5. Types'
  <2>1. /\ status' \in [Versions -> {"absent", "awaiting_mapping", "ready", "voided"}]
        /\ readyAt' \in [Versions -> Nat]
    BY <1>1 DEF Installed, Types
  <2>2. /\ live' \subseteq Pages /\ current' \in Versions \cup {None}
        /\ page \in [Visible(d) -> Pages]
    BY DEF Installed
  <2>3. /\ deck' = [u \in Versions |-> deck'[u]] /\ placed' = [u \in Versions |-> placed'[u]]
        /\ review' = [u \in Versions |-> review'[u]] /\ cases' = [u \in Versions |-> cases'[u]]
    BY DEF Installed, Types
  <2>4. ASSUME NEW u \in Versions
        PROVE  /\ deck'[u] = Empty \/ deck'[u] \in Decks
               /\ DOMAIN placed'[u] \subseteq DOMAIN deck'[u]
               /\ placed'[u] \in [DOMAIN placed'[u] -> Pages]
               /\ review'[u] \in [DOMAIN placed'[u] -> Reviews]
               /\ DOMAIN cases'[u] \subseteq Visible(deck'[u])
               /\ cases'[u] \in [DOMAIN cases'[u] -> Cases]
    <3>1. CASE u = v
      <4>1. d = Empty \/ d \in Decks
        BY DEF Installed
      <4>2. DOMAIN cases[v] \subseteq Visible(d) /\ cases[v] \in [DOMAIN cases[v] -> Cases]
        BY DEF Installed, Types
      <4>3. review'[v] \in [Visible(d) -> Reviews]
        BY <1>2, <1>4
      <4> QED
        BY <1>1, <1>2, <2>2, <3>1, <4>1, <4>2, <4>3
    <3>2. CASE u # v
      <4>1. /\ deck'[u] = deck[u] /\ placed'[u] = placed[u] /\ review'[u] = review[u]
            /\ cases'[u] = cases[u]
        BY <1>2, <1>3, <3>2
      <4> QED
        BY <4>1 DEF Types
    <3> QED
      BY <3>1, <3>2
  <2>5. \A u \in Versions : Visible(deck'[u]) = Visible(deck[u])'
    BY DEF Visible
  <2> QED
    BY <2>1, <2>2, <2>3, <2>4, <2>5 DEF Types
<1>6. Activations' = Activations + 1
  BY OneMoreActivation
<1>7. RanksInOrder'
  <2>1. ASSUME NEW u \in Versions
        PROVE  /\ status'[u] = "absent" => deck'[u] = Empty
               /\ readyAt'[u] <= Activations'
               /\ status'[u] \in {"absent", "awaiting_mapping"} => readyAt'[u] = 0
               /\ status'[u] = "ready" => readyAt'[u] # 0
               /\ readyAt'[u] = 0 => DOMAIN placed'[u] = {}
               /\ u # v => readyAt'[u] \in Nat /\ readyAt'[u] <= Activations
    <3>1. CASE u = v
      BY <1>1, <1>2, <1>6, <3>1
    <3>2. CASE u # v
      BY <1>1, <1>3, <1>6, <3>2 DEF RanksInOrder, Types
    <3> QED
      BY <3>1, <3>2
  <2>2. ASSUME NEW u \in Versions, NEW w \in Versions, readyAt'[u] = readyAt'[w], readyAt'[u] # 0
        PROVE  u = w
    <3>1. CASE u # v /\ w # v
      BY <1>3, <2>2, <3>1 DEF RanksInOrder
    <3>2. CASE u = v \/ w = v
      BY <1>1, <1>2, <2>1, <2>2, <3>2
    <3> QED
      BY <3>1, <3>2
  <2> QED
    BY <2>1, <2>2 DEF RanksInOrder
<1>8. CurrentIsNewest'
  <2>1. v \in Ready'
    BY <1>2 DEF Ready
  <2>2. ASSUME NEW u \in Ready' PROVE readyAt'[u] <= readyAt'[v]
    BY <1>1, <1>2, <1>5, <1>6, <1>7 DEF Ready, RanksInOrder, Types
  <2> QED
    BY <1>1, <1>2, <2>1, <2>2 DEF CurrentIsNewest
<1>9. PagesAreMade'
  <2> SUFFICES ASSUME NEW u \in Versions, NEW n \in DOMAIN placed'[u]
               PROVE  readyAt'[placed'[u][n][1]] # 0
    BY DEF PagesAreMade
  <2>1. \A p : Taken(p) => readyAt'[p[1]] # 0
    <3> SUFFICES ASSUME NEW p, Taken(p) PROVE readyAt'[p[1]] # 0
      OBVIOUS
    <3>1. readyAt[p[1]] # 0 /\ p[1] \in Versions
      BY TakenIsMade DEF Pages
    <3> QED
      BY <1>1, <1>3, <3>1
  <2>2. CASE u = v
    <3>1. page[n] = <<v, n>> \/ Taken(page[n])
      BY <1>2, <2>2 DEF Installed
    <3> QED
      BY <1>1, <1>2, <2>1, <2>2, <3>1
  <2>3. CASE u # v
    BY <1>3, <2>1, <2>3 DEF Taken
  <2> QED
    BY <2>2, <2>3
<1>10. ReusedWasCandidate'
  BY <1>2 DEF ReusedWasCandidate
<1>11. OnePagePerVersion'
  <2> SUFFICES ASSUME NEW u \in Versions, NEW m \in DOMAIN placed'[u], NEW n \in DOMAIN placed'[u],
                      placed'[u][m] = placed'[u][n]
               PROVE  m = n
    BY DEF OnePagePerVersion
  <2>1. CASE u = v
    BY <1>2, <2>1 DEF Installed
  <2>2. CASE u # v
    BY <1>3, <2>2 DEF OnePagePerVersion
  <2> QED
    BY <2>1, <2>2
<1>12. LiveIsCurrent'
  <2>1. live' = PagesOf(v)'
    BY <1>2 DEF Installed, PagesOf
  <2>2. PagesOf(current)' = PagesOf(v)'
    BY <1>2 DEF PagesOf
  <2> QED
    BY <2>1, <2>2 DEF LiveIsCurrent
<1> QED
  BY <1>5, <1>7, <1>8, <1>9, <1>10, <1>11, <1>12

LEMMA EnabledPages ==
    ASSUME PagesInv, LiveIsCurrent, NEW v \in Versions, NEW n, NEW page, Enabled(v, n, page)
    PROVE  PagesInv' /\ LiveIsCurrent'
<1> USE DEF PagesInv, Order
<1>1. /\ v = current /\ v # None /\ readyAt[v] # 0
      /\ n \in DOMAIN deck[v] /\ n \in Numbers /\ n \notin DOMAIN placed[v]
  BY PageAssumption DEF Enabled, RanksInOrder
<1>2. /\ DOMAIN placed'[v] = DOMAIN placed[v] \cup {n}
      /\ placed'[v][n] = page /\ \A m \in DOMAIN placed[v] : placed'[v][m] = placed[v][m]
      /\ placed'[v] = [m \in DOMAIN placed[v] \cup {n} |-> IF m = n THEN page ELSE placed[v][m]]
      /\ review'[v] = [m \in DOMAIN placed[v] \cup {n} |->
                        IF m = n THEN Inherited(page, deck[v][n].content) ELSE review[v][m]]
  BY <1>1 DEF Enabled, Types
<1>3. \A u \in Versions \ {v} : placed'[u] = placed[u] /\ review'[u] = review[u]
  BY DEF Enabled, Types
<1>4. Inherited(page, deck[v][n].content) \in Reviews
  <2>1. Pending \in Reviews
    BY DEF Pending, Reviews
  <2>2. \A u \in Ready : \A k \in DOMAIN placed[u] : review[u][k] \in Reviews
    BY DEF Types, Ready
  <2>3. \/ Inherited(page, deck[v][n].content) = Pending
        \/ \E u \in Ready : \E k \in DOMAIN placed[u] :
                Inherited(page, deck[v][n].content) = review[u][k]
    BY InheritedFrom
  <2> QED
    BY <2>1, <2>2, <2>3
<1>5. Types'
  <2>1. /\ page \in Pages /\ live' \subseteq Pages
        /\ status' = status /\ readyAt' = readyAt /\ current' = current
        /\ deck' = deck /\ cases' = cases
    BY DEF Enabled, Types
  <2>2. /\ placed' = [u \in Versions |-> placed'[u]] /\ review' = [u \in Versions |-> review'[u]]
    BY DEF Enabled, Types
  <2>3. ASSUME NEW u \in Versions
        PROVE  /\ DOMAIN placed'[u] \subseteq DOMAIN deck[u]
               /\ placed'[u] \in [DOMAIN placed'[u] -> Pages]
               /\ review'[u] \in [DOMAIN placed'[u] -> Reviews]
    <3>1. /\ DOMAIN placed[u] \subseteq DOMAIN deck[u]
          /\ placed[u] \in [DOMAIN placed[u] -> Pages]
          /\ review[u] \in [DOMAIN placed[u] -> Reviews]
      BY DEF Types
    <3>2. CASE u = v
      <4>1. placed'[v] \in [DOMAIN placed[v] \cup {n} -> Pages]
        BY <1>2, <2>1, <3>1, <3>2
      <4>2. review'[v] \in [DOMAIN placed[v] \cup {n} -> Reviews]
        BY <1>2, <1>4, <3>1, <3>2
      <4> QED
        BY <1>1, <1>2, <3>1, <3>2, <4>1, <4>2
    <3>3. CASE u # v
      BY <1>3, <3>1, <3>3
    <3> QED
      BY <3>2, <3>3
  <2>4. \A u \in Versions : Visible(deck[u])' = Visible(deck[u])
    BY <2>1 DEF Visible
  <2> QED
    BY <2>1, <2>2, <2>3, <2>4 DEF Types
<1>6. RanksInOrder'
  <2>1. Activations' = Activations
    BY DEF Enabled, Activations
  <2> QED
    BY <1>1, <1>3, <2>1 DEF Enabled, RanksInOrder
<1>7. CurrentIsNewest' /\ ReusedWasCandidate'
  BY DEF Enabled, CurrentIsNewest, ReusedWasCandidate, Ready
<1>8. PagesAreMade'
  <2>1. page[1] \in Versions /\ readyAt[page[1]] # 0
    BY <1>1, TakenIsMade DEF Enabled, Pages
  <2> SUFFICES ASSUME NEW u \in Versions, NEW m \in DOMAIN placed'[u]
               PROVE  readyAt'[placed'[u][m][1]] # 0
    BY DEF PagesAreMade
  <2>2. CASE u = v /\ m = n
    BY <1>2, <2>1, <2>2 DEF Enabled
  <2>3. CASE ~(u = v /\ m = n)
    BY <1>2, <1>3, <2>3 DEF Enabled, PagesAreMade
  <2> QED
    BY <2>2, <2>3
<1>9. OnePagePerVersion'
  <2> SUFFICES ASSUME NEW u \in Versions, NEW k \in DOMAIN placed'[u], NEW m \in DOMAIN placed'[u],
                      placed'[u][k] = placed'[u][m]
               PROVE  k = m
    BY DEF OnePagePerVersion
  <2>1. CASE u = v
    <3>1. \A l \in DOMAIN placed[v] : placed[v][l] # page
      BY DEF Enabled, PagesOf
    <3> QED
      BY <1>2, <2>1, <3>1 DEF OnePagePerVersion
  <2>2. CASE u # v
    BY <1>3, <2>2 DEF OnePagePerVersion
  <2> QED
    BY <2>1, <2>2
<1>10. LiveIsCurrent'
  <2>1. PagesOf(v)' = PagesOf(v) \cup {page}
    <3>1. \A p : p \in PagesOf(v)' <=>
                \E m \in DOMAIN placed[v] \cup {n} : p = placed'[v][m]
      BY <1>2 DEF PagesOf
    <3>2. \A p : p \in PagesOf(v) <=> \E m \in DOMAIN placed[v] : p = placed[v][m]
      BY DEF PagesOf
    <3>3. ASSUME NEW p
          PROVE  p \in PagesOf(v)' <=> p \in PagesOf(v) \cup {page}
      <4>1. \A m \in DOMAIN placed[v] : placed'[v][m] = placed[v][m]
        BY <1>2
      <4>2. placed'[v][n] = page
        BY <1>2
      <4> QED
        BY <3>1, <3>2, <4>1, <4>2
    <3> QED
      BY <3>3
  <2>2. PagesOf(current)' = PagesOf(v)' /\ PagesOf(current) = PagesOf(v)
    BY <1>1 DEF Enabled, PagesOf
  <2> QED
    BY <1>1, <2>1, <2>2 DEF Enabled, LiveIsCurrent
<1> QED
  BY <1>5, <1>6, <1>7, <1>8, <1>9, <1>10

LEMMA PausedPages ==
    ASSUME PagesInv, LiveIsCurrent, NEW v \in Versions, NEW d \in Decks, PauseForMapping(v, d)
    PROVE  PagesInv' /\ LiveIsCurrent'
<1> USE DEF PagesInv, Order
<1> DEFINE asked == Plan(current, {}, d, Visible(d)).asked
<1>1. /\ status[v] = "absent" /\ readyAt[v] = 0 /\ DOMAIN placed[v] = {}
      /\ status' = [status EXCEPT ![v] = "awaiting_mapping"]
      /\ deck' = [deck EXCEPT ![v] = d]
      /\ cases' = [cases EXCEPT ![v] = [n \in DOMAIN asked |->
                        [candidates |-> asked[n], decision |-> "undecided", page |-> None]]]
      /\ readyAt' = readyAt /\ current' = current /\ placed' = placed
      /\ live' = live /\ review' = review
  BY DEF PauseForMapping, Acceptable, RanksInOrder
<1>2. DOMAIN asked \subseteq Visible(d) /\ \A n \in DOMAIN asked : asked[n] \subseteq Pages
  <2>1. current \in Versions \cup {None}
    BY DEF Types
  <2> QED
    BY <2>1, PlanAsks, TakenIsMade
<1> HIDE DEF asked
<1>3. cases'[v] \in [DOMAIN asked -> Cases] /\ DOMAIN cases'[v] = DOMAIN asked
  BY <1>1, <1>2 DEF Types, Cases
<1>4. \A n \in DOMAIN cases'[v] : cases'[v][n].decision = "undecided"
  BY <1>1 DEF Types
<1>5. \A u \in Versions \ {v} :
            status'[u] = status[u] /\ deck'[u] = deck[u] /\ cases'[u] = cases[u]
  BY <1>1 DEF Types
<1>6. deck'[v] = d /\ status'[v] = "awaiting_mapping"
  BY <1>1 DEF Types
<1>7. Types'
  <2>1. /\ status' \in [Versions -> {"absent", "awaiting_mapping", "ready", "voided"}]
        /\ deck' = [u \in Versions |-> deck'[u]] /\ cases' = [u \in Versions |-> cases'[u]]
    BY <1>1 DEF Types
  <2>2. ASSUME NEW u \in Versions
        PROVE  /\ deck'[u] = Empty \/ deck'[u] \in Decks
               /\ DOMAIN placed[u] \subseteq DOMAIN deck'[u]
               /\ DOMAIN cases'[u] \subseteq Visible(deck'[u])
               /\ cases'[u] \in [DOMAIN cases'[u] -> Cases]
    <3>1. CASE u = v
      BY <1>1, <1>2, <1>3, <1>6, <3>1
    <3>2. CASE u # v
      BY <1>5, <3>2 DEF Types
    <3> QED
      BY <3>1, <3>2
  <2>3. \A u \in Versions : Visible(deck'[u]) = Visible(deck[u])'
    BY DEF Visible
  <2> QED
    BY <1>1, <2>1, <2>2, <2>3 DEF Types
<1>8. RanksInOrder'
  <2>1. Activations' = Activations
    BY <1>1 DEF Activations
  <2> QED
    BY <1>1, <1>5, <1>6, <2>1 DEF RanksInOrder
<1>9. Ready' = Ready
  BY <1>1, <1>5, <1>6 DEF Ready
<1>10. CurrentIsNewest'
  BY <1>1, <1>9 DEF CurrentIsNewest
<1>11. ReusedWasCandidate'
  <2> SUFFICES ASSUME NEW u \in Versions, NEW n \in DOMAIN cases'[u],
                      cases'[u][n].decision = "reuse"
               PROVE  cases'[u][n].page \in cases'[u][n].candidates
    BY DEF ReusedWasCandidate
  <2> QED
    BY <1>4, <1>5 DEF ReusedWasCandidate
<1>12. PagesAreMade' /\ OnePagePerVersion' /\ LiveIsCurrent'
  BY <1>1 DEF PagesAreMade, OnePagePerVersion, LiveIsCurrent, PagesOf
<1> QED
  BY <1>7, <1>8, <1>10, <1>11, <1>12

LEMMA DecidedPages ==
    ASSUME PagesInv, LiveIsCurrent, NEW v \in Versions, NEW n \in Numbers,
           NEW page \in Pages \cup {None}, SavePageMappingDecision(v, n, page)
    PROVE  PagesInv' /\ LiveIsCurrent'
<1> USE DEF PagesInv, Order
<1> DEFINE decision == IF page = None THEN "new" ELSE "reuse"
           mid == [cases EXCEPT ![v][n].decision = decision]
<1>1. /\ n \in DOMAIN cases[v] /\ (page # None => page \in cases[v][n].candidates)
      /\ cases' = [mid EXCEPT ![v][n].page = page]
      /\ status' = status /\ readyAt' = readyAt /\ current' = current /\ deck' = deck
      /\ placed' = placed /\ live' = live /\ review' = review
  BY DEF SavePageMappingDecision
<1>2. /\ cases = [u \in Versions |-> cases[u]]
      /\ \A u \in Versions : cases[u] \in [DOMAIN cases[u] -> Cases]
  BY DEF Types
<1>3. cases[v][n] \in Cases
  BY <1>1, <1>2
<1>4. /\ mid = [u \in Versions |-> mid[u]]
      /\ \A u \in Versions \ {v} : mid[u] = cases[u]
      /\ mid[v] = [cases[v] EXCEPT ![n] = [cases[v][n] EXCEPT !.decision = decision]]
  BY <1>2
<1>5. [cases[v][n] EXCEPT !.decision = decision]
        = [candidates |-> cases[v][n].candidates, decision |-> decision,
           page |-> cases[v][n].page]
  BY <1>3 DEF Cases
<1>6. mid[v][n] = [candidates |-> cases[v][n].candidates, decision |-> decision,
                   page |-> cases[v][n].page]
  BY <1>1, <1>2, <1>4, <1>5
<1> HIDE DEF mid
<1>7. /\ cases' = [u \in Versions |-> cases'[u]]
      /\ \A u \in Versions \ {v} : cases'[u] = cases[u]
      /\ cases'[v] = [mid[v] EXCEPT ![n] = [mid[v][n] EXCEPT !.page = page]]
  BY <1>1, <1>4
<1>8. [mid[v][n] EXCEPT !.page = page]
        = [candidates |-> cases[v][n].candidates, decision |-> decision, page |-> page]
  BY <1>6
<1>9. cases'[v] = [cases[v] EXCEPT ![n] =
            [candidates |-> cases[v][n].candidates, decision |-> decision, page |-> page]]
  BY <1>1, <1>2, <1>4, <1>7, <1>8
<1>10. /\ DOMAIN cases'[v] = DOMAIN cases[v]
       /\ cases'[v] \in [DOMAIN cases[v] -> Cases]
  <2>1. [candidates |-> cases[v][n].candidates, decision |-> decision, page |-> page] \in Cases
    BY <1>3 DEF Cases
  <2> QED
    BY <1>2, <1>9, <2>1
<1>11. Types'
  <2>1. ASSUME NEW u \in Versions
        PROVE  /\ DOMAIN cases'[u] \subseteq Visible(deck[u])
               /\ cases'[u] \in [DOMAIN cases'[u] -> Cases]
    BY <1>7, <1>10 DEF Types
  <2>2. \A u \in Versions : Visible(deck[u])' = Visible(deck[u])
    BY <1>1 DEF Visible
  <2> QED
    BY <1>1, <1>7, <2>1, <2>2 DEF Types
<1>12. ReusedWasCandidate'
  <2> SUFFICES ASSUME NEW u \in Versions, NEW m \in DOMAIN cases'[u],
                      cases'[u][m].decision = "reuse"
               PROVE  cases'[u][m].page \in cases'[u][m].candidates
    BY DEF ReusedWasCandidate
  <2>1. CASE u = v /\ m = n
    <3>1. cases'[u][m] = [candidates |-> cases[v][n].candidates, decision |-> decision,
                          page |-> page]
      BY <1>1, <1>2, <1>9, <2>1
    <3> QED
      BY <1>1, <2>1, <3>1
  <2>2. CASE ~(u = v /\ m = n)
    <3>1. m \in DOMAIN cases[u] /\ cases'[u][m] = cases[u][m]
      BY <1>2, <1>7, <1>9, <1>10, <2>2
    <3> QED
      BY <3>1 DEF ReusedWasCandidate
  <2> QED
    BY <2>1, <2>2
<1>13. Activations' = Activations /\ Ready' = Ready
  BY <1>1 DEF Activations, Ready
<1>14. RanksInOrder' /\ CurrentIsNewest' /\ PagesAreMade' /\ OnePagePerVersion' /\ LiveIsCurrent'
  BY <1>1, <1>13 DEF RanksInOrder, CurrentIsNewest, PagesAreMade, OnePagePerVersion,
                     LiveIsCurrent, PagesOf
<1> QED
  BY <1>11, <1>12, <1>14

LEMMA VoidedPages ==
    ASSUME PagesInv, LiveIsCurrent, NEW v \in Versions, VoidVersion(v)
    PROVE  PagesInv' /\ LiveIsCurrent'
<1> USE DEF PagesInv, Order
<1>1. /\ status[v] \in {"awaiting_mapping", "ready"}
      /\ status' = [status EXCEPT ![v] = "voided"]
      /\ current' = IF current = v THEN Newest(Ready \ {v}) ELSE current
      /\ readyAt' = readyAt /\ deck' = deck /\ placed' = placed
      /\ live' = live /\ cases' = cases /\ review' = review
  BY DEF VoidVersion
<1>2. Ready' = Ready \ {v}
  BY <1>1 DEF Ready, Types
<1>3. /\ Ready \ {v} # {} =>
            /\ Newest(Ready \ {v}) \in Ready \ {v}
            /\ \A u \in Ready \ {v} : readyAt[u] <= readyAt[Newest(Ready \ {v})]
      /\ Ready \ {v} = {} => Newest(Ready \ {v}) = None
  <2>1. Ready \ {v} \subseteq Versions
    BY DEF Ready
  <2>2. Ready \ {v} = {} => Newest(Ready \ {v}) = None
    BY DEF Newest
  <2> QED
    BY <2>1, <2>2, NewestIn
<1>4. /\ current' \in Versions \cup {None}
      /\ CurrentIsNewest'
  <2>1. None \notin Ready
    BY PageAssumption DEF Ready
  <2>2. CASE current = v
    BY <1>1, <1>2, <1>3, <2>1, <2>2 DEF CurrentIsNewest, Ready
  <2>3. CASE current # v
    BY <1>1, <1>2, <2>3 DEF CurrentIsNewest, Types
  <2> QED
    BY <2>2, <2>3
<1>5. Types'
  <2>1. \A u \in Versions : Visible(deck[u])' = Visible(deck[u])
    BY <1>1 DEF Visible
  <2> QED
    BY <1>1, <1>4, <2>1 DEF Types
<1>6. RanksInOrder'
  <2>1. Activations' = Activations
    BY <1>1 DEF Activations
  <2>2. \A u \in Versions : u # v => status'[u] = status[u]
    BY <1>1 DEF Types
  <2>3. status'[v] = "voided"
    BY <1>1 DEF Types
  <2> QED
    BY <1>1, <2>1, <2>2, <2>3 DEF RanksInOrder
<1>7. PagesAreMade' /\ ReusedWasCandidate' /\ OnePagePerVersion'
  BY <1>1 DEF PagesAreMade, ReusedWasCandidate, OnePagePerVersion
<1>8. LiveIsCurrent'
  <2>1. CASE current # v
    BY <1>1, <2>1 DEF LiveIsCurrent, PagesOf
  <2>2. CASE current = v
    <3> SUFFICES ASSUME current' # None, \A u \in Versions : readyAt[u] <= readyAt[current']
                 PROVE  FALSE
      BY <1>1 DEF LiveIsCurrent
    <3>1. current' \in Ready /\ current' # v
      BY <1>1, <1>3, <2>2
    <3>2. readyAt[current'] <= readyAt[v] /\ readyAt[v] # 0 /\ v \in Versions
      BY <2>2, <3>1, PageAssumption DEF CurrentIsNewest, RanksInOrder, Ready
    <3>3. readyAt[v] <= readyAt[current'] /\ current' \in Versions
      BY <3>1, <3>2 DEF Ready
    <3>4. readyAt[v] \in Nat /\ readyAt[current'] \in Nat
      BY <3>3 DEF Types
    <3>5. readyAt[current'] = readyAt[v]
      BY <3>2, <3>3, <3>4
    <3> QED
      BY <3>1, <3>2, <3>3, <3>5 DEF RanksInOrder
  <2> QED
    BY <2>1, <2>2
<1> QED
  BY <1>4, <1>5, <1>6, <1>7, <1>8

\* A review of a page of the current version is given or taken back.
Reviewed(n, new) ==
    /\ current \in Versions /\ n \in DOMAIN placed[current] /\ new \in Reviews
    /\ review' = [review EXCEPT ![current][n] = new]
    /\ UNCHANGED <<status, readyAt, current, deck, placed, live, cases>>

LEMMA ReviewsGiven ==
    ASSUME PagesInv, NEW n \in Numbers, NEW verdict \in Verdicts, ReviewPage(n, verdict)
    PROVE  /\ Reviewed(n, [status |-> verdict, source |-> current])
           /\ review[current][n].status = "pending"
  BY DEF ReviewPage, Reviewed, Reviews, PagesInv, Order, Types

LEMMA ReviewsTakenBack ==
    ASSUME PagesInv, NEW n \in Numbers, ReopenPage(n)
    PROVE  Reviewed(n, Pending)
  BY DEF ReopenPage, Reviewed, Reviews, Pending, PagesInv, Order, Types

LEMMA ReviewedPages ==
    ASSUME PagesInv, LiveIsCurrent, NEW n, NEW new, Reviewed(n, new)
    PROVE  PagesInv' /\ LiveIsCurrent'
<1> USE DEF PagesInv, Order
<1>1. /\ status' = status /\ readyAt' = readyAt /\ current' = current /\ deck' = deck
      /\ placed' = placed /\ live' = live /\ cases' = cases
  BY DEF Reviewed
<1>2. Types'
  <2>1. ASSUME NEW u \in Versions
        PROVE  review'[u] \in [DOMAIN placed[u] -> Reviews]
    <3>1. review[u] \in [DOMAIN placed[u] -> Reviews]
      BY DEF Types
    <3>2. review'[u] = IF u = current THEN [review[u] EXCEPT ![n] = new] ELSE review[u]
      BY DEF Reviewed, Types
    <3> QED
      BY <3>1, <3>2 DEF Reviewed
  <2>2. review' = [u \in Versions |-> review'[u]]
    BY DEF Reviewed, Types
  <2>3. \A u \in Versions : Visible(deck[u])' = Visible(deck[u])
    BY <1>1 DEF Visible
  <2> QED
    BY <1>1, <2>1, <2>2, <2>3 DEF Types
<1>3. Activations' = Activations /\ Ready' = Ready
  BY <1>1 DEF Activations, Ready
<1>4. /\ RanksInOrder' /\ CurrentIsNewest' /\ PagesAreMade' /\ ReusedWasCandidate'
      /\ OnePagePerVersion' /\ LiveIsCurrent'
  BY <1>1, <1>3 DEF RanksInOrder, CurrentIsNewest, PagesAreMade, ReusedWasCandidate,
                    OnePagePerVersion, LiveIsCurrent, PagesOf
<1> QED
  BY <1>2, <1>4

LEMMA NextPages ==
    ASSUME PagesInv, LiveIsCurrent, [Next]_vars
    PROVE  PagesInv' /\ LiveIsCurrent'
<1>1. ASSUME NEW v \in Versions, NEW d \in Decks, ActivateVersion(v, d)
      PROVE  PagesInv' /\ LiveIsCurrent'
  BY <1>1, ActivationInstalls, InstalledPages
<1>2. ASSUME NEW v \in Versions, ConfirmPageMapping(v)
      PROVE  PagesInv' /\ LiveIsCurrent'
  <2>1. PICK d : d = deck[v]
    OBVIOUS
  <2>2. \E page : Installed(v, d, page)
    BY <1>2, <2>1, ConfirmationInstalls
  <2> QED
    BY <2>2, InstalledPages
<1>3. ASSUME NEW v \in Versions, NEW n \in Numbers, EnableHiddenPage(v, n)
      PROVE  PagesInv' /\ LiveIsCurrent'
  <2>1. PICK page : page = EnabledPage(v, n)
    OBVIOUS
  <2>2. Enabled(v, n, page)
    BY <1>3, <2>1, EnablingAddsAPage
  <2> QED
    BY <2>2, EnabledPages
<1>4. ASSUME NEW n \in Numbers, NEW verdict \in Verdicts, ReviewPage(n, verdict)
      PROVE  PagesInv' /\ LiveIsCurrent'
  <2>1. PICK new : new = [status |-> verdict, source |-> current]
    OBVIOUS
  <2>2. Reviewed(n, new)
    BY <1>4, <2>1, ReviewsGiven
  <2> QED
    BY <2>2, ReviewedPages
<1>5. ASSUME NEW n \in Numbers, ReopenPage(n)
      PROVE  PagesInv' /\ LiveIsCurrent'
  BY <1>5, ReviewsTakenBack, ReviewedPages
<1>6. CASE UNCHANGED vars
  <2>1. /\ status' = status /\ readyAt' = readyAt /\ current' = current /\ deck' = deck
        /\ placed' = placed /\ live' = live /\ cases' = cases /\ review' = review
    BY <1>6 DEF vars
  <2>2. Activations' = Activations /\ Ready' = Ready
    BY <2>1 DEF Activations, Ready
  <2>3. \A u \in Versions : Visible(deck[u])' = Visible(deck[u])
    BY <2>1 DEF Visible
  <2>4. Types'
    BY <2>1, <2>3 DEF PagesInv, Order, Types
  <2> QED
    BY <2>1, <2>2, <2>4
       DEF PagesInv, Order, RanksInOrder, CurrentIsNewest, PagesAreMade, ReusedWasCandidate,
           OnePagePerVersion, LiveIsCurrent, PagesOf
<1> QED
  BY <1>1, <1>2, <1>3, <1>4, <1>5, <1>6, PausedPages, DecidedPages, VoidedPages DEF Next

-----------------------------------------------------------------------------
(* Reviews are kept, inherited or given. *)

\* The current version v has more page versions than before, each of a page it did
\* not have and with an inherited review: what activations, confirmations and the
\* enabling of a hidden page have in common.
Adds(v) ==
    /\ \A u \in Versions \ {v} :
        /\ status'[u] = status[u] /\ readyAt'[u] = readyAt[u]
        /\ placed'[u] = placed[u] /\ deck'[u] = deck[u] /\ review'[u] = review[u]
    /\ status'[v] = "ready"
    /\ \/ v \in Ready /\ readyAt'[v] = readyAt[v]
       \/ v \notin Ready /\ DOMAIN placed[v] = {}
    /\ \A u \in Ready \ {v} : readyAt[u] < readyAt'[v]
    /\ \A m \in DOMAIN placed[v] :
        /\ m \in DOMAIN placed'[v] /\ placed'[v][m] = placed[v][m]
        /\ deck'[v][m] = deck[v][m] /\ review'[v][m] = review[v][m]
    /\ \A n \in DOMAIN placed'[v] \ DOMAIN placed[v] :
        /\ placed'[v][n] \notin PagesOf(v)
        /\ review'[v][n] = Inherited(placed'[v][n], deck'[v][n].content)

LEMMA InstalledAdds ==
    ASSUME PagesInv, NEW v \in Versions, NEW d, NEW page, Installed(v, d, page)
    PROVE  Adds(v)
<1> USE DEF PagesInv, Order
<1>1. v \notin Ready /\ DOMAIN placed[v] = {} /\ PagesOf(v) = {}
  BY DEF Installed, RanksInOrder, Ready, PagesOf
<1>2. /\ readyAt'[v] = Activations + 1 /\ status'[v] = "ready"
      /\ deck'[v] = d /\ placed'[v] = page /\ DOMAIN page = Visible(d)
      /\ review'[v] = [n \in Visible(d) |-> Inherited(page[n], d[n].content)]
  BY DEF Installed, Types
<1>3. \A u \in Versions \ {v} :
            /\ readyAt'[u] = readyAt[u] /\ status'[u] = status[u]
            /\ deck'[u] = deck[u] /\ placed'[u] = placed[u] /\ review'[u] = review[u]
  BY DEF Installed, Types
<1>4. \A u \in Ready \ {v} : readyAt[u] < readyAt'[v]
  <2>1. \A u \in Versions : readyAt[u] \in Nat /\ readyAt[u] <= Activations
    BY DEF Types, RanksInOrder
  <2> QED
    BY <1>2, <2>1, RanksAreNat DEF Ready
<1>5. \A n \in DOMAIN placed'[v] :
            review'[v][n] = Inherited(placed'[v][n], deck'[v][n].content)
  BY <1>2
<1> QED
  BY <1>1, <1>2, <1>3, <1>4, <1>5 DEF Adds

LEMMA EnabledAdds ==
    ASSUME PagesInv, NEW v \in Versions, NEW n, NEW page, Enabled(v, n, page)
    PROVE  Adds(v)
<1> USE DEF PagesInv, Order
<1>1. /\ v \in Ready /\ current = v /\ v # None /\ n \notin DOMAIN placed[v]
      /\ page \notin PagesOf(v)
      /\ status' = status /\ readyAt' = readyAt /\ deck' = deck
  BY PageAssumption DEF Enabled, Ready
<1>2. /\ DOMAIN placed'[v] = DOMAIN placed[v] \cup {n}
      /\ placed'[v][n] = page /\ review'[v][n] = Inherited(page, deck[v][n].content)
      /\ \A m \in DOMAIN placed[v] :
            placed'[v][m] = placed[v][m] /\ review'[v][m] = review[v][m]
  BY <1>1 DEF Enabled, Types
<1>3. \A u \in Versions \ {v} : placed'[u] = placed[u] /\ review'[u] = review[u]
  BY DEF Enabled, Types
<1>4. \A u \in Ready \ {v} : readyAt[u] < readyAt'[v]
  <2> SUFFICES ASSUME NEW u \in Ready, u # v PROVE readyAt[u] < readyAt[v]
    BY <1>1
  <2>1. readyAt[u] <= readyAt[v]
    BY <1>1 DEF CurrentIsNewest
  <2>2. readyAt[u] # readyAt[v]
    BY <1>1 DEF RanksInOrder, Ready
  <2>3. readyAt[u] \in Nat /\ readyAt[v] \in Nat
    BY DEF Types, Ready
  <2> QED
    BY <2>1, <2>2, <2>3
<1> QED
  BY <1>1, <1>2, <1>3, <1>4 DEF Adds, Ready

\* What a page version that was added has inherited.
LEMMA AddedReview ==
    ASSUME PagesInv, ReviewsInv, NEW v \in Versions, Adds(v),
           NEW n \in DOMAIN placed'[v] \ DOMAIN placed[v]
    PROVE  \/ review'[v][n] = Pending
           \/ \E u \in Ready \ {v} : \E k \in DOMAIN placed[u] :
                /\ placed[u][k] = placed'[v][n]
                /\ deck[u][k].content = deck'[v][n].content
                /\ review'[v][n] = review[u][k]
                /\ \A w \in Ready : \A m \in DOMAIN placed[w] :
                    /\ placed[w][m] = placed'[v][n]
                    /\ deck[w][m].content = deck'[v][n].content
                    => readyAt[w] <= readyAt[u]
<1>1. PICK p, c, r : p = placed'[v][n] /\ c = deck'[v][n].content /\ r = Inherited(p, c)
  OBVIOUS
<1>2. p \notin PagesOf(v) /\ review'[v][n] = r
  BY <1>1 DEF Adds
<1>3. \/ r = Pending
      \/ \E u \in Ready : \E k \in DOMAIN placed[u] :
            /\ placed[u][k] = p /\ deck[u][k].content = c
            /\ r = review[u][k]
            /\ \A w \in Ready : \A m \in DOMAIN placed[w] :
                    placed[w][m] = p /\ deck[w][m].content = c => readyAt[w] <= readyAt[u]
  BY <1>1, InheritedFrom DEF PagesInv
<1>4. \A k \in DOMAIN placed[v] : placed[v][k] # p
  BY <1>2 DEF PagesOf
<1> QED
  BY <1>1, <1>2, <1>3, <1>4

LEMMA AddsReviews ==
    ASSUME PagesInv, PagesInv', ReviewsInv, NEW v \in Versions, Adds(v)
    PROVE  ReviewsInv'
<1> USE DEF PagesInv, Order
<1>1. \A u \in Versions : \A m \in DOMAIN placed[u] :
            /\ m \in DOMAIN placed'[u] /\ placed'[u][m] = placed[u][m]
            /\ deck'[u][m] = deck[u][m] /\ review'[u][m] = review[u][m]
            /\ readyAt'[u] = readyAt[u] /\ (u \in Ready' <=> u \in Ready)
  BY DEF Adds, Ready
<1>2. /\ Ready' = Ready \cup {v}
      /\ \A u \in Ready \ {v} : readyAt'[u] = readyAt[u] /\ readyAt'[u] < readyAt'[v]
  BY DEF Adds, Ready
<1>3. /\ \A u \in Versions : /\ readyAt[u] \in Nat /\ readyAt'[u] \in Nat
                             /\ DOMAIN review[u] = DOMAIN placed[u]
                             /\ DOMAIN review'[u] = DOMAIN placed'[u]
      /\ None \notin Versions
  BY PageAssumption DEF Types
<1>4. ASSUME NEW u \in Versions, NEW n \in DOMAIN placed[u], review[u][n].status # "pending"
      PROVE  \E s \in Versions : \E m \in DOMAIN placed[s] :
                /\ s = review[u][n].source /\ readyAt[s] <= readyAt[u]
                /\ placed[s][m] = placed[u][n]
                /\ deck[s][m].content = deck[u][n].content
                /\ u \in Ready /\ s \in Ready => review[s][m] = review[u][n]
  <2>1. review[u][n].source \in Versions /\ readyAt[review[u][n].source] <= readyAt[u]
    BY <1>4 DEF ReviewsInv, ReviewsAreTraced
  <2> QED
    BY <1>3, <1>4, <2>1 DEF ReviewsInv, ReviewsAreEarned
<1>5. \A u \in Versions : \A n \in DOMAIN placed'[u] :
            n \notin DOMAIN placed[u] => u = v /\ n \in DOMAIN placed'[v] \ DOMAIN placed[v]
  BY DEF Adds
<1>6. ReviewsAreTraced'
  <2> SUFFICES ASSUME NEW u \in Versions, NEW n \in DOMAIN placed'[u]
               PROVE  IF review'[u][n].status = "pending" THEN review'[u][n] = Pending
                      ELSE /\ review'[u][n].source \in Versions
                           /\ readyAt'[review'[u][n].source] <= readyAt'[u]
    BY DEF ReviewsAreTraced, Pending
  <2>1. CASE n \in DOMAIN placed[u]
    <3>1. CASE review[u][n].status = "pending"
      BY <1>1, <2>1, <3>1 DEF ReviewsInv, ReviewsAreTraced
    <3>2. CASE review[u][n].status # "pending"
      BY <1>1, <1>4, <2>1, <3>2
    <3> QED
      BY <3>1, <3>2
  <2>2. CASE n \notin DOMAIN placed[u]
    <3>1. u = v
      BY <1>5, <2>2
    <3>2. CASE review'[v][n] = Pending
      BY <3>1, <3>2 DEF Pending
    <3>3. ASSUME NEW w \in Ready \ {v}, NEW k \in DOMAIN placed[w],
                 review'[v][n] = review[w][k]
          PROVE  IF review'[u][n].status = "pending" THEN review'[u][n] = Pending
                 ELSE /\ review'[u][n].source \in Versions
                      /\ readyAt'[review'[u][n].source] <= readyAt'[u]
      <4>1. w \in Versions
        BY DEF Ready
      <4>2. CASE review[w][k].status = "pending"
        BY <3>1, <3>3, <4>1, <4>2 DEF ReviewsInv, ReviewsAreTraced
      <4>3. CASE review[w][k].status # "pending"
        <5>1. PICK s \in Versions : \E m \in DOMAIN placed[s] :
                    s = review[w][k].source /\ readyAt[s] <= readyAt[w]
          BY <1>4, <4>1, <4>3
        <5>2. readyAt'[s] = readyAt[s] /\ readyAt[w] < readyAt'[v]
          BY <1>1, <1>2, <5>1
        <5> QED
          BY <1>3, <3>1, <3>3, <4>1, <4>3, <5>1, <5>2
      <4> QED
        BY <4>2, <4>3
    <3> QED
      BY <2>2, <3>1, <3>2, <3>3, AddedReview
  <2> QED
    BY <2>1, <2>2
<1>7. ReviewsAreEarned'
  <2> SUFFICES ASSUME NEW u \in Versions, NEW n \in DOMAIN placed'[u],
                      review'[u][n].status # "pending"
               PROVE  \E m \in DOMAIN placed'[review'[u][n].source] :
                        /\ placed'[review'[u][n].source][m] = placed'[u][n]
                        /\ deck'[review'[u][n].source][m].content = deck'[u][n].content
                        /\ u \in Ready' /\ review'[u][n].source \in Ready'
                                => review'[review'[u][n].source][m] = review'[u][n]
    BY <1>3 DEF ReviewsAreEarned
  <2>1. CASE n \in DOMAIN placed[u]
    <3>1. PICK s \in Versions : \E m \in DOMAIN placed[s] :
                /\ s = review[u][n].source
                /\ placed[s][m] = placed[u][n]
                /\ deck[s][m].content = deck[u][n].content
                /\ u \in Ready /\ s \in Ready => review[s][m] = review[u][n]
      BY <1>1, <1>4, <2>1
    <3>2. PICK m \in DOMAIN placed[s] :
                /\ s = review[u][n].source
                /\ placed[s][m] = placed[u][n]
                /\ deck[s][m].content = deck[u][n].content
                /\ u \in Ready /\ s \in Ready => review[s][m] = review[u][n]
      BY <3>1
    <3>3. s = review'[u][n].source /\ m \in DOMAIN placed'[s]
      BY <1>1, <2>1, <3>2
    <3>4. placed'[s][m] = placed'[u][n]
          /\ deck'[s][m].content = deck'[u][n].content
      BY <1>1, <2>1, <3>2
    <3>5. u \in Ready' /\ s \in Ready' => review'[s][m] = review'[u][n]
      BY <1>1, <2>1, <3>2
    <3> QED
      BY <3>3, <3>4, <3>5
  <2>2. CASE n \notin DOMAIN placed[u]
    <3>1. u = v /\ review'[v][n] # Pending
      BY <1>5, <2>2 DEF Pending
    <3>2. PICK w \in Ready \ {v} : \E k \in DOMAIN placed[w] :
                /\ placed[w][k] = placed'[v][n]
                /\ deck[w][k].content = deck'[v][n].content
                /\ review'[v][n] = review[w][k]
      BY <2>2, <3>1, AddedReview
    <3>3. PICK k \in DOMAIN placed[w] :
                /\ placed[w][k] = placed'[v][n]
                /\ deck[w][k].content = deck'[v][n].content
                /\ review'[v][n] = review[w][k]
      BY <3>2
    <3>4. w \in Versions /\ review[w][k].status # "pending"
      BY <3>1, <3>3 DEF Ready
    <3>5. PICK s \in Versions : \E m \in DOMAIN placed[s] :
                /\ s = review[w][k].source
                /\ placed[s][m] = placed[w][k]
                /\ deck[s][m].content = deck[w][k].content
                /\ w \in Ready /\ s \in Ready => review[s][m] = review[w][k]
      BY <1>4, <3>4
    <3>6. PICK m \in DOMAIN placed[s] :
                /\ s = review[w][k].source
                /\ placed[s][m] = placed[w][k]
                /\ deck[s][m].content = deck[w][k].content
                /\ w \in Ready /\ s \in Ready => review[s][m] = review[w][k]
      BY <3>5
    <3>7. s = review'[u][n].source /\ m \in DOMAIN placed'[s]
          /\ placed'[s][m] = placed'[u][n]
          /\ deck'[s][m].content = deck'[u][n].content
      BY <1>1, <3>1, <3>3, <3>6
    <3>8. u \in Ready' /\ s \in Ready' => review'[s][m] = review'[u][n]
      BY <1>1, <1>2, <3>1, <3>3, <3>6
    <3> QED
      BY <3>7, <3>8
  <2> QED
    BY <2>1, <2>2
<1>8. NoReviewResurrected'
  <2> SUFFICES ASSUME NEW x \in Ready', NEW w \in Ready',
                      NEW n \in DOMAIN placed'[x], NEW m \in DOMAIN placed'[w],
                      review'[x][n].source \in Ready',
                      readyAt'[review'[x][n].source] < readyAt'[w],
                      readyAt'[w] < readyAt'[x],
                      placed'[w][m] = placed'[x][n],
                      deck'[w][m].content = deck'[x][n].content
               PROVE  review'[w][m].status # "pending"
    BY <1>3 DEF NoReviewResurrected, Ready
  <2>1. /\ x \in Versions /\ w \in Versions
        /\ w # v /\ w \in Ready /\ m \in DOMAIN placed[w]
    BY <1>2, <1>3, <1>5 DEF Ready
  <2>2. PICK s : s = review'[x][n].source
    OBVIOUS
  <2>3. s # v /\ s \in Ready /\ readyAt'[s] = readyAt[s] /\ s \in Versions
    BY <1>2, <1>3, <2>1, <2>2 DEF Ready
  <2>4. /\ readyAt[s] < readyAt[w] /\ readyAt'[w] = readyAt[w]
        /\ placed[w][m] = placed'[x][n] /\ deck[w][m].content = deck'[x][n].content
        /\ review'[w][m] = review[w][m]
    BY <1>1, <2>1, <2>2, <2>3
  <2>5. CASE n \in DOMAIN placed[x]
    <3>1. x \in Ready /\ readyAt[w] < readyAt[x] /\ s = review[x][n].source
      BY <1>1, <2>1, <2>2, <2>4, <2>5
    <3> QED
      BY <1>1, <1>3, <2>1, <2>3, <2>4, <2>5, <3>1 DEF ReviewsInv, NoReviewResurrected
  <2>6. CASE n \notin DOMAIN placed[x]
    <3>1. x = v /\ review'[v][n] # Pending
      BY <1>3, <1>5, <2>1, <2>2, <2>3, <2>6 DEF Pending
    <3>2. PICK u \in Ready \ {v} : \E k \in DOMAIN placed[u] :
                /\ placed[u][k] = placed'[v][n]
                /\ deck[u][k].content = deck'[v][n].content
                /\ review'[v][n] = review[u][k]
                /\ readyAt[w] <= readyAt[u]
      BY <2>1, <2>4, <2>6, <3>1, AddedReview
    <3>3. PICK k \in DOMAIN placed[u] :
                /\ placed[u][k] = placed'[v][n]
                /\ deck[u][k].content = deck'[v][n].content
                /\ review'[v][n] = review[u][k]
                /\ readyAt[w] <= readyAt[u]
      BY <3>2
    <3>4. u \in Versions /\ review[u][k].source = s
      BY <2>2, <3>1, <3>3 DEF Ready
    <3>5. CASE w = u
      <4>1. m = k
        BY <2>1, <2>4, <3>1, <3>3, <3>4, <3>5 DEF OnePagePerVersion
      <4>2. review[u][k] # Pending
        BY <3>1, <3>3
      <4> QED
        BY <2>4, <3>4, <3>5, <4>1, <4>2 DEF ReviewsInv, ReviewsAreTraced
    <3>6. CASE w # u
      <4>1. readyAt[w] < readyAt[u]
        BY <1>3, <2>1, <3>3, <3>4, <3>6 DEF RanksInOrder, Ready
      <4> QED
        BY <1>3, <2>1, <2>3, <2>4, <3>1, <3>3, <3>4, <4>1 DEF ReviewsInv, NoReviewResurrected
    <3> QED
      BY <3>5, <3>6
  <2> QED
    BY <2>5, <2>6
<1> QED
  BY <1>6, <1>7, <1>8 DEF ReviewsInv

\* Only a page of the current version is reviewed, which is the newest: no ready
\* version has inherited from it yet, and none can pass over it.
LEMMA ReviewedReviews ==
    ASSUME PagesInv, ReviewsInv, NEW n, NEW new, Reviewed(n, new),
           \/ new = Pending
           \/ /\ review[current][n].status = "pending"
              /\ new.status # "pending" /\ new.source = current
    PROVE  ReviewsInv'
<1> USE DEF PagesInv, Order
<1>1. /\ status' = status /\ readyAt' = readyAt /\ current' = current /\ deck' = deck
      /\ placed' = placed /\ Ready' = Ready
  BY DEF Reviewed, Ready
<1>2. /\ current \in Versions /\ current \in Ready /\ n \in DOMAIN placed[current]
      /\ \A u \in Ready : readyAt[u] <= readyAt[current]
      /\ \A u \in Versions : /\ readyAt[u] \in Nat
                             /\ DOMAIN review[u] = DOMAIN placed[u]
                             /\ DOMAIN review'[u] = DOMAIN placed[u]
  <2>1. current \in Versions /\ current # None /\ n \in DOMAIN placed[current]
    BY PageAssumption DEF Reviewed
  <2>2. \A u \in Versions : DOMAIN review[u] = DOMAIN placed[u] /\ readyAt[u] \in Nat
    BY DEF Types
  <2>3. \A u \in Versions : DOMAIN review'[u] = DOMAIN review[u]
    BY <2>1 DEF Reviewed, Types
  <2> QED
    BY <2>1, <2>2, <2>3 DEF CurrentIsNewest
<1>3. review'[current][n] = new
  BY <1>2 DEF Reviewed, Types
<1>4. \A u \in Versions : \A k \in DOMAIN placed[u] :
            ~(u = current /\ k = n) => review'[u][k] = review[u][k]
  BY <1>2 DEF Reviewed, Types
<1>5. \/ new = Pending
      \/ new.status # "pending" /\ new.source = current
  OBVIOUS
<1>6. ReviewsAreTraced'
  BY <1>1, <1>2, <1>3, <1>4, <1>5 DEF ReviewsInv, ReviewsAreTraced, Pending
<1>7. ReviewsAreEarned'
  <2> SUFFICES ASSUME NEW x \in Versions, NEW k \in DOMAIN placed[x],
                      review'[x][k].status # "pending"
               PROVE  LET s == review'[x][k].source IN
                      \E m \in DOMAIN placed[s] :
                        /\ placed[s][m] = placed[x][k]
                        /\ deck[s][m].content = deck[x][k].content
                        /\ x \in Ready /\ s \in Ready => review'[s][m] = review'[x][k]
    BY <1>1, <1>2 DEF ReviewsAreEarned
  <2>1. CASE x = current /\ k = n
    BY <1>2, <1>3, <1>5, <2>1 DEF Pending
  <2>2. CASE ~(x = current /\ k = n)
    <3>1. review'[x][k] = review[x][k] /\ review[x][k].status # "pending"
      BY <1>4, <2>2
    <3>2. PICK s : s = review[x][k].source
      OBVIOUS
    <3>3. s \in Versions /\ readyAt[s] <= readyAt[x]
      BY <3>1, <3>2 DEF ReviewsInv, ReviewsAreTraced
    <3>4. PICK m \in DOMAIN placed[s] :
            /\ placed[s][m] = placed[x][k]
            /\ deck[s][m].content = deck[x][k].content
            /\ x \in Ready /\ s \in Ready => review[s][m] = review[x][k]
      BY <1>2, <3>1, <3>2 DEF ReviewsInv, ReviewsAreEarned
    <3>5. ASSUME x \in Ready, s \in Ready
          PROVE  ~(s = current /\ m = n)
      <4> SUFFICES ASSUME s = current, m = n
                   PROVE  FALSE
        OBVIOUS
      <4>1. readyAt[x] = readyAt[s]
        BY <1>2, <3>3, <3>5
      <4>2. x = s
        BY <3>3, <3>5, <4>1 DEF RanksInOrder, Ready
      <4>3. m = k
        BY <3>3, <3>4, <4>2 DEF OnePagePerVersion
      <4> QED
        BY <2>2, <4>2, <4>3
    <3>6. x \in Ready /\ s \in Ready => review'[s][m] = review'[x][k]
      BY <1>4, <3>1, <3>3, <3>4, <3>5
    <3> QED
      BY <3>1, <3>2, <3>4, <3>6
  <2> QED
    BY <2>1, <2>2
<1>8. NoReviewResurrected'
  <2> SUFFICES ASSUME NEW x \in Ready, NEW w \in Ready,
                      NEW k \in DOMAIN placed[x], NEW m \in DOMAIN placed[w],
                      review'[x][k].source \in Ready,
                      readyAt[review'[x][k].source] < readyAt[w],
                      readyAt[w] < readyAt[x],
                      placed[w][m] = placed[x][k],
                      deck[w][m].content = deck[x][k].content
               PROVE  review'[w][m].status # "pending"
    BY <1>1, <1>2 DEF NoReviewResurrected, Ready
  <2>1. x \in Versions /\ w \in Versions /\ w # current
    BY <1>2 DEF Ready
  <2>2. review'[w][m] = review[w][m]
    BY <1>4, <2>1
  <2>3. ~(x = current /\ k = n)
    <3> SUFFICES ASSUME x = current, k = n
                 PROVE  FALSE
      OBVIOUS
    <3>1. review'[x][k].source = None \/ review'[x][k].source = x
      BY <1>3, <1>5 DEF Pending
    <3>2. review'[x][k].source = x
      BY <3>1, PageAssumption DEF Ready
    <3> QED
      BY <1>2, <2>1, <3>2
  <2>4. review'[x][k] = review[x][k]
    BY <1>4, <2>1, <2>3
  <2> QED
    BY <1>2, <2>1, <2>2, <2>4 DEF ReviewsInv, NoReviewResurrected
<1> QED
  BY <1>6, <1>7, <1>8 DEF ReviewsInv

\* Steps that neither review a page nor add one keep the reviews.
LEMMA KeptReviews ==
    ASSUME PagesInv, ReviewsInv,
           readyAt' = readyAt, placed' = placed, review' = review, Ready' \subseteq Ready,
           \A u \in Versions : DOMAIN placed[u] # {} => deck'[u] = deck[u]
    PROVE  ReviewsInv'
<1>1. \A u \in Versions : DOMAIN review[u] = DOMAIN placed[u]
  BY DEF PagesInv, Order, Types
<1>2. \A u \in Versions : \A k \in DOMAIN placed[u] : deck'[u] = deck[u]
  OBVIOUS
<1>3. ReviewsAreTraced'
  BY DEF ReviewsInv, ReviewsAreTraced
<1>4. ReviewsAreEarned'
  <2> SUFFICES ASSUME NEW x \in Versions, NEW k \in DOMAIN placed[x],
                      review[x][k].status # "pending"
               PROVE  LET s == review[x][k].source IN
                      \E m \in DOMAIN placed[s] :
                        /\ placed[s][m] = placed[x][k]
                        /\ deck'[s][m].content = deck'[x][k].content
                        /\ x \in Ready' /\ s \in Ready' => review[s][m] = review[x][k]
    BY <1>1 DEF ReviewsAreEarned
  <2>1. PICK s : s = review[x][k].source
    OBVIOUS
  <2>2. s \in Versions
    BY <2>1 DEF ReviewsInv, ReviewsAreTraced
  <2>3. PICK m \in DOMAIN placed[s] :
            /\ placed[s][m] = placed[x][k]
            /\ deck[s][m].content = deck[x][k].content
            /\ x \in Ready /\ s \in Ready => review[s][m] = review[x][k]
    BY <1>1, <2>1 DEF ReviewsInv, ReviewsAreEarned
  <2>4. deck'[s] = deck[s] /\ deck'[x] = deck[x]
    BY <1>2, <2>2
  <2> QED
    BY <2>1, <2>3, <2>4
<1>5. NoReviewResurrected'
  <2> SUFFICES ASSUME NEW x \in Ready', NEW w \in Ready',
                      NEW k \in DOMAIN review[x], NEW m \in DOMAIN review[w],
                      review[x][k].source \in Ready',
                      readyAt[review[x][k].source] < readyAt[w],
                      readyAt[w] < readyAt[x],
                      placed[w][m] = placed[x][k],
                      deck'[w][m].content = deck'[x][k].content
               PROVE  review[w][m].status # "pending"
    BY DEF NoReviewResurrected
  <2>1. x \in Ready /\ w \in Ready /\ x \in Versions /\ w \in Versions
    BY DEF Ready
  <2>2. deck'[w] = deck[w] /\ deck'[x] = deck[x]
    BY <1>1, <1>2, <2>1
  <2> QED
    BY <2>1, <2>2 DEF ReviewsInv, NoReviewResurrected
<1> QED
  BY <1>3, <1>4, <1>5 DEF ReviewsInv

LEMMA QuietReviews ==
    ASSUME PagesInv, ReviewsInv,
           \/ \E v \in Versions, d \in Decks : PauseForMapping(v, d)
           \/ \E v \in Versions, n \in Numbers, page \in Pages \cup {None} :
                SavePageMappingDecision(v, n, page)
           \/ \E v \in Versions : VoidVersion(v)
           \/ UNCHANGED vars
    PROVE  ReviewsInv'
<1> USE DEF PagesInv, Order
<1>1. readyAt' = readyAt /\ placed' = placed /\ review' = review
  BY DEF PauseForMapping, SavePageMappingDecision, VoidVersion, vars
<1>2. Ready' \subseteq Ready
  <2>1. ASSUME NEW v \in Versions, NEW d \in Decks, PauseForMapping(v, d)
        PROVE  Ready' \subseteq Ready
    <3>1. status' = [status EXCEPT ![v] = "awaiting_mapping"]
      BY <2>1 DEF PauseForMapping
    <3> QED
      BY <3>1 DEF Ready, Types
  <2>2. ASSUME NEW v \in Versions, VoidVersion(v)
        PROVE  Ready' \subseteq Ready
    <3>1. status' = [status EXCEPT ![v] = "voided"]
      BY <2>2 DEF VoidVersion
    <3> QED
      BY <3>1 DEF Ready, Types
  <2> QED
    BY <2>1, <2>2 DEF SavePageMappingDecision, Ready, vars
<1>3. ASSUME NEW u \in Versions, DOMAIN placed[u] # {}
      PROVE  deck'[u] = deck[u]
  <2>1. ASSUME NEW v \in Versions, NEW d \in Decks, PauseForMapping(v, d)
        PROVE  deck'[u] = deck[u]
    <3>1. deck' = [deck EXCEPT ![v] = d] /\ status[v] = "absent"
      BY <2>1 DEF PauseForMapping, Acceptable
    <3>2. u # v
      BY <1>3, <3>1 DEF RanksInOrder
    <3> QED
      BY <3>1, <3>2 DEF Types
  <2> QED
    BY <2>1 DEF SavePageMappingDecision, VoidVersion, vars
<1> QED
  BY <1>1, <1>2, <1>3, KeptReviews

LEMMA NextReviews ==
    ASSUME PagesInv, LiveIsCurrent, ReviewsInv, [Next]_vars
    PROVE  ReviewsInv'
<1>1. PagesInv'
  BY NextPages
<1>2. ASSUME NEW v \in Versions, NEW d \in Decks, ActivateVersion(v, d)
      PROVE  ReviewsInv'
  BY <1>1, <1>2, ActivationInstalls, InstalledAdds, AddsReviews
<1>3. ASSUME NEW v \in Versions, ConfirmPageMapping(v)
      PROVE  ReviewsInv'
  <2>1. PICK d : d = deck[v]
    OBVIOUS
  <2>2. \E page : Installed(v, d, page)
    BY <1>3, <2>1, ConfirmationInstalls
  <2> QED
    BY <1>1, <2>2, InstalledAdds, AddsReviews
<1>4. ASSUME NEW v \in Versions, NEW n \in Numbers, EnableHiddenPage(v, n)
      PROVE  ReviewsInv'
  <2>1. PICK page : page = EnabledPage(v, n)
    OBVIOUS
  <2>2. Enabled(v, n, page)
    BY <1>4, <2>1, EnablingAddsAPage
  <2> QED
    BY <1>1, <2>2, EnabledAdds, AddsReviews
<1>5. ASSUME NEW n \in Numbers, NEW verdict \in Verdicts, ReviewPage(n, verdict)
      PROVE  ReviewsInv'
  <2>1. PICK new : new = [status |-> verdict, source |-> current]
    OBVIOUS
  <2>2. Reviewed(n, new) /\ review[current][n].status = "pending"
    BY <1>5, <2>1, ReviewsGiven
  <2>3. new.status # "pending" /\ new.source = current
    BY <2>1, PageAssumption
  <2> QED
    BY <2>2, <2>3, ReviewedReviews
<1>6. ASSUME NEW n \in Numbers, ReopenPage(n)
      PROVE  ReviewsInv'
  <2>1. PICK new : new = Pending
    OBVIOUS
  <2>2. Reviewed(n, new)
    BY <1>6, <2>1, ReviewsTakenBack
  <2> QED
    BY <2>1, <2>2, ReviewedReviews
<1> QED
  BY <1>2, <1>3, <1>4, <1>5, <1>6, QuietReviews DEF Next

-----------------------------------------------------------------------------
(* The theorems. *)

LEMMA InitPages == Init => IInv
<1> SUFFICES ASSUME Init PROVE IInv
  OBVIOUS
<1>1. DOMAIN Empty = {} /\ Empty \in [{} -> Pages] /\ Empty \in [{} -> Reviews]
      /\ Empty \in [{} -> Cases]
  BY DEF Empty
<1>2. \A v \in Versions : /\ status[v] = "absent" /\ readyAt[v] = 0 /\ deck[v] = Empty
                          /\ placed[v] = Empty /\ cases[v] = Empty /\ review[v] = Empty
  BY DEF Init
<1>3. Types
  BY <1>1, <1>2 DEF Types, Init
<1>4. Ready = {} /\ current = None
  BY <1>2 DEF Ready, Init
<1>5. RanksInOrder
  BY <1>1, <1>2, RanksAreNat DEF RanksInOrder
<1>6. CurrentIsNewest /\ LiveIsCurrent
  BY <1>4 DEF CurrentIsNewest, LiveIsCurrent
<1>7. PagesAreMade /\ ReusedWasCandidate /\ OnePagePerVersion
  BY <1>1, <1>2 DEF PagesAreMade, ReusedWasCandidate, OnePagePerVersion
<1>8. ReviewsInv
  BY <1>1, <1>2, <1>4
     DEF ReviewsInv, ReviewsAreTraced, ReviewsAreEarned, NoReviewResurrected
<1> QED
  BY <1>3, <1>5, <1>6, <1>7, <1>8 DEF IInv, PagesInv, Order

LEMMA Invariance == Spec => []IInv
<1>1. IInv /\ [Next]_vars => IInv'
  BY NextPages, NextReviews DEF IInv
<1> QED
  BY <1>1, InitPages, PTL DEF Spec

DisturbedType == disturbed \in BOOLEAN

LEMMA DisturbedIsBoolean == Spec => []DisturbedType
<1>1. Init => DisturbedType
  BY DEF Init, DisturbedType
<1>2. DisturbedType /\ [Next]_vars => DisturbedType'
  <2> SUFFICES ASSUME disturbed \in BOOLEAN, [Next]_vars PROVE disturbed' \in BOOLEAN
    BY DEF DisturbedType
  <2>1. ASSUME NEW v \in Versions, VoidVersion(v) PROVE disturbed' \in BOOLEAN
    BY <2>1 DEF VoidVersion
  <2>2. ASSUME NEW v \in Versions, NEW n \in Numbers, EnableHiddenPage(v, n)
        PROVE  disturbed' \in BOOLEAN
    BY <2>2 DEF EnableHiddenPage, Waiting
  <2>3. ASSUME NEW v \in Versions, NEW d \in Decks, ActivateVersion(v, d) \/ PauseForMapping(v, d)
        PROVE  disturbed' \in BOOLEAN
    BY <2>3 DEF ActivateVersion, PauseForMapping
  <2>4. ASSUME NEW v \in Versions, ConfirmPageMapping(v) PROVE disturbed' \in BOOLEAN
    BY <2>4 DEF ConfirmPageMapping
  <2>5. CASE disturbed' = disturbed
    BY <2>5
  <2>6. ASSUME NEW v \in Versions, NEW n \in Numbers, NEW page \in Pages \cup {None},
               SavePageMappingDecision(v, n, page)
        PROVE  disturbed' \in BOOLEAN
    BY <2>5, <2>6 DEF SavePageMappingDecision
  <2>7. ASSUME NEW n \in Numbers, ReopenPage(n) \/ \E verdict \in Verdicts : ReviewPage(n, verdict)
        PROVE  disturbed' \in BOOLEAN
    BY <2>5, <2>7 DEF ReviewPage, ReopenPage
  <2>8. CASE UNCHANGED vars
    BY <2>5, <2>8 DEF vars
  <2> QED
    BY <2>1, <2>2, <2>3, <2>4, <2>6, <2>7, <2>8 DEF Next
<1> QED
  BY <1>1, <1>2, PTL DEF Spec

\* Every rank is that of an activation, and every page of a version, every candidate
\* and every reused page is one that some version's page number made.
THEOREM TypeCorrect == Spec => []TypeOK
<1>1. ASSUME IInv, DisturbedType PROVE TypeOK
  <2> USE <1>1 DEF DisturbedType, IInv, PagesInv, Order
  <2>1. readyAt \in [Versions -> 0..Cardinality(Versions)]
    <3>1. \A v \in Versions : readyAt[v] \in 0..Cardinality(Versions)
      BY RanksAreNat DEF Types, RanksInOrder
    <3> QED
      BY <3>1 DEF Types
  <2>2. \A v \in Versions : PagesOf(v) \subseteq Pages
    BY DEF Types, PagesOf
  <2>3. ASSUME NEW v \in Versions, NEW n \in DOMAIN cases[v]
        PROVE  /\ cases[v][n].candidates \subseteq Pages
               /\ cases[v][n].decision \in {"undecided", "new", "reuse"}
               /\ cases[v][n].page \in Pages \cup {None}
    <3>1. cases[v][n] \in Cases
      BY DEF Types
    <3> QED
      BY <3>1 DEF Cases
  <2>4. ASSUME NEW v \in Versions
        PROVE  /\ DOMAIN review[v] = DOMAIN placed[v]
               /\ \A n \in DOMAIN review[v] :
                    review[v][n] \in [status : {"pending"} \cup Verdicts,
                                      source : Versions \cup {None}]
    BY DEF Types, Reviews
  <2> QED
    BY <2>1, <2>2, <2>3, <2>4 DEF Types, TypeOK
<1> QED
  BY <1>1, DisturbedIsBoolean, Invariance, PTL

\* Neither an activation nor a confirmed mapping gives two page numbers of a version
\* the same page: the plan's matches, the human's decisions and the new pages never
\* collide.  An enabling that would is stopped by the unique index and fails.
THEOREM OnePage == Spec => []OnePagePerVersion
<1>1. IInv => OnePagePerVersion
  BY DEF IInv, PagesInv
<1> QED
  BY <1>1, Invariance, PTL

\* As long as the newest activation was not voided, exactly the pages of the current
\* version are not tombstoned.
THEOREM LivePages == Spec => []LiveIsCurrent
<1>1. IInv => LiveIsCurrent
  BY DEF IInv
<1> QED
  BY <1>1, Invariance, PTL

\* However many versions it was inherited through, a review comes from the version
\* that it names as its source, which has the same page with the same content and,
\* while both are ready, the same review.
THEOREM ReviewsEarned == Spec => []ReviewsAreEarned
<1>1. IInv => ReviewsAreEarned
  BY DEF IInv, ReviewsInv
<1> QED
  BY <1>1, Invariance, PTL

\* A reopened review is not undone by an inheritance from before it.
THEOREM ReviewsNotResurrected == Spec => []NoReviewResurrected
<1>1. IInv => NoReviewResurrected
  BY DEF IInv, ReviewsInv
<1> QED
  BY <1>1, Invariance, PTL

\* A plan that asks nothing matches every row whose content a ready version has, to
\* the page that content had there.
LEMMA KnownContentIsMatched ==
    ASSUME NEW d, NEW rows, DOMAIN Plan(current, {}, d, rows).asked = {},
           NEW u \in Ready, NEW m \in Numbers, m \in DOMAIN placed[u],
           NEW n \in rows, deck[u][m].content = d[n].content
    PROVE  LET match == Plan(current, {}, d, rows).match
           IN n \in DOMAIN match /\ match[n] = placed[u][m]
<1> DEFINE history == History
           candidates ==
            [k \in rows |->
                {placed[x[1]][x[2]] : x \in
                    {y \in history : deck[y[1]][y[2]].content = d[k].content}} \ {}]
           sameContent == {k \in rows : OnlyCandidate(candidates, k)}
           unclear ==
            {k \in rows \ sameContent :
                \/ candidates[k] # {}
                \/ current # None /\ \E j \in rows \ {k} : d[j].content = d[k].content}
           taken == UNION {candidates[k] : k \in sameContent}
           slide ==
            [k \in rows |->
                IF current = None THEN {}
                ELSE {placed[current][j] : j \in {i \in DOMAIN placed[current] :
                                            deck[current][i].slide = d[k].slide}} \ taken]
           rest == rows \ (sameContent \cup unclear)
           sameSlide ==
            {k \in rest : /\ Cardinality(slide[k]) = 1
                          /\ \A j \in rest : d[j].slide = d[k].slide => j = k}
           conflict == {k \in rest \ sameSlide : slide[k] # {}}
           asked == Plan(current, {}, d, rows).asked
           match == Plan(current, {}, d, rows).match
<1>1. match = [k \in sameContent \cup sameSlide |->
                CHOOSE p \in IF k \in sameContent THEN candidates[k] ELSE slide[k] : TRUE]
  BY DEF Plan
<1>2. asked = [k \in unclear \cup conflict |-> candidates[k] \cup slide[k]]
  BY DEF Plan
<1>3. placed[u][m] \in candidates[n]
  <2>1. <<u, m>> \in history
    BY DEF History, Ready
  <2> HIDE DEF history
  <2> QED
    BY <2>1
<1> HIDE DEF slide, conflict, sameSlide
<1>4. unclear = {}
  <2> HIDE DEF unclear
  <2> QED
    BY <1>2
<1>5. n \in sameContent
  <2> HIDE DEF sameContent, candidates
  <2> QED
    BY <1>3, <1>4
<1>6. candidates[n] = {placed[u][m]}
  <2>1. \E p \in candidates[n] : candidates[n] = {p}
    <3> HIDE DEF candidates
    <3> QED
      BY <1>5 DEF OnlyCandidate
  <2> HIDE DEF candidates
  <2> QED
    BY <1>3, <2>1
<1> HIDE DEF candidates, sameContent
<1>7. n \in DOMAIN match /\ match[n] = placed[u][m]
  <2> HIDE DEF match
  <2> QED
    BY <1>1, <1>5, <1>6
<1> QED
  BY <1>7 DEF match

\* Identity does not fork silently: a version that becomes current without asking a
\* human keeps the page of every content that a ready version has.
THEOREM KnownContent == Spec => KnownContentKeepsItsPage
<1> DEFINE A == \A v \in Versions : status[v] = "absent" /\ status'[v] = "ready" =>
                  \A u \in Ready, m, n \in Numbers :
                     /\ m \in DOMAIN placed[u]
                     /\ n \in DOMAIN placed'[v]
                     /\ deck[u][m].content = deck'[v][n].content
                     => placed'[v][n] = placed[u][m]
<1>1. IInv /\ [Next]_vars => A
  <2> SUFFICES ASSUME IInv, [Next]_vars, NEW v \in Versions,
                      status[v] = "absent", status'[v] = "ready",
                      NEW u \in Ready, NEW m \in Numbers, NEW n \in Numbers,
                      m \in DOMAIN placed[u], n \in DOMAIN placed'[v],
                      deck[u][m].content = deck'[v][n].content
               PROVE  placed'[v][n] = placed[u][m]
    OBVIOUS
  <2> USE DEF IInv, PagesInv, Order
  <2>1. PICK d \in Decks : ActivateVersion(v, d)
    <3>1. ASSUME NEW w \in Versions, NEW d \in Decks, ActivateVersion(w, d)
          PROVE  w = v
      BY <3>1 DEF ActivateVersion, Materialize, Types
    <3>2. ASSUME NEW w \in Versions, NEW d \in Decks, PauseForMapping(w, d)
          PROVE  FALSE
      BY <3>2 DEF PauseForMapping, Types
    <3>3. ASSUME NEW w \in Versions, ConfirmPageMapping(w)
          PROVE  FALSE
      BY <3>3 DEF ConfirmPageMapping, Materialize, Types
    <3>4. ASSUME NEW w \in Versions, VoidVersion(w)
          PROVE  FALSE
      BY <3>4 DEF VoidVersion, Types
    <3>5. status' # status
      OBVIOUS
    <3> QED
      BY <3>1, <3>2, <3>3, <3>4, <3>5
         DEF Next, vars, SavePageMappingDecision, EnableHiddenPage, ReviewPage, ReopenPage
  <2>2. PICK match : match = Plan(current, {}, d, Visible(d)).match
    OBVIOUS
  <2>3. /\ deck'[v] = d /\ DOMAIN placed'[v] = Visible(d)
        /\ \A k \in Visible(d) :
             placed'[v][k] = IF k \in DOMAIN match THEN match[k] ELSE <<v, k>>
    BY <2>1, <2>2 DEF ActivateVersion, Materialize, Types
  <2>4. n \in DOMAIN match /\ match[n] = placed[u][m]
    BY <2>1, <2>2, <2>3, KnownContentIsMatched DEF ActivateVersion
  <2> QED
    BY <2>3, <2>4
<1>2. IInv /\ [Next]_vars => [A]_vars
  BY <1>1
<1> QED
  BY <1>2, Invariance, PTL DEF Spec, KnownContentKeepsItsPage

-----------------------------------------------------------------------------
(* The versions of a document move as VersionLifecycle says. *)

LEMMA InstalledMoves ==
    ASSUME PagesInv, NEW v \in Versions, NEW d, NEW page, Installed(v, d, page)
    PROVE  Lifecycle!Next
<1> USE DEF PagesInv, Order
<1> DEFINE seen == [u \in Versions |-> IF status[u] = "absent" THEN "processing" ELSE status[u]]
           owner == [u \in Versions |-> "document"]
           cur == [x \in Document |-> current]
<1>1. seen[v] \in {"processing", "awaiting_mapping"}
  BY DEF Installed
<1>2. seen' = [seen EXCEPT ![v] = "ready"]
  BY DEF Installed, Types
<1>3. readyAt' = [readyAt EXCEPT ![v] = Activations + 1] /\ Activations' = Activations + 1
  BY OneMoreActivation DEF Installed
<1>4. cur' = [cur EXCEPT ![owner[v]] = v] /\ owner' = owner
  BY DEF Installed, Document
<1>5. Lifecycle!Activate(v)
  BY <1>1, <1>2, <1>3, <1>4 DEF Lifecycle!Activate
<1> QED
  BY <1>5 DEF Lifecycle!Next

LEMMA VoidMoves ==
    ASSUME PagesInv, NEW v \in Versions, VoidVersion(v)
    PROVE  Lifecycle!Next
<1> USE DEF PagesInv, Order
<1> DEFINE seen == [u \in Versions |-> IF status[u] = "absent" THEN "processing" ELSE status[u]]
           owner == [u \in Versions |-> "document"]
           cur == [x \in Document |-> current]
           others == Ready \ {v}
<1>1. /\ status[v] \in {"awaiting_mapping", "ready"}
      /\ status' = [status EXCEPT ![v] = "voided"]
      /\ current' = IF current = v THEN Newest(others) ELSE current
      /\ readyAt' = readyAt
  BY DEF VoidVersion
<1>2. seen[v] \in {"processing", "awaiting_mapping", "ready"}
      /\ seen' = [seen EXCEPT ![v] = "voided"]
  BY <1>1 DEF Types
<1>3. Activations' = Activations /\ owner' = owner
  BY <1>1 DEF Activations
<1>4. Lifecycle!Ready("document") = Ready
  BY DEF Lifecycle!Ready, Ready
<1>5. Newest(others) \in Lifecycle!Latest(others)
  <2>1. CASE others = {}
    BY <2>1 DEF Lifecycle!Latest, Newest
  <2>2. CASE others # {}
    <3>1. others \subseteq Versions
      BY DEF Ready
    <3>2. Newest(others) \in others /\ \A u \in others : readyAt[u] <= readyAt[Newest(others)]
      BY <2>2, <3>1, NewestIn
    <3> HIDE DEF others
    <3> QED
      BY <2>2, <3>2 DEF Lifecycle!Latest
  <2> QED
    BY <2>1, <2>2
<1>6. cur[owner[v]] = current /\ owner[v] = "document"
  BY DEF Document
<1>7. CASE current = v
  <2>1. cur' = [cur EXCEPT ![owner[v]] = Newest(others)]
    BY <1>1, <1>7 DEF Document
  <2> HIDE DEF seen, cur
  <2>2. \E f \in Lifecycle!Latest(Lifecycle!Ready(owner[v]) \ {v}) : cur' = [cur EXCEPT ![owner[v]] = f]
    BY <1>4, <1>5, <2>1
  <2> USE DEF seen, cur
  <2>3. Lifecycle!Void(v)
    BY <1>1, <1>2, <1>3, <1>6, <1>7, <2>2 DEF Lifecycle!Void
  <2> QED
    BY <2>3 DEF Lifecycle!Next
<1>8. CASE current # v
  <2>1. cur' = cur
    BY <1>1, <1>8
  <2>2. Lifecycle!Void(v)
    BY <1>1, <1>2, <1>3, <1>6, <1>8, <2>1 DEF Lifecycle!Void
  <2> QED
    BY <2>2 DEF Lifecycle!Next
<1> QED
  BY <1>7, <1>8

LEMMA PauseMoves ==
    ASSUME PagesInv, NEW v \in Versions, NEW d \in Decks, PauseForMapping(v, d)
    PROVE  Lifecycle!Next
<1> USE DEF PagesInv, Order
<1> DEFINE seen == [u \in Versions |-> IF status[u] = "absent" THEN "processing" ELSE status[u]]
           owner == [u \in Versions |-> "document"]
           cur == [x \in Document |-> current]
<1>1. /\ status[v] = "absent" /\ status' = [status EXCEPT ![v] = "awaiting_mapping"]
      /\ readyAt' = readyAt /\ current' = current
  BY DEF PauseForMapping, Acceptable
<1>2. seen[v] = "processing" /\ seen' = [seen EXCEPT ![v] = "awaiting_mapping"]
  BY <1>1 DEF Types
<1>3. Activations' = Activations /\ owner' = owner /\ cur' = cur
  BY <1>1 DEF Activations
<1>4. Lifecycle!Pause(v)
  BY <1>1, <1>2, <1>3 DEF Lifecycle!Pause
<1> QED
  BY <1>4 DEF Lifecycle!Next

\* The page model's versions pause, become ready and are voided as VersionLifecycle
\* says, with the fallback it prescribes: what Ingestion implements step by step and
\* what is collapsed here agree.
THEOREM MovesAsPromised == Spec => MovesAsLifecycle
<1>1. ASSUME IInv, [Next]_vars
      PROVE  [Lifecycle!Next]_<<status, readyAt, current>>
  <2> USE <1>1 DEF IInv
  <2>1. ASSUME NEW v \in Versions, NEW d \in Decks, ActivateVersion(v, d)
        PROVE  Lifecycle!Next
    BY <2>1, ActivationInstalls, InstalledMoves
  <2>2. ASSUME NEW v \in Versions, ConfirmPageMapping(v)
        PROVE  Lifecycle!Next
    <3>1. PICK d : d = deck[v]
      OBVIOUS
    <3>2. \E page : Installed(v, d, page)
      BY <2>2, <3>1, ConfirmationInstalls
    <3> QED
      BY <3>2, InstalledMoves
  <2>3. \/ Lifecycle!Next
        \/ \E v \in Versions, n \in Numbers, page \in Pages \cup {None} :
                SavePageMappingDecision(v, n, page)
        \/ \E v \in Versions, n \in Numbers : EnableHiddenPage(v, n)
        \/ \E n \in Numbers, verdict \in Verdicts : ReviewPage(n, verdict)
        \/ \E n \in Numbers : ReopenPage(n)
        \/ UNCHANGED vars
    BY <1>1, <2>1, <2>2, PauseMoves, VoidMoves DEF Next
  <2>4. CASE UNCHANGED <<status, readyAt, current>>
    BY <2>4
  <2>5. ASSUME NEW v \in Versions, NEW n \in Numbers, EnableHiddenPage(v, n)
        PROVE  UNCHANGED <<status, readyAt, current>>
    BY <2>5 DEF EnableHiddenPage
  <2>6. ASSUME NEW v \in Versions, NEW n \in Numbers, NEW page \in Pages \cup {None},
               SavePageMappingDecision(v, n, page)
        PROVE  UNCHANGED <<status, readyAt, current>>
    BY <2>6 DEF SavePageMappingDecision
  <2> QED
    BY <2>3, <2>4, <2>5, <2>6 DEF ReviewPage, ReopenPage, vars
<1> QED
  BY <1>1, Invariance, PTL DEF Spec, MovesAsLifecycle

-----------------------------------------------------------------------------
(* What becomes of the decisions. *)

\* What the plan matches it does not ask about, and the other way round.
LEMMA MatchedOrAsked ==
    ASSUME NEW cur, NEW used, NEW d, NEW rows
    PROVE  \A n \in DOMAIN Plan(cur, used, d, rows).asked :
                n \notin DOMAIN Plan(cur, used, d, rows).match
<1> DEFINE history == History
           candidates ==
            [n \in rows |->
                {placed[x[1]][x[2]] : x \in
                    {y \in history : deck[y[1]][y[2]].content = d[n].content}} \ used]
           sameContent == {n \in rows : OnlyCandidate(candidates, n)}
           unclear ==
            {n \in rows \ sameContent :
                \/ candidates[n] # {}
                \/ cur # None /\ \E m \in rows \ {n} : d[m].content = d[n].content}
           taken == UNION {candidates[n] : n \in sameContent}
           slide ==
            [n \in rows |->
                IF cur = None THEN {}
                ELSE {placed[cur][m] : m \in {k \in DOMAIN placed[cur] :
                                                deck[cur][k].slide = d[n].slide}} \ taken]
           rest == rows \ (sameContent \cup unclear)
           sameSlide ==
            {n \in rest : /\ Cardinality(slide[n]) = 1
                          /\ \A m \in rest : d[m].slide = d[n].slide => m = n}
           conflict == {n \in rest \ sameSlide : slide[n] # {}}
           asked == Plan(cur, used, d, rows).asked
           match == Plan(cur, used, d, rows).match
<1>1. match = [n \in sameContent \cup sameSlide |->
                CHOOSE p \in IF n \in sameContent THEN candidates[n] ELSE slide[n] : TRUE]
  BY DEF Plan
<1>2. asked = [n \in unclear \cup conflict |-> candidates[n] \cup slide[n]]
  BY DEF Plan
<1>3. (sameContent \cup sameSlide) \cap (unclear \cup conflict) = {}
  <2>1. unclear \cap sameContent = {} /\ rest \cap (sameContent \cup unclear) = {}
    OBVIOUS
  <2>2. sameSlide \subseteq rest /\ conflict \subseteq rest /\ conflict \cap sameSlide = {}
    OBVIOUS
  <2> HIDE DEF sameContent, unclear, rest, sameSlide, conflict
  <2> QED
    BY <2>1, <2>2
<1> HIDE DEF candidates, slide, sameContent, sameSlide, unclear, conflict, asked, match
<1>4. DOMAIN match = sameContent \cup sameSlide /\ DOMAIN asked = unclear \cup conflict
  BY <1>1, <1>2
<1>5. \A n \in DOMAIN asked : n \notin DOMAIN match
  BY <1>3, <1>4
<1> QED
  BY <1>5 DEF asked, match

\* The plan asks the same as long as the ready versions and their pages are the same.
LEMMA PlanStays ==
    ASSUME PagesInv, current' = current, placed' = placed, Ready' = Ready,
           \A u \in Versions : DOMAIN placed[u] # {} => deck'[u] = deck[u],
           NEW d, NEW rows
    PROVE  Plan(current, {}, d, rows).asked' = Plan(current, {}, d, rows).asked
<1> DEFINE history == History
           candidates ==
            [n \in rows |->
                {placed[x[1]][x[2]] : x \in
                    {y \in history : deck[y[1]][y[2]].content = d[n].content}} \ {}]
           sameContent == {n \in rows : OnlyCandidate(candidates, n)}
           unclear ==
            {n \in rows \ sameContent :
                \/ candidates[n] # {}
                \/ current # None /\ \E m \in rows \ {n} : d[m].content = d[n].content}
           taken == UNION {candidates[n] : n \in sameContent}
           slide ==
            [n \in rows |->
                IF current = None THEN {}
                ELSE {placed[current][m] : m \in {k \in DOMAIN placed[current] :
                                                deck[current][k].slide = d[n].slide}} \ taken]
           rest == rows \ (sameContent \cup unclear)
           sameSlide ==
            {n \in rest : /\ Cardinality(slide[n]) = 1
                          /\ \A m \in rest : d[m].slide = d[n].slide => m = n}
           conflict == {n \in rest \ sameSlide : slide[n] # {}}
           asked == Plan(current, {}, d, rows).asked
<1>1. history' = history
  BY DEF History
<1>2. \A y \in history : deck'[y[1]] = deck[y[1]]
  BY DEF History, Ready
<1> HIDE DEF history
<1>3. candidates' = candidates
  BY <1>1, <1>2
<1> HIDE DEF candidates
<1>4. sameContent' = sameContent
  BY <1>3 DEF OnlyCandidate
<1> HIDE DEF sameContent
<1>5. unclear' = unclear /\ taken' = taken
  BY <1>3, <1>4
<1> HIDE DEF unclear, taken
<1>6. slide' = slide
  <2>1. CASE current = None
    BY <2>1
  <2>2. CASE current # None
    <3>1. \A k \in DOMAIN placed[current] : deck'[current] = deck[current]
      BY <2>2 DEF PagesInv, Order, Types
    <3> QED
      BY <1>5, <2>2, <3>1
  <2> QED
    BY <2>1, <2>2
<1> HIDE DEF slide
<1>7. rest' = rest
  BY <1>4, <1>5
<1> HIDE DEF rest
<1>8. sameSlide' = sameSlide
  BY <1>6, <1>7
<1> HIDE DEF sameSlide
<1>9. conflict' = conflict
  BY <1>6, <1>7, <1>8
<1> HIDE DEF conflict
<1>10. asked = [n \in unclear \cup conflict |-> candidates[n] \cup slide[n]]
  BY DEF Plan, history, candidates, sameContent, unclear, taken, slide, rest, sameSlide, conflict
<1>11. asked' = [n \in unclear' \cup conflict' |-> candidates'[n] \cup slide'[n]]
  BY DEF Plan, history, candidates, sameContent, unclear, taken, slide, rest, sameSlide, conflict
<1> HIDE DEF asked
<1>12. asked' = asked
  BY <1>3, <1>5, <1>6, <1>9, <1>10, <1>11
<1> QED
  BY <1>12 DEF asked

\* A version that waits, undisturbed, has a case for every page number the plan asks
\* about.
CasesArePlanned ==
    \A v \in Versions : status[v] = "awaiting_mapping" /\ ~disturbed =>
        DOMAIN cases[v] = DOMAIN Plan(current, {}, deck[v], Visible(deck[v])).asked

\* One mapping waits at a time: nothing is accepted while one does.
OneWaits ==
    \A u, v \in Versions :
        status[u] = "awaiting_mapping" /\ status[v] = "awaiting_mapping" => u = v

LEMMA StepOneWaits ==
    ASSUME IInv, OneWaits, [Next]_vars
    PROVE  OneWaits'
<1> USE DEF IInv, PagesInv, Order, Types
<1>1. ASSUME NEW v \in Versions, NEW d \in Decks, ActivateVersion(v, d) \/ PauseForMapping(v, d)
      PROVE  OneWaits'
  BY <1>1 DEF ActivateVersion, PauseForMapping, Materialize, Acceptable, OneWaits
<1>2. ASSUME NEW v \in Versions, ConfirmPageMapping(v) \/ VoidVersion(v)
      PROVE  OneWaits'
  BY <1>2 DEF ConfirmPageMapping, VoidVersion, Materialize, OneWaits
<1>3. CASE status' = status
  BY <1>3 DEF OneWaits
<1> QED
  BY <1>1, <1>2, <1>3
     DEF Next, vars, SavePageMappingDecision, EnableHiddenPage, ReviewPage, ReopenPage

LEMMA StepCases ==
    ASSUME IInv, IInv', OneWaits, CasesArePlanned, [Next]_vars
    PROVE  CasesArePlanned'
<1> USE DEF IInv, PagesInv, Order
<1> SUFFICES ASSUME NEW v \in Versions, status'[v] = "awaiting_mapping", ~disturbed'
             PROVE  DOMAIN cases'[v]
                        = DOMAIN Plan(current, {}, deck[v], Visible(deck[v])).asked'
  BY DEF CasesArePlanned
<1>1. ASSUME status[v] = "awaiting_mapping", ~disturbed, current' = current, placed' = placed,
             Ready' = Ready, deck' = deck, DOMAIN cases'[v] = DOMAIN cases[v]
      PROVE  DOMAIN cases'[v] = DOMAIN Plan(current, {}, deck[v], Visible(deck[v])).asked'
  <2>1. PICK d, rows : d = deck[v] /\ rows = Visible(deck[v])
    OBVIOUS
  <2>2. Plan(current, {}, d, rows).asked' = Plan(current, {}, d, rows).asked
    BY <1>1, PlanStays
  <2>3. deck'[v] = d /\ Visible(deck[v])' = rows
    BY <1>1, <2>1 DEF Visible
  <2>4. Plan(current, {}, deck[v], Visible(deck[v])).asked' = Plan(current, {}, d, rows).asked'
    BY <2>3 DEF Plan
  <2>5. DOMAIN cases[v] = DOMAIN Plan(current, {}, d, rows).asked
    BY <1>1, <2>1 DEF CasesArePlanned
  <2> QED
    BY <1>1, <2>2, <2>4, <2>5
<1>2. CASE UNCHANGED vars
  <2>1. /\ status' = status /\ current' = current /\ placed' = placed /\ deck' = deck
        /\ cases' = cases /\ Ready' = Ready /\ disturbed' = disturbed
    BY <1>2 DEF vars, Ready
  <2> QED
    BY <1>1, <2>1
<1>3. ASSUME NEW d \in Decks, PauseForMapping(v, d)
      PROVE  DOMAIN cases'[v] = DOMAIN Plan(current, {}, deck[v], Visible(deck[v])).asked'
  <2>1. /\ status[v] = "absent" /\ status' = [status EXCEPT ![v] = "awaiting_mapping"]
        /\ deck' = [deck EXCEPT ![v] = d]
        /\ DOMAIN cases'[v] = DOMAIN Plan(current, {}, d, Visible(d)).asked
        /\ current' = current /\ placed' = placed
    BY <1>3 DEF PauseForMapping, Acceptable, Types
  <2>2. Ready' = Ready
    BY <2>1 DEF Ready, Types
  <2>3. DOMAIN placed[v] = {}
    BY <2>1 DEF RanksInOrder
  <2>4. \A u \in Versions : DOMAIN placed[u] # {} => deck'[u] = deck[u]
    BY <2>1, <2>3 DEF Types
  <2>5. PICK rows : rows = Visible(d)
    OBVIOUS
  <2>6. Plan(current, {}, d, rows).asked' = Plan(current, {}, d, rows).asked
    BY <2>1, <2>2, <2>4, PlanStays
  <2>7. deck'[v] = d /\ Visible(deck[v])' = rows
    BY <2>1, <2>5 DEF Types, Visible
  <2>8. Plan(current, {}, deck[v], Visible(deck[v])).asked' = Plan(current, {}, d, rows).asked'
    BY <2>7 DEF Plan
  <2> QED
    BY <2>1, <2>5, <2>6, <2>8
<1>4. CASE ~UNCHANGED vars /\ status[v] # "awaiting_mapping"
  <2>1. Next
    BY <1>4
  <2>2. \E d \in Decks : PauseForMapping(v, d)
    <3>1. ASSUME NEW w \in Versions, NEW d \in Decks, ActivateVersion(w, d) PROVE FALSE
      BY <1>4, <3>1 DEF ActivateVersion, Materialize, Types
    <3>2. ASSUME NEW w \in Versions, NEW d \in Decks, PauseForMapping(w, d) PROVE w = v
      BY <1>4, <3>2 DEF PauseForMapping, Types
    <3>3. ASSUME NEW w \in Versions, ConfirmPageMapping(w) PROVE FALSE
      BY <1>4, <3>3 DEF ConfirmPageMapping, Materialize, Types
    <3>4. ASSUME NEW w \in Versions, VoidVersion(w) PROVE FALSE
      BY <1>4, <3>4 DEF VoidVersion, Types
    <3>5. status' # status
      BY <1>4
    <3> QED
      BY <2>1, <3>1, <3>2, <3>3, <3>4, <3>5
         DEF Next, SavePageMappingDecision, EnableHiddenPage, ReviewPage, ReopenPage
  <2> QED
    BY <1>3, <2>2
<1>5. CASE ~UNCHANGED vars /\ status[v] = "awaiting_mapping"
  <2> DEFINE Kept == /\ ~disturbed /\ current' = current /\ placed' = placed
                     /\ Ready' = Ready /\ deck' = deck /\ DOMAIN cases'[v] = DOMAIN cases[v]
  <2>1. ASSUME NEW w \in Versions, NEW d \in Decks, ActivateVersion(w, d) \/ PauseForMapping(w, d)
        PROVE  FALSE
    BY <1>5, <2>1 DEF ActivateVersion, PauseForMapping, Acceptable
  <2>2. ASSUME NEW w \in Versions, NEW n \in Numbers, NEW page \in Pages \cup {None},
               SavePageMappingDecision(w, n, page)
        PROVE  Kept
    <3> DEFINE new == [cases EXCEPT ![w][n].decision = IF page = None THEN "new" ELSE "reuse"]
    <3>1. /\ cases' = [new EXCEPT ![w][n].page = page] /\ deck' = deck /\ current' = current
          /\ placed' = placed /\ disturbed' = disturbed /\ Ready' = Ready
      BY <2>2 DEF SavePageMappingDecision, Ready
    <3>2. DOMAIN new = Versions /\ DOMAIN new[v] = DOMAIN cases[v]
      BY DEF Types
    <3> HIDE DEF new
    <3> QED
      BY <3>1, <3>2
  <2>3. ASSUME NEW w \in Versions, ConfirmPageMapping(w)
        PROVE  FALSE
    BY <1>5, <2>3 DEF ConfirmPageMapping, Materialize, Types, OneWaits
  <2>4. ASSUME NEW w \in Versions, VoidVersion(w)
        PROVE  FALSE
    <3>1. w # v /\ disturbed' = (status[w] = "ready" /\ Waiting)
      BY <2>4 DEF VoidVersion, Types
    <3>2. status[w] = "ready" /\ Waiting
      BY <1>5, <2>4, <3>1 DEF VoidVersion, OneWaits, Waiting
    <3> QED
      BY <3>1, <3>2
  <2>5. ASSUME NEW w \in Versions, NEW n \in Numbers, EnableHiddenPage(w, n)
        PROVE  FALSE
    BY <1>5, <2>5 DEF EnableHiddenPage, Waiting
  <2>6. ASSUME NEW n \in Numbers, ReopenPage(n) \/ \E verdict \in Verdicts : ReviewPage(n, verdict)
        PROVE  Kept
    BY <2>6 DEF ReopenPage, ReviewPage, Ready
  <2>7. Kept
    BY <1>5, <2>1, <2>2, <2>3, <2>4, <2>5, <2>6 DEF Next
  <2> QED
    BY <1>1, <1>5, <2>7
<1> QED
  BY <1>2, <1>4, <1>5

\* A page number that was decided to reuse a page gets that page, whatever happened
\* while the mapping waited.  A decision for a new page stands, and everything
\* ambiguous was decided, or a ready version was voided or a hidden page enabled
\* meanwhile: nothing else overturns what a human decided.
THEOREM DecisionsHold == Spec => DecisionsStand
<1> DEFINE A == \A v \in Versions : status[v] = "awaiting_mapping" /\ status'[v] = "ready" =>
                  /\ \A n \in DOMAIN cases[v] :
                        /\ cases[v][n].decision = "reuse" => placed'[v][n] = cases[v][n].page
                        /\ cases[v][n].decision # "reuse" =>
                                placed'[v][n] = <<v, n>> \/ disturbed
                  /\ DOMAIN Plan(current, {}, deck[v], Visible(deck[v])).asked
                        \subseteq DOMAIN cases[v]
                     \/ disturbed
<1>1. Spec => []OneWaits
  <2>1. Init => OneWaits
    BY DEF Init, OneWaits
  <2>2. IInv /\ OneWaits /\ [Next]_vars => OneWaits'
    BY StepOneWaits
  <2> QED
    BY <2>1, <2>2, Invariance, PTL DEF Spec
<1>2. Init => CasesArePlanned
  BY DEF Init, CasesArePlanned
<1>3. Spec => []CasesArePlanned
  <2>1. IInv /\ IInv' /\ OneWaits /\ CasesArePlanned /\ [Next]_vars => CasesArePlanned'
    BY StepCases
  <2> QED
    BY <1>1, <1>2, <2>1, Invariance, PTL DEF Spec
<1>4. IInv /\ CasesArePlanned /\ [Next]_vars => A
  <2> SUFFICES ASSUME IInv, CasesArePlanned, [Next]_vars, NEW v \in Versions,
                      status[v] = "awaiting_mapping", status'[v] = "ready"
               PROVE  /\ \A n \in DOMAIN cases[v] :
                            /\ cases[v][n].decision = "reuse" =>
                                    placed'[v][n] = cases[v][n].page
                            /\ cases[v][n].decision # "reuse" =>
                                    placed'[v][n] = <<v, n>> \/ disturbed
                      /\ DOMAIN Plan(current, {}, deck[v], Visible(deck[v])).asked
                            \subseteq DOMAIN cases[v]
                         \/ disturbed
    OBVIOUS
  <2> USE DEF IInv, PagesInv, Order
  <2>1. ConfirmPageMapping(v)
    <3>1. ASSUME NEW w \in Versions, NEW d \in Decks, ActivateVersion(w, d) \/ PauseForMapping(w, d)
          PROVE  FALSE
      BY <3>1 DEF ActivateVersion, PauseForMapping, Acceptable
    <3>2. ASSUME NEW w \in Versions, ConfirmPageMapping(w) PROVE w = v
      BY <3>2 DEF ConfirmPageMapping, Materialize, Types
    <3>3. ASSUME NEW w \in Versions, VoidVersion(w) PROVE FALSE
      BY <3>3 DEF VoidVersion, Types
    <3>4. status' # status
      OBVIOUS
    <3> QED
      BY <3>1, <3>2, <3>3, <3>4
         DEF Next, vars, SavePageMappingDecision, EnableHiddenPage, ReviewPage, ReopenPage
  <2>2. PICK asked, match : /\ asked = Plan(current, {}, deck[v], Visible(deck[v])).asked
                            /\ match = Plan(current, {}, deck[v], Visible(deck[v])).match
    OBVIOUS
  <2>3. ~disturbed => DOMAIN cases[v] = DOMAIN asked
    BY <2>2 DEF CasesArePlanned
  <2>4. \A n \in DOMAIN asked : n \notin DOMAIN match
    BY <2>2, MatchedOrAsked
  <2> DEFINE reused == {n \in DOMAIN cases[v] : cases[v][n].decision = "reuse"}
             identity == [n \in DOMAIN match \cup reused |->
                            IF n \in reused THEN cases[v][n].page ELSE match[n]]
  <2>5. identity = Identities(v)
    BY <2>2 DEF Identities
  <2>6. placed' = [placed EXCEPT ![v] = [n \in Visible(deck[v]) |->
                        IF n \in DOMAIN identity THEN identity[n] ELSE <<v, n>>]]
    BY <2>1, <2>5 DEF ConfirmPageMapping, Materialize
  <2>7. \A n \in DOMAIN cases[v] :
            placed'[v][n] = IF n \in DOMAIN identity THEN identity[n] ELSE <<v, n>>
    <3> HIDE DEF identity
    <3> QED
      BY <2>6 DEF Types
  <2>8. ASSUME NEW n \in DOMAIN cases[v], cases[v][n].decision = "reuse"
        PROVE  placed'[v][n] = cases[v][n].page
    BY <2>7, <2>8
  <2>9. ASSUME NEW n \in DOMAIN cases[v], cases[v][n].decision # "reuse", ~disturbed
        PROVE  placed'[v][n] = <<v, n>>
    BY <2>3, <2>4, <2>7, <2>9
  <2> QED
    BY <2>2, <2>3, <2>8, <2>9
<1> HIDE DEF A
<1>5. IInv /\ CasesArePlanned /\ [Next]_vars => [A]_vars
  BY <1>4
<1>6. [][A]_vars => DecisionsStand
  BY DEF A, DecisionsStand
<1> QED
  BY <1>3, <1>5, <1>6, Invariance, PTL DEF Spec

===============================================================================
