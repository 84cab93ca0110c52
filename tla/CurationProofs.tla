--------------------------- MODULE CurationProofs ---------------------------
(***************************************************************************)
(* Proofs about Curation, for every number of pages, images, texts,        *)
(* snapshots, versions and renders.  A step adds a snapshot to a page,     *)
(* adds gate records to its current one, changes a review, or starts a     *)
(* version; the invariants are shown for these shapes.                     *)
(***************************************************************************)
EXTENDS Curation, WellFoundedInduction, TLAPS

-----------------------------------------------------------------------------
(* The inductive invariant. *)

\* Images are usable if included and have a visual_ref only then; captures are behind
\* the images of the page, one after the other.
Visuals(p, s, n) ==
    /\ Included(s) \cap Unusable[p] = {}
    /\ \A i \in Positions(p) : s.image[i].ref # 0 <=> i \in Included(s)
    /\ \A c \in s.captures : c.position \in ImageCount[p] .. ImageCount[p] + n - 1
    /\ \A c, d \in s.captures : c.position = d.position => c = d

\* A visual_ref was minted in the row it is named after, and by one visual.
Minted(p, r, s, n) ==
    /\ \A i \in Positions(p) : s.image[i].ref # 0 =>
        /\ s.image[i].ref \in 1 .. n
        /\ r[s.image[i].ref].image[i].ref = s.image[i].ref
    /\ \A c \in s.captures :
        /\ c.ref \in 1 .. n
        /\ \E d \in r[c.ref].captures : d.ref = c.ref
    /\ \A i, j \in Positions(p) : s.image[i].ref = n /\ s.image[j].ref = n => i = j
    /\ \A i \in Positions(p) : \A c \in s.captures : ~ (s.image[i].ref = n /\ c.ref = n)

\* An image keeps its visual_ref through a page version.
OneRef(p, r) ==
    \A m, n \in DOMAIN r : \A i \in Positions(p) :
        /\ r[m].version = r[n].version
        /\ r[m].image[i].ref # 0 /\ r[n].image[i].ref # 0
        => r[m].image[i].ref = r[n].image[i].ref

\* The current snapshot belongs to the current version, and without one the version
\* has none yet.
VersionsInOrder(p) ==
    /\ \A n \in DOMAIN row[p] : row[p][n].version <= version
    /\ cur[p] # 0 => row[p][cur[p]].version = version
    /\ cur[p] = 0 => \A n \in DOMAIN row[p] : row[p][n].version # version

\* All of that, on every page.
Rowwise ==
    \A p \in Pages :
        /\ \A n \in DOMAIN row[p] : Visuals(p, row[p][n], n) /\ Minted(p, row[p], row[p][n], n)
        /\ OneRef(p, row[p])
        /\ VersionsInOrder(p)

\* What steps preserve.
IInv ==
    /\ TypeOK
    /\ GatesCoverContent
    /\ ApprovedIsComplete
    /\ NoLostEdit
    /\ Rowwise

-----------------------------------------------------------------------------
(* The shapes of steps. *)

\* A derived snapshot has a gate record because its base has it and the same content,
\* or because it is given one itself.
GateOfBase(p, b, s) ==
    /\ s.confirmed # 0 =>
        \/ s.confirmed = NewRow(p)
        \/ b # 0 /\ s.confirmed = row[p][b].confirmed /\ s.text = row[p][b].text
    /\ s.reviewed # 0 =>
        /\ s.confirmed # 0 /\ Undecided(s) = {}
        /\ \/ s.reviewed = NewRow(p)
           \/ /\ b # 0 /\ s.reviewed = row[p][b].reviewed
              /\ s.text = row[p][b].text /\ s.image = row[p][b].image

\* Its visual_refs are those of earlier rows, or the one that is new with it.
RefsOfEarlier(p, s) ==
    /\ \A i \in Positions(p) :
        \/ s.image[i].ref = 0
        \/ /\ s.image[i].ref = NewRow(p)
           /\ \A m \in DOMAIN row[p] : row[p][m].version = version =>
                row[p][m].image[i].ref = 0
        \/ \E m \in DOMAIN row[p] : /\ row[p][m].version = version
                                   /\ row[p][m].image[i].ref = s.image[i].ref
    /\ \A c \in s.captures :
        \/ c.ref = NewRow(p)
        \/ \E m \in DOMAIN row[p] : \E d \in row[p][m].captures : d.ref = c.ref
    /\ \A i, j \in Positions(p) :
        s.image[i].ref = NewRow(p) /\ s.image[j].ref = NewRow(p) => i = j
    /\ \A i \in Positions(p) : \A c \in s.captures :
        ~ (s.image[i].ref = NewRow(p) /\ c.ref = NewRow(p))

\* An edit: a snapshot derived from the current one.
AddsSnapshot(p) ==
    \E b \in Loaded(p) : \E s \in Snapshot(p) :
        /\ CurrentPending(p, b)
        /\ Derive(p, b, s)
        /\ GateOfBase(p, b, s)
        /\ Visuals(p, s, NewRow(p))
        /\ RefsOfEarlier(p, s)

\* Gate records for the current snapshot.
AddsGates(p) ==
    \E b \in Loaded(p), x \in Nat, y \in Nat :
        /\ CurrentPending(p, b)
        /\ b # 0
        /\ x = row[p][b].confirmed \/ (row[p][b].confirmed = 0 /\ x = b)
        /\ \/ y = row[p][b].reviewed
           \/ row[p][b].reviewed = 0 /\ y = b /\ x # 0 /\ Undecided(row[p][b]) = {}
        /\ row' = [row EXCEPT ![p][b] = [@ EXCEPT !.confirmed = x, !.reviewed = y]]
        /\ UNCHANGED <<version, status, cur, noise, render>>

-----------------------------------------------------------------------------
(* Types. *)

\* Rows are snapshots, and what an editor has loaded is one of them or nothing.
LEMMA RowType ==
    ASSUME TypeOK, NEW p \in Pages
    PROVE  /\ row[p] \in Seq(Snapshot(p))
           /\ Len(row[p]) \in Nat
           /\ DOMAIN row[p] = 1 .. Len(row[p])
           /\ Loaded(p) = 0 .. Len(row[p])
           /\ NewRow(p) \in Nat \ {0}
           /\ \A n \in 1 .. Len(row[p]) : row[p][n] \in Snapshot(p)
           /\ \A n \in Loaded(p) \ {0} : n \in 1 .. Len(row[p]) /\ row[p][n] \in Snapshot(p)
  BY DEF TypeOK, Loaded, NewRow

\* A new text keeps images and captures and has no gate record.
LEMMA RewordedType ==
    ASSUME TypeOK, NEW p \in Pages, NEW b \in Loaded(p), NEW t \in Texts
    PROVE  /\ Reworded(p, b, t) \in Snapshot(p)
           /\ Reworded(p, b, t).confirmed = 0 /\ Reworded(p, b, t).reviewed = 0
           /\ b = 0 => /\ \A i \in Positions(p) : Reworded(p, b, t).image[i] = Open
                       /\ Reworded(p, b, t).captures = {}
           /\ b # 0 => /\ Reworded(p, b, t).image = row[p][b].image
                       /\ Reworded(p, b, t).captures = row[p][b].captures
<1>1. CASE b = 0
  <2>1. FirstSnapshot(p, t) \in Snapshot(p)
    BY DEF FirstSnapshot, Snapshot, Open, Decision, TypeOK
  <2> QED
    BY <1>1, <2>1 DEF Reworded, FirstSnapshot
<1>2. CASE b # 0
  <2>1. row[p][b] \in Snapshot(p)
    BY <1>2, RowType
  <2> QED
    BY <1>2, <2>1 DEF Reworded, Snapshot
<1> QED
  BY <1>1, <1>2

-----------------------------------------------------------------------------
(* Maxima of bounded sets. *)

\* A nonempty set of natural numbers has a least element.
LEMMA MinNat ==
    ASSUME NEW T, T \subseteq Nat, T # {}
    PROVE  \E x \in T : \A y \in T : x <= y
<1>1. IsWellFoundedOn(OpToRel(<, Nat), Nat)
  BY NatLessThanWellFounded
<1>2. \A x, y \in Nat : <<x, y>> \in OpToRel(<, Nat) <=> x < y
  BY DEF OpToRel
<1>3. PICK R : IsWellFoundedOn(R, Nat) /\ \A x, y \in Nat : <<x, y>> \in R <=> x < y
  BY <1>1, <1>2
<1>4. IsWellFoundedOn(R, Nat)
  BY <1>3
<1>5. \E x \in T : \A y \in T : ~ (<<y, x>> \in R)
  BY <1>4, WFMin
<1>6. PICK x \in T : \A y \in T : ~ (<<y, x>> \in R)
  BY <1>5
<1>7. \A y \in T : ~ (y < x)
  BY <1>3, <1>6
<1>8. \A y \in T : x <= y
  BY <1>7, SMT
<1> QED
  BY <1>8

\* A bounded nonempty set of integers has the maximum Max chooses.
LEMMA MaxOf ==
    ASSUME NEW S, NEW lo \in Int, NEW hi \in Int, S # {}, S \subseteq lo .. hi
    PROVE  Max(S) \in S /\ \A y \in S : y <= Max(S)
<1> DEFINE T == {hi - y : y \in S}
<1>1. T \subseteq Nat /\ T # {}
  OBVIOUS
<1>2. PICK x \in T : \A y \in T : x <= y
  BY <1>1, MinNat
<1>3. PICK m \in S : x = hi - m
  OBVIOUS
<1>4. \A y \in S : hi - y \in T /\ y \in Int
  OBVIOUS
<1>5. \A y \in S : m >= y
  BY <1>2, <1>3, <1>4
<1> QED
  BY <1>5 DEF Max

-----------------------------------------------------------------------------
(* What a snapshot that takes over images and captures of its base keeps. *)

\* The base of a command that is accepted is the newest snapshot, of this version.
LEMMA BaseFacts ==
    ASSUME IInv, NEW p \in Pages, NEW b \in Loaded(p), b # 0, CurrentPending(p, b)
    PROVE  /\ b \in DOMAIN row[p] /\ b \in Nat /\ b = Len(row[p]) /\ NewRow(p) = b + 1
           /\ row[p][b] \in Snapshot(p)
           /\ row[p][b].version = version
           /\ Visuals(p, row[p][b], b)
           /\ Minted(p, row[p], row[p][b], b)
<1>1. TypeOK
  BY DEF IInv
<1>2. cur[p] = b
  BY DEF CurrentPending
<1>3. b = Len(row[p]) /\ b \in DOMAIN row[p] /\ b \in Nat
  BY <1>1, <1>2, RowType DEF TypeOK
<1> QED
  BY <1>1, <1>2, <1>3, RowType DEF IInv, Rowwise, VersionsInOrder, NewRow

\* With the images of its base, a snapshot needs only its captures to be in order.
LEMMA SameImages ==
    ASSUME IInv, NEW p \in Pages, NEW b \in Loaded(p), b # 0, CurrentPending(p, b),
           NEW s \in Snapshot(p), s.image = row[p][b].image,
           \A c \in s.captures :
                /\ \/ c.ref = NewRow(p)
                   \/ \E d \in row[p][b].captures : d.ref = c.ref
                /\ c.position \in ImageCount[p] .. ImageCount[p] + b,
           \A c, d \in s.captures : c.position = d.position => c = d
    PROVE  Visuals(p, s, NewRow(p)) /\ RefsOfEarlier(p, s)
<1>1. /\ b \in DOMAIN row[p] /\ b \in Nat /\ NewRow(p) = b + 1
      /\ row[p][b].version = version
      /\ Visuals(p, row[p][b], b) /\ Minted(p, row[p], row[p][b], b)
  BY BaseFacts
<1>2. Included(s) = Included(row[p][b])
  BY DEF Included
<1>3. ImageCount[p] \in Nat
  BY CurationAssumption
<1>4. Visuals(p, s, NewRow(p))
  BY <1>1, <1>2, <1>3 DEF Visuals
<1>5. \A i \in Positions(p) : s.image[i].ref = 0 \/ s.image[i].ref \in 1 .. b
  BY <1>1 DEF Minted
<1>6. RefsOfEarlier(p, s)
  BY <1>1, <1>5 DEF RefsOfEarlier
<1> QED
  BY <1>4, <1>6

\* With images and captures of its base, or without any, it is in order.
LEMMA SameVisuals ==
    ASSUME IInv, NEW p \in Pages, NEW b \in Loaded(p), CurrentPending(p, b),
           NEW s \in Snapshot(p),
           b = 0 => (\A i \in Positions(p) : s.image[i] = Open) /\ s.captures = {},
           b # 0 => s.image = row[p][b].image /\ s.captures = row[p][b].captures
    PROVE  Visuals(p, s, NewRow(p)) /\ RefsOfEarlier(p, s)
<1>1. CASE b = 0
  <2>1. NewRow(p) \in Nat \ {0}
    BY RowType DEF IInv
  <2>2. Included(s) = {}
    BY <1>1 DEF Included, Open, Snapshot
  <2> QED
    BY <1>1, <2>1, <2>2 DEF Visuals, RefsOfEarlier, Open
<1>2. CASE b # 0
  <2>1. ImageCount[p] \in Nat
    BY CurationAssumption
  <2>2. b \in Nat /\ Visuals(p, row[p][b], b)
    BY <1>2, BaseFacts
  <2>3. \A c \in s.captures : c.position \in ImageCount[p] .. ImageCount[p] + b
    BY <1>2, <2>1, <2>2 DEF Visuals
  <2>4. \A c, d \in s.captures : c.position = d.position => c = d
    BY <1>2, <2>2 DEF Visuals
  <2> QED
    BY <1>2, <2>3, <2>4, SameImages
<1> QED
  BY <1>1, <1>2

-----------------------------------------------------------------------------
(* Every command has one of the shapes. *)

\* WithGates changes gate records only, and adds a review only if it may.
LEMMA WithGatesType ==
    ASSUME NEW p \in Pages, NEW s \in Snapshot(p), NEW n \in Nat \ {0}
    PROVE  \E x \in Nat \ {0}, y \in Nat :
             /\ WithGates(s, n) = [s EXCEPT !.confirmed = x, !.reviewed = y]
             /\ x = s.confirmed \/ (s.confirmed = 0 /\ x = n)
             /\ y = s.reviewed \/ (s.reviewed = 0 /\ y = n /\ Undecided(s) = {})
<1> DEFINE x == IF s.confirmed = 0 THEN n ELSE s.confirmed
<1>1. x \in Nat \ {0}
  BY DEF Snapshot
<1>2. CASE s.reviewed = 0 /\ Undecided(s) = {}
  <2>1. WithGates(s, n) = [s EXCEPT !.confirmed = x, !.reviewed = n]
    BY <1>2 DEF WithGates, Snapshot
  <2> QED
    BY <1>1, <1>2, <2>1
<1>3. CASE ~(s.reviewed = 0 /\ Undecided(s) = {})
  <2>1. WithGates(s, n) = [s EXCEPT !.confirmed = x, !.reviewed = s.reviewed]
    BY <1>3 DEF WithGates, Snapshot
  <2>2. s.reviewed \in Nat
    BY DEF Snapshot
  <2> QED
    BY <1>1, <2>1, <2>2
<1> QED
  BY <1>2, <1>3

\* Saving and reviewing text.
LEMMA TextShape ==
    ASSUME IInv, NEW p \in Pages, NEW b \in Loaded(p), EditText(p, b)
    PROVE  AddsSnapshot(p) \/ AddsGates(p)
<1>0. TypeOK
  BY DEF IInv
<1>1. PICK t \in Texts : SaveSource(p, b, t) \/ ReviewSameText(p, b, t) \/ ReviewNewText(p, b, t)
  BY DEF EditText
<1>2. NewRow(p) \in Nat \ {0}
  BY <1>0, RowType
<1> DEFINE r == Reworded(p, b, t)
<1>3. /\ r \in Snapshot(p) /\ r.confirmed = 0 /\ r.reviewed = 0
      /\ b = 0 => (\A i \in Positions(p) : r.image[i] = Open) /\ r.captures = {}
      /\ b # 0 => r.image = row[p][b].image /\ r.captures = row[p][b].captures
  BY <1>0, RewordedType
<1> HIDE DEF r
<1>4. CASE SaveSource(p, b, t)
  <2>1. GateOfBase(p, b, r)
    BY <1>3 DEF GateOfBase
  <2>2. Derive(p, b, r) /\ CurrentPending(p, b)
    BY <1>4 DEF SaveSource, r
  <2>3. Visuals(p, r, NewRow(p)) /\ RefsOfEarlier(p, r)
    BY <1>3, <2>2, SameVisuals
  <2> QED
    BY <1>3, <2>1, <2>2, <2>3 DEF AddsSnapshot
<1>5. CASE ReviewSameText(p, b, t)
  <2>1. b # 0 /\ b \in Nat \ {0} /\ row[p][b] \in Snapshot(p) /\ CurrentPending(p, b)
    BY <1>0, <1>5, RowType DEF ReviewSameText, Loaded
  <2>2. PICK x \in Nat \ {0}, y \in Nat :
          /\ WithGates(row[p][b], b) = [row[p][b] EXCEPT !.confirmed = x, !.reviewed = y]
          /\ x = row[p][b].confirmed \/ (row[p][b].confirmed = 0 /\ x = b)
          /\ \/ y = row[p][b].reviewed
             \/ row[p][b].reviewed = 0 /\ y = b /\ Undecided(row[p][b]) = {}
    BY <2>1, WithGatesType
  <2>3. /\ row' = [row EXCEPT ![p][b] = [@ EXCEPT !.confirmed = x, !.reviewed = y]]
        /\ UNCHANGED <<version, status, cur, noise, render>>
    BY <1>5, <2>2 DEF ReviewSameText
  <2> QED
    BY <2>1, <2>2, <2>3 DEF AddsGates
<1>6. CASE ReviewNewText(p, b, t)
  <2>1. Derive(p, b, WithGates(r, NewRow(p))) /\ CurrentPending(p, b)
    BY <1>6 DEF ReviewNewText, r
  <2>2. PICK x \in Nat \ {0}, y \in Nat :
          /\ WithGates(r, NewRow(p)) = [r EXCEPT !.confirmed = x, !.reviewed = y]
          /\ x = r.confirmed \/ (r.confirmed = 0 /\ x = NewRow(p))
          /\ \/ y = r.reviewed
             \/ r.reviewed = 0 /\ y = NewRow(p) /\ Undecided(r) = {}
    BY <1>2, <1>3, WithGatesType
  <2> DEFINE s == [r EXCEPT !.confirmed = x, !.reviewed = y]
  <2>3. /\ s \in Snapshot(p) /\ s.confirmed = x /\ s.reviewed = y
        /\ s.image = r.image /\ s.captures = r.captures
    BY <1>3 DEF Snapshot
  <2>4. Derive(p, b, s)
    BY <2>1, <2>2
  <2> HIDE DEF s
  <2>5. Undecided(s) = Undecided(r)
    BY <2>3 DEF Undecided
  <2>6. GateOfBase(p, b, s)
    BY <1>3, <2>2, <2>3, <2>5 DEF GateOfBase
  <2>7. b = 0 => (\A i \in Positions(p) : s.image[i] = Open) /\ s.captures = {}
    BY <1>3, <2>3
  <2>8. b # 0 => s.image = row[p][b].image /\ s.captures = row[p][b].captures
    BY <1>3, <2>3
  <2>9. Visuals(p, s, NewRow(p)) /\ RefsOfEarlier(p, s)
    BY <2>1, <2>3, <2>7, <2>8, SameVisuals
  <2> QED
    BY <2>1, <2>3, <2>4, <2>6, <2>9 DEF AddsSnapshot
<1> QED
  BY <1>1, <1>4, <1>5, <1>6

\* Confirming the text.
LEMMA ConfirmShape ==
    ASSUME TypeOK, NEW p \in Pages, NEW b \in Loaded(p), ConfirmSource(p, b)
    PROVE  AddsGates(p)
<1>1. b # 0 /\ b \in Nat /\ row[p][b] \in Snapshot(p) /\ b \in DOMAIN row[p]
  BY RowType DEF ConfirmSource, Loaded
<1> DEFINE y == row[p][b].reviewed
<1>2. y \in Nat
  BY <1>1 DEF Snapshot
<1>3. [row[p][b] EXCEPT !.confirmed = b] = [row[p][b] EXCEPT !.confirmed = b, !.reviewed = y]
  BY <1>1 DEF Snapshot
<1>4. row' = [row EXCEPT ![p][b] = [@ EXCEPT !.confirmed = b, !.reviewed = y]]
  BY <1>3 DEF ConfirmSource
<1> QED
  BY <1>1, <1>2, <1>4 DEF ConfirmSource, AddsGates

\* Completing the review of the sources.
LEMMA CompleteShape ==
    ASSUME TypeOK, NEW p \in Pages, NEW b \in Loaded(p), CompleteReview(p, b)
    PROVE  AddsGates(p)
<1>1. b # 0 /\ b \in Nat /\ row[p][b] \in Snapshot(p) /\ b \in DOMAIN row[p]
  BY RowType DEF CompleteReview, Loaded
<1> DEFINE x == row[p][b].confirmed
<1>2. x \in Nat
  BY <1>1 DEF Snapshot
<1>3. [row[p][b] EXCEPT !.reviewed = b] = [row[p][b] EXCEPT !.confirmed = x, !.reviewed = b]
  BY <1>1 DEF Snapshot
<1>4. row' = [row EXCEPT ![p][b] = [@ EXCEPT !.confirmed = x, !.reviewed = b]]
  BY <1>3 DEF CompleteReview
<1> QED
  BY <1>1, <1>2, <1>4 DEF CompleteReview, AddsGates

\* The visual_ref of an inclusion is new, or the only one the image has had.
LEMMA RefForIs ==
    ASSUME TypeOK, NEW p \in Pages, NEW i \in Positions(p)
    PROVE  \/ /\ RefFor(p, i) = NewRow(p)
              /\ \A m \in DOMAIN row[p] : row[p][m].version = version =>
                    row[p][m].image[i].ref = 0
           \/ \E m \in DOMAIN row[p] : /\ row[p][m].version = version
                                      /\ row[p][m].image[i].ref # 0
                                      /\ RefFor(p, i) = row[p][m].image[i].ref
<1> DEFINE earlier == {n \in DOMAIN row[p] : /\ row[p][n].version = version
                                            /\ row[p][n].image[i].ref # 0}
<1>1. CASE earlier = {}
  BY <1>1 DEF RefFor
<1>2. CASE earlier # {}
  <2>1. earlier \subseteq 1 .. Len(row[p])
    BY RowType
  <2>4. 1 \in Int /\ Len(row[p]) \in Int
    BY RowType
  <2>2. RefFor(p, i) = row[p][Max(earlier)].image[i].ref
    BY <1>2 DEF RefFor
  <2> HIDE DEF earlier
  <2>3. Max(earlier) \in earlier
    BY <1>2, <2>1, <2>4, MaxOf
  <2> QED
    BY <2>2, <2>3 DEF earlier
<1> QED
  BY <1>1, <1>2

\* It is a number of a row.
LEMMA RefForType ==
    ASSUME IInv, NEW p \in Pages, NEW i \in Positions(p)
    PROVE  RefFor(p, i) \in Nat \ {0}
<1>1. TypeOK /\ NewRow(p) \in Nat \ {0}
  BY RowType DEF IInv
<1>2. ASSUME NEW m \in DOMAIN row[p] PROVE row[p][m].image[i].ref \in Nat
  <2>1. row[p][m] \in Snapshot(p)
    BY <1>1, RowType
  <2>2. row[p][m].image[i] \in Decision
    BY <2>1 DEF Snapshot
  <2> QED
    BY <2>2 DEF Decision
<1> QED
  BY <1>1, <1>2, RefForIs

\* Deciding on an image.
LEMMA ImageShape ==
    ASSUME IInv, NEW p \in Pages, NEW b \in Loaded(p), EditImages(p, b)
    PROVE  AddsSnapshot(p)
<1>1. PICK i \in Positions(p), d \in {"included", "ignored"} : DisposeImage(p, b, i, d)
  BY DEF EditImages
<1>2. b # 0 /\ CurrentPending(p, b) /\ (d = "included" => i \notin Unusable[p])
  BY <1>1 DEF DisposeImage, Usable
<1>3. /\ b \in DOMAIN row[p] /\ b \in Nat /\ NewRow(p) = b + 1
      /\ row[p][b] \in Snapshot(p)
      /\ row[p][b].version = version
      /\ Visuals(p, row[p][b], b) /\ Minted(p, row[p], row[p][b], b)
  BY <1>2, BaseFacts
<1>4. TypeOK /\ ImageCount[p] \in Nat
  BY CurationAssumption DEF IInv
<1> DEFINE r == IF d = "included" THEN RefFor(p, i) ELSE 0
           e == [disposition |-> d, at |-> NewRow(p), ref |-> r]
           s == [row[p][b] EXCEPT !.reviewed = 0, !.image[i] = e]
<1>5. r \in Nat /\ (r # 0 <=> d = "included")
  BY RefForType
<1>6. Derive(p, b, s)
  BY <1>1 DEF DisposeImage
<1>7. e \in Decision /\ e.ref = r /\ e.disposition = d
  BY <1>3, <1>5 DEF Decision
<1>8. /\ \/ r = 0
         \/ /\ r = NewRow(p)
            /\ \A m \in DOMAIN row[p] : row[p][m].version = version =>
                  row[p][m].image[i].ref = 0
         \/ \E m \in DOMAIN row[p] : row[p][m].version = version /\ row[p][m].image[i].ref = r
  BY <1>4, RefForIs
<1> HIDE DEF r, e
<1>9. /\ s \in Snapshot(p) /\ s.reviewed = 0 /\ s.confirmed = row[p][b].confirmed
      /\ s.text = row[p][b].text /\ s.captures = row[p][b].captures
      /\ s.image = [row[p][b].image EXCEPT ![i] = e]
  BY <1>3, <1>7 DEF Snapshot
<1>10. /\ s.image[i] = e
       /\ \A j \in Positions(p) \ {i} : s.image[j] = row[p][b].image[j]
       /\ DOMAIN s.image = Positions(p) /\ DOMAIN row[p][b].image = Positions(p)
  BY <1>3, <1>9 DEF Snapshot
<1> HIDE DEF s
<1>11. Included(s) = IF d = "included" THEN Included(row[p][b]) \cup {i}
                     ELSE Included(row[p][b]) \ {i}
  BY <1>7, <1>10 DEF Included
<1>12. GateOfBase(p, b, s)
  BY <1>2, <1>9 DEF GateOfBase
<1>13. Visuals(p, s, NewRow(p))
  <2>1. Included(s) \cap Unusable[p] = {}
    BY <1>2, <1>3, <1>11 DEF Visuals
  <2>2. \A j \in Positions(p) : s.image[j].ref # 0 <=> j \in Included(s)
    BY <1>3, <1>5, <1>7, <1>10, <1>11 DEF Visuals
  <2>3. \A c \in s.captures : c.position \in ImageCount[p] .. ImageCount[p] + NewRow(p) - 1
    BY <1>3, <1>4, <1>9 DEF Visuals
  <2>4. \A c, f \in s.captures : c.position = f.position => c = f
    BY <1>3, <1>9 DEF Visuals
  <2> QED
    BY <2>1, <2>2, <2>3, <2>4 DEF Visuals
<1>14. RefsOfEarlier(p, s)
  <2>1. \A j \in Positions(p) \ {i} : s.image[j].ref = 0 \/ s.image[j].ref \in 1 .. b
    BY <1>3, <1>10 DEF Minted
  <2>2. \A c \in s.captures : c.ref \in 1 .. b
    BY <1>3, <1>9 DEF Minted
  <2>3. s.image[i].ref = r
    BY <1>7, <1>10
  <2>4. ASSUME NEW j \in Positions(p) \ {i}
        PROVE  \/ s.image[j].ref = 0
               \/ \E m \in DOMAIN row[p] : /\ row[p][m].version = version
                                          /\ row[p][m].image[j].ref = s.image[j].ref
    BY <1>3, <1>10
  <2>5. \A c \in s.captures : \E m \in DOMAIN row[p] : \E f \in row[p][m].captures : f.ref = c.ref
    BY <1>3, <1>9
  <2>6. \A j \in Positions(p) : s.image[j].ref = NewRow(p) => j = i
    BY <1>3, <2>1
  <2>7. \A c \in s.captures : c.ref # NewRow(p)
    BY <1>3, <2>2
  <2> QED
    BY <1>8, <2>3, <2>4, <2>5, <2>6, <2>7 DEF RefsOfEarlier
<1> QED
  BY <1>2, <1>6, <1>9, <1>12, <1>13, <1>14 DEF AddsSnapshot

\* The position of a new capture: behind everything else.
LEMMA NextPositionIs ==
    ASSUME IInv, NEW p \in Pages, NEW b \in Loaded(p), b # 0, CurrentPending(p, b),
           row[p][b].reviewed # 0
    PROVE  /\ NextPosition(row[p][b]) \in ImageCount[p] .. ImageCount[p] + b
           /\ \A c \in row[p][b].captures : c.position < NextPosition(row[p][b])
<1>1. /\ b \in DOMAIN row[p] /\ b \in Nat \ {0}
      /\ row[p][b] \in Snapshot(p)
      /\ Visuals(p, row[p][b], b)
  BY BaseFacts
<1>2. ImageCount[p] \in Nat
  BY CurationAssumption
<1>3. Undecided(row[p][b]) = {}
  BY <1>1 DEF IInv, GatesCoverContent, ReviewedSources
<1>4. DOMAIN row[p][b].image = 0 .. ImageCount[p] - 1
  BY <1>1 DEF Snapshot, Positions
<1> DEFINE used == CapturePositions(row[p][b]) \cup DOMAIN row[p][b].image
           all == used \cup {-1}
           hi == ImageCount[p] + b - 1
<1>5. NextPosition(row[p][b]) = Max(all) + 1
  BY <1>3 DEF NextPosition, Behind
<1>6. \A c \in row[p][b].captures : c.position \in ImageCount[p] .. hi
  BY <1>1 DEF Visuals
<1>7. CapturePositions(row[p][b]) \subseteq -1 .. hi
  BY <1>1, <1>2, <1>6 DEF CapturePositions
<1>8. all \subseteq -1 .. hi
  BY <1>1, <1>2, <1>4, <1>7
<1>9. all # {} /\ hi \in Int /\ -1 \in Int
  BY <1>1, <1>2
<1>10. \A c \in row[p][b].captures : c.position \in all
  BY DEF CapturePositions
<1>11. ImageCount[p] - 1 \in all
  BY <1>2, <1>4
<1> HIDE DEF all
<1>12. Max(all) \in all /\ \A y \in all : y <= Max(all)
  BY <1>8, <1>9, MaxOf
<1> DEFINE top == Max(all)
<1>13. top \in -1 .. hi /\ top >= ImageCount[p] - 1
  BY <1>8, <1>11, <1>12
<1>14. \A c \in row[p][b].captures : c.position <= top
  BY <1>10, <1>12
<1>15. NextPosition(row[p][b]) = top + 1
  BY <1>5
<1> HIDE DEF top
<1> QED
  BY <1>1, <1>2, <1>6, <1>13, <1>14, <1>15

\* A derived snapshot that changes neither text, images nor gate records.
LEMMA CapturesChanged ==
    ASSUME IInv, NEW p \in Pages, NEW b \in Loaded(p), b # 0, CurrentPending(p, b),
           NEW g \in BOOLEAN, NEW k \in SUBSET Capture,
           Derive(p, b, [row[p][b] EXCEPT !.gap = g, !.captures = k]),
           \A c \in k :
                /\ \/ c.ref = NewRow(p)
                   \/ \E d \in row[p][b].captures : d.ref = c.ref
                /\ c.position \in ImageCount[p] .. ImageCount[p] + b,
           \A c, d \in k : c.position = d.position => c = d
    PROVE  AddsSnapshot(p)
<1> DEFINE s == [row[p][b] EXCEPT !.gap = g, !.captures = k]
<1>1. row[p][b] \in Snapshot(p) /\ b \in DOMAIN row[p]
  BY BaseFacts
<1>2. /\ s \in Snapshot(p) /\ s.captures = k /\ s.image = row[p][b].image
      /\ s.text = row[p][b].text /\ s.confirmed = row[p][b].confirmed
      /\ s.reviewed = row[p][b].reviewed
  BY <1>1 DEF Snapshot
<1>3. Derive(p, b, s)
  OBVIOUS
<1> HIDE DEF s
<1>4. Visuals(p, s, NewRow(p)) /\ RefsOfEarlier(p, s)
  BY <1>2, SameImages
<1>5. Undecided(s) = Undecided(row[p][b])
  BY <1>2 DEF Undecided
<1>6. s.reviewed # 0 => s.confirmed # 0 /\ Undecided(s) = {}
  BY <1>1, <1>2, <1>5 DEF IInv, GatesCoverContent, ReviewedSources
<1>7. GateOfBase(p, b, s)
  BY <1>2, <1>6 DEF GateOfBase
<1> QED
  BY <1>2, <1>3, <1>4, <1>7 DEF AddsSnapshot

\* Saving, cropping, deleting and moving captures.
LEMMA CaptureShape ==
    ASSUME IInv, NEW p \in Pages, NEW b \in Loaded(p), EditCaptures(p, b)
    PROVE  AddsSnapshot(p)
<1>1. b # 0 /\ CurrentPending(p, b)
  BY DEF EditCaptures, SaveCapture, MarkComplete, UpdateCapture, DeleteCapture, MoveCapture
<1>2. /\ b \in DOMAIN row[p] /\ b \in Nat /\ NewRow(p) = b + 1
      /\ row[p][b] \in Snapshot(p) /\ Visuals(p, row[p][b], b)
  BY <1>1, BaseFacts
<1>3. ImageCount[p] \in Nat /\ render \in Nat
  BY CurationAssumption DEF IInv, TypeOK
<1> DEFINE old == row[p][b].captures
<1>4. /\ old \in SUBSET Capture
      /\ \A c \in old : c.position \in ImageCount[p] .. ImageCount[p] + b
      /\ \A c, d \in old : c.position = d.position => c = d
  BY <1>2, <1>3 DEF Snapshot, Visuals
<1>5. CASE SaveCapture(p, b)
  <2> DEFINE c == [ref |-> NewRow(p), position |-> NextPosition(row[p][b]), crop |-> render]
             k == old \cup {c}
  <2>1. row[p][b].reviewed # 0
        /\ Derive(p, b, [row[p][b] EXCEPT !.gap = FALSE, !.captures = k])
    BY <1>5 DEF SaveCapture
  <2>2. /\ NextPosition(row[p][b]) \in ImageCount[p] .. ImageCount[p] + b
        /\ \A d \in old : d.position < NextPosition(row[p][b])
    BY <1>1, <2>1, NextPositionIs
  <2>3. c \in Capture /\ c.ref = NewRow(p) /\ c.position = NextPosition(row[p][b])
    BY <1>2, <1>3, <2>2 DEF Capture
  <2> HIDE DEF c
  <2>4. k \in SUBSET Capture
    BY <1>4, <2>3
  <2>5. \A d \in k : d.position \in ImageCount[p] .. ImageCount[p] + b
                     /\ (d.ref = NewRow(p) \/ \E e \in old : e.ref = d.ref)
    BY <1>4, <2>2, <2>3
  <2>6. \A d, e \in k : d.position = e.position => d = e
    BY <1>4, <2>2, <2>3
  <2> QED
    BY <1>1, <2>1, <2>4, <2>5, <2>6, CapturesChanged
<1>6. CASE MarkComplete(p, b)
  <2>1. [row[p][b] EXCEPT !.gap = FALSE] = [row[p][b] EXCEPT !.gap = FALSE, !.captures = old]
    BY <1>2 DEF Snapshot
  <2>2. Derive(p, b, [row[p][b] EXCEPT !.gap = FALSE, !.captures = old])
    BY <1>6, <2>1 DEF MarkComplete
  <2> QED
    BY <1>1, <1>4, <2>2, CapturesChanged
<1>7. ASSUME NEW c \in old, UpdateCapture(p, b, c) PROVE AddsSnapshot(p)
  <2> DEFINE e == [c EXCEPT !.crop = render]
             k == (old \ {c}) \cup {e}
  <2>1. Derive(p, b, [row[p][b] EXCEPT !.gap = FALSE, !.captures = k])
    BY <1>7 DEF UpdateCapture
  <2>2. e \in Capture /\ e.ref = c.ref /\ e.position = c.position
    BY <1>3, <1>4 DEF Capture
  <2> HIDE DEF e
  <2>3. k \in SUBSET Capture
    BY <1>4, <2>2
  <2>4. \A d \in k : d.position \in ImageCount[p] .. ImageCount[p] + b
                     /\ \E f \in old : f.ref = d.ref
    BY <1>4, <2>2
  <2>5. \A d, f \in k : d.position = f.position => d = f
    BY <1>4, <2>2
  <2> QED
    BY <1>1, <2>1, <2>3, <2>4, <2>5, CapturesChanged
<1>8. ASSUME NEW c \in old, DeleteCapture(p, b, c) PROVE AddsSnapshot(p)
  <2> DEFINE g == (old = {c})
  <2>1. Derive(p, b, [row[p][b] EXCEPT !.gap = g, !.captures = old \ {c}])
    BY <1>8, <1>2 DEF DeleteCapture
  <2>2. g \in BOOLEAN
    OBVIOUS
  <2> HIDE DEF g
  <2>3. old \ {c} \in SUBSET Capture
    BY <1>4
  <2>4. /\ \A d \in old \ {c} : d.position \in ImageCount[p] .. ImageCount[p] + b
        /\ \A d, f \in old \ {c} : d.position = f.position => d = f
    BY <1>4
  <2> QED
    BY <1>1, <2>1, <2>2, <2>3, <2>4, CapturesChanged
<1>9. ASSUME NEW c \in old, NEW d \in old, MoveCapture(p, b, c, d) PROVE AddsSnapshot(p)
  <2> DEFINE x == [c EXCEPT !.position = d.position]
             y == [d EXCEPT !.position = c.position]
             k == (old \ {c, d}) \cup {x, y}
  <2>1. Derive(p, b, [row[p][b] EXCEPT !.gap = FALSE, !.captures = k])
    BY <1>9 DEF MoveCapture
  <2>2. /\ x \in Capture /\ x.ref = c.ref /\ x.position = d.position
        /\ y \in Capture /\ y.ref = d.ref /\ y.position = c.position
    BY <1>4 DEF Capture
  <2>3. c.position # d.position
    BY <1>9 DEF MoveCapture, Adjacent
  <2> HIDE DEF x, y
  <2>4. k \in SUBSET Capture
    BY <1>4, <2>2
  <2>5. \A e \in k : e.position \in ImageCount[p] .. ImageCount[p] + b
                     /\ \E f \in old : f.ref = e.ref
    BY <1>4, <2>2
  <2>6. \A e, f \in k : e.position = f.position => e = f
    BY <1>4, <2>2, <2>3
  <2> QED
    BY <1>1, <2>1, <2>4, <2>5, <2>6, CapturesChanged
<1> QED
  BY <1>5, <1>6, <1>7, <1>8, <1>9 DEF EditCaptures

\* Every step has one of the shapes, or leaves the snapshots alone.
LEMMA StepShape ==
    ASSUME IInv, Next
    PROVE  \/ \E p \in Pages : AddsSnapshot(p) \/ AddsGates(p)
           \/ \E p \in Pages : \E b \in Loaded(p) : Approve(p, b)
           \/ \E p \in Pages : Exclude(p) \/ Reopen(p)
           \/ ConfirmNoise \/ RevokeNoise \/ Rerender
           \/ \E kept \in SUBSET Pages : ActivateVersion(kept)
<1>1. ASSUME NEW p \in Pages, NEW b \in Loaded(p),
             EditText(p, b) \/ ConfirmSource(p, b) \/ CompleteReview(p, b)
             \/ EditImages(p, b) \/ EditCaptures(p, b)
      PROVE  AddsSnapshot(p) \/ AddsGates(p)
  BY <1>1, TextShape, ConfirmShape, CompleteShape, ImageShape, CaptureShape DEF IInv
<1> QED
  BY <1>1 DEF Next

-----------------------------------------------------------------------------
(* What the shapes do to the snapshots. *)

\* What Append does to the rows of a page.
LEMMA AppendIs ==
    ASSUME TypeOK, NEW p \in Pages, NEW s \in Snapshot(p)
    PROVE  LET r == Append(row[p], s) IN
           /\ r \in Seq(Snapshot(p))
           /\ Len(r) = NewRow(p)
           /\ DOMAIN r = DOMAIN row[p] \cup {NewRow(p)}
           /\ \A n \in DOMAIN row[p] : n # NewRow(p) /\ n < NewRow(p) /\ r[n] = row[p][n]
           /\ r[NewRow(p)] = s
<1>1. /\ row[p] \in Seq(Snapshot(p)) /\ Len(row[p]) \in Nat
      /\ DOMAIN row[p] = 1 .. Len(row[p])
      /\ NewRow(p) = Len(row[p]) + 1
  BY RowType DEF NewRow
<1> QED
  BY <1>1

\* The page gets s as its newest row.
Grows(p, s) ==
    /\ row'[p] \in Seq(Snapshot(p)) /\ s \in Snapshot(p)
    /\ Len(row'[p]) = NewRow(p)
    /\ DOMAIN row'[p] = DOMAIN row[p] \cup {NewRow(p)}
    /\ \A n \in DOMAIN row[p] : n # NewRow(p) /\ n < NewRow(p) /\ row'[p][n] = row[p][n]
    /\ row'[p][NewRow(p)] = s

\* A derived snapshot comes last on its page, and the other pages are left alone.
LEMMA SnapshotEffect ==
    ASSUME IInv, NEW p \in Pages, AddsSnapshot(p)
    PROVE  \E s \in Snapshot(p) :
             /\ Grows(p, s)
             /\ DOMAIN row' = Pages /\ \A q \in Pages \ {p} : row'[q] = row[q]
             /\ cur' = [cur EXCEPT ![p] = NewRow(p)]
             /\ UNCHANGED <<version, status, noise, render>>
             /\ status[p] = "pending"
             /\ s.version = version /\ s.base = cur[p]
             /\ GateOfBase(p, cur[p], s)
             /\ Visuals(p, s, NewRow(p)) /\ RefsOfEarlier(p, s)
<1>1. TypeOK
  BY DEF IInv
<1>2. PICK b \in Loaded(p), r \in Snapshot(p) :
        /\ CurrentPending(p, b)
        /\ Derive(p, b, r)
        /\ GateOfBase(p, b, r)
        /\ Visuals(p, r, NewRow(p))
        /\ RefsOfEarlier(p, r)
  BY DEF AddsSnapshot
<1> DEFINE s == [r EXCEPT !.version = version, !.base = b]
<1>3. b = cur[p] /\ b \in Nat /\ version \in Nat /\ status[p] = "pending"
  BY <1>1, <1>2, CurationAssumption DEF CurrentPending, TypeOK
<1>4. /\ s \in Snapshot(p) /\ s.version = version /\ s.base = b
      /\ s.text = r.text /\ s.confirmed = r.confirmed /\ s.reviewed = r.reviewed
      /\ s.gap = r.gap /\ s.image = r.image /\ s.captures = r.captures
  BY <1>3 DEF Snapshot
<1>5. /\ row' = [row EXCEPT ![p] = Append(row[p], s)]
      /\ cur' = [cur EXCEPT ![p] = NewRow(p)]
      /\ UNCHANGED <<version, status, noise, render>>
  BY <1>2 DEF Derive
<1> HIDE DEF s
<1>6. DOMAIN row' = Pages /\ row'[p] = Append(row[p], s) /\ \A q \in Pages \ {p} : row'[q] = row[q]
  BY <1>1, <1>5 DEF TypeOK
<1>7. Grows(p, s)
  BY <1>1, <1>4, <1>6, AppendIs DEF Grows
<1>8. Included(s) = Included(r) /\ Undecided(s) = Undecided(r)
  BY <1>4 DEF Included, Undecided
<1>9. GateOfBase(p, cur[p], s)
  BY <1>2, <1>3, <1>4, <1>8 DEF GateOfBase
<1>10. Visuals(p, s, NewRow(p)) /\ RefsOfEarlier(p, s)
  BY <1>2, <1>4, <1>8 DEF Visuals, RefsOfEarlier
<1> QED
  BY <1>3, <1>4, <1>5, <1>6, <1>7, <1>9, <1>10

\* Gate records aside.
SameButGates(s, t) ==
    /\ s.version = t.version /\ s.base = t.base /\ s.text = t.text
    /\ s.gap = t.gap /\ s.image = t.image /\ s.captures = t.captures

\* Gate records are added where there were none, and nothing else changes.
LEMMA GatesEffect ==
    ASSUME IInv, NEW p \in Pages, AddsGates(p)
    PROVE  /\ UNCHANGED <<version, status, cur, noise, render>>
           /\ status[p] = "pending"
           /\ DOMAIN row' = Pages
           /\ \A q \in Pages : row'[q] \in Seq(Snapshot(q)) /\ Len(row'[q]) = Len(row[q])
                               /\ DOMAIN row'[q] = DOMAIN row[q]
           /\ \A q \in Pages \ {p} : row'[q] = row[q]
           /\ \A q \in Pages : \A n \in DOMAIN row[q] :
                /\ SameButGates(row'[q][n], row[q][n])
                /\ \/ row'[q][n].confirmed = row[q][n].confirmed
                   \/ row[q][n].confirmed = 0 /\ row'[q][n].confirmed = n
                /\ \/ row'[q][n].reviewed = row[q][n].reviewed
                   \/ /\ row[q][n].reviewed = 0 /\ row'[q][n].reviewed = n
                      /\ row'[q][n].confirmed # 0 /\ Undecided(row[q][n]) = {}
<1>1. TypeOK
  BY DEF IInv
<1>2. PICK b \in Loaded(p), x \in Nat, y \in Nat :
        /\ CurrentPending(p, b)
        /\ b # 0
        /\ x = row[p][b].confirmed \/ (row[p][b].confirmed = 0 /\ x = b)
        /\ \/ y = row[p][b].reviewed
           \/ row[p][b].reviewed = 0 /\ y = b /\ x # 0 /\ Undecided(row[p][b]) = {}
        /\ row' = [row EXCEPT ![p][b] = [@ EXCEPT !.confirmed = x, !.reviewed = y]]
        /\ UNCHANGED <<version, status, cur, noise, render>>
  BY DEF AddsGates
<1> DEFINE s == [row[p][b] EXCEPT !.confirmed = x, !.reviewed = y]
<1>3. b \in DOMAIN row[p] /\ row[p][b] \in Snapshot(p) /\ row[p] \in Seq(Snapshot(p))
  BY <1>1, <1>2, RowType
<1>4. s \in Snapshot(p) /\ SameButGates(s, row[p][b]) /\ s.confirmed = x /\ s.reviewed = y
  BY <1>3 DEF Snapshot, SameButGates
<1>5. row' = [row EXCEPT ![p] = [row[p] EXCEPT ![b] = s]]
  BY <1>2
<1> HIDE DEF s
<1>6. /\ DOMAIN row' = Pages /\ \A q \in Pages \ {p} : row'[q] = row[q]
      /\ row'[p] = [row[p] EXCEPT ![b] = s]
  BY <1>1, <1>5 DEF TypeOK
<1>7. /\ row'[p] \in Seq(Snapshot(p)) /\ Len(row'[p]) = Len(row[p])
      /\ DOMAIN row'[p] = DOMAIN row[p]
      /\ row'[p][b] = s /\ \A n \in DOMAIN row[p] \ {b} : row'[p][n] = row[p][n]
  BY <1>3, <1>4, <1>6
<1>8. \A q \in Pages : row[q] \in Seq(Snapshot(q))
  BY <1>1 DEF TypeOK
<1>9. ASSUME NEW q \in Pages, NEW n \in DOMAIN row[q]
      PROVE /\ SameButGates(row'[q][n], row[q][n])
            /\ \/ row'[q][n].confirmed = row[q][n].confirmed
               \/ row[q][n].confirmed = 0 /\ row'[q][n].confirmed = n
            /\ \/ row'[q][n].reviewed = row[q][n].reviewed
               \/ /\ row[q][n].reviewed = 0 /\ row'[q][n].reviewed = n
                  /\ row'[q][n].confirmed # 0 /\ Undecided(row[q][n]) = {}
  <2>1. CASE q = p /\ n = b
    BY <1>2, <1>4, <1>7, <2>1
  <2>2. CASE ~(q = p /\ n = b)
    BY <1>6, <1>7, <2>2 DEF SameButGates
  <2> QED
    BY <2>1, <2>2
<1>10. status[p] = "pending" /\ UNCHANGED <<version, status, cur, noise, render>>
  BY <1>2 DEF CurrentPending
<1>11. \A q \in Pages : row'[q] \in Seq(Snapshot(q)) /\ Len(row'[q]) = Len(row[q])
                        /\ DOMAIN row'[q] = DOMAIN row[q]
  BY <1>6, <1>7, <1>8
<1> QED
  BY <1>6, <1>9, <1>10, <1>11

\* Version and base aside.
IsClone(s, r) ==
    /\ s.text = r.text /\ s.confirmed = r.confirmed /\ s.reviewed = r.reviewed
    /\ s.gap = r.gap /\ s.image = r.image /\ s.captures = r.captures

\* A version adds to a page a clone of its current snapshot, or nothing.
LEMMA VersionEffect ==
    ASSUME IInv, NEW kept \in SUBSET Pages, ActivateVersion(kept)
    PROVE  /\ version' = version + 1 /\ version' \in 1 .. MaxVersion
           /\ UNCHANGED render /\ noise' = FALSE
           /\ DOMAIN row' = Pages
           /\ status' \in [Pages -> Statuses] /\ cur' \in [Pages -> Nat]
           /\ \A p \in Pages : status'[p] = "pending" \/ (status'[p] = status[p] /\ p \in kept)
           /\ \A p \in Pages :
                \/ /\ row'[p] = row[p] /\ cur'[p] = 0
                   /\ status'[p] = "pending" \/ cur[p] = 0
                \/ \E s \in Snapshot(p) :
                    /\ Grows(p, s)
                    /\ cur[p] \in DOMAIN row[p] /\ row[p][cur[p]] \in Snapshot(p)
                    /\ cur[p] = Len(row[p]) /\ cur'[p] = NewRow(p)
                    /\ s.version = version + 1 /\ s.base = cur[p] /\ IsClone(s, row[p][cur[p]])
<1>1. TypeOK /\ version \in Nat
  BY CurationAssumption DEF IInv, TypeOK
<1> DEFINE new(p) == [row[p][cur[p]] EXCEPT !.version = version + 1, !.base = cur[p]]
           cloned == {p \in Pages : Inherits(p, kept) /\ cur[p] # 0}
<1>2. /\ version < MaxVersion /\ version' = version + 1 /\ UNCHANGED render /\ noise' = FALSE
      /\ status' = [p \in Pages |-> IF Inherits(p, kept) THEN status[p] ELSE "pending"]
      /\ row' = [p \in Pages |-> IF p \in cloned THEN Append(row[p], new(p)) ELSE row[p]]
      /\ cur' = [p \in Pages |-> IF p \in cloned THEN NewRow(p) ELSE 0]
  BY DEF ActivateVersion, Clone
<1>3. version' \in 1 .. MaxVersion
  <2>1. version \in 1 .. MaxVersion
    BY <1>1 DEF TypeOK
  <2>2. version < MaxVersion /\ version' = version + 1
    BY <1>2
  <2>3. MaxVersion \in Nat
    BY CurationAssumption
  <2> QED
    BY <2>1, <2>2, <2>3
<1>4. status' \in [Pages -> Statuses] /\ cur' \in [Pages -> Nat]
  BY <1>1, <1>2, RowType DEF TypeOK, Statuses
<1>5. \A p \in Pages : status'[p] = "pending" \/ (status'[p] = status[p] /\ p \in kept)
  BY <1>2 DEF Inherits
<1>6. ASSUME NEW p \in Pages, p \notin cloned
      PROVE  row'[p] = row[p] /\ cur'[p] = 0 /\ (status'[p] = "pending" \/ cur[p] = 0)
  BY <1>2, <1>6
<1>7. ASSUME NEW p \in Pages, p \in cloned
      PROVE  \E s \in Snapshot(p) :
                    /\ Grows(p, s)
                    /\ cur[p] \in DOMAIN row[p] /\ row[p][cur[p]] \in Snapshot(p)
                    /\ cur[p] = Len(row[p]) /\ cur'[p] = NewRow(p)
                    /\ s.version = version + 1 /\ s.base = cur[p] /\ IsClone(s, row[p][cur[p]])
  <2>1. cur[p] # 0 /\ cur[p] = Len(row[p]) /\ cur[p] \in Nat
    BY <1>1, <1>7 DEF TypeOK
  <2>2. cur[p] \in DOMAIN row[p] /\ row[p][cur[p]] \in Snapshot(p)
    BY <1>1, <2>1, RowType
  <2>3. new(p) \in Snapshot(p)
    <3>1. \A r \in Snapshot(p) : \A v, c \in Nat :
            [r EXCEPT !.version = v, !.base = c] \in Snapshot(p)
      BY DEF Snapshot
    <3>2. version + 1 \in Nat
      BY <1>1
    <3> QED
      BY <2>1, <2>2, <3>1, <3>2
  <2>4. row'[p] = Append(row[p], new(p)) /\ cur'[p] = NewRow(p)
    BY <1>2, <1>7
  <2>5. Grows(p, new(p))
    BY <1>1, <2>3, <2>4, AppendIs DEF Grows
  <2>6. /\ new(p).version = version + 1 /\ new(p).base = cur[p]
        /\ IsClone(new(p), row[p][cur[p]])
    BY <2>2 DEF IsClone, Snapshot
  <2> QED
    BY <2>1, <2>2, <2>3, <2>4, <2>5, <2>6
<1>8. DOMAIN row' = Pages
  BY <1>2
<1> HIDE DEF cloned, new
<1> QED
  BY <1>2, <1>3, <1>4, <1>5, <1>6, <1>7, <1>8

-----------------------------------------------------------------------------
(* A page that gets a snapshot. *)

\* A snapshot whose visual_refs are known or new keeps them traceable.
LEMMA MintedGrows ==
    ASSUME TypeOK, NEW p \in Pages, NEW s \in Snapshot(p), Grows(p, s),
           \A n \in DOMAIN row[p] : Minted(p, row[p], row[p][n], n),
           \A i \in Positions(p) :
                \/ s.image[i].ref = 0 \/ s.image[i].ref = NewRow(p)
                \/ \E m \in DOMAIN row[p] : row[p][m].image[i].ref = s.image[i].ref,
           \A c \in s.captures :
                \/ c.ref = NewRow(p)
                \/ \E m \in DOMAIN row[p] : \E d \in row[p][m].captures : d.ref = c.ref,
           \A i, j \in Positions(p) :
                s.image[i].ref = NewRow(p) /\ s.image[j].ref = NewRow(p) => i = j,
           \A i \in Positions(p) : \A c \in s.captures :
                ~ (s.image[i].ref = NewRow(p) /\ c.ref = NewRow(p))
    PROVE  \A n \in DOMAIN row'[p] : Minted(p, row'[p], row'[p][n], n)
<1> DEFINE r == row[p]
           t == row'[p]
           k == NewRow(p)
<1>1. k \in Nat \ {0} /\ DOMAIN r = 1 .. k - 1
  BY RowType DEF NewRow
<1>2. DOMAIN t = 1 .. k /\ t[k] = s /\ \A n \in 1 .. k - 1 : t[n] = r[n]
  BY <1>1 DEF Grows
<1>3. \A n \in 1 .. k - 1 : Minted(p, r, r[n], n)
  BY <1>1
<1>4. /\ \A i \in Positions(p) :
            s.image[i].ref = 0 \/ s.image[i].ref = k
            \/ \E m \in 1 .. k - 1 : r[m].image[i].ref = s.image[i].ref
      /\ \A c \in s.captures :
            c.ref = k \/ \E m \in 1 .. k - 1 : \E d \in r[m].captures : d.ref = c.ref
  BY <1>1
<1>5. /\ \A i, j \in Positions(p) : s.image[i].ref = k /\ s.image[j].ref = k => i = j
      /\ \A i \in Positions(p) : \A c \in s.captures : ~ (s.image[i].ref = k /\ c.ref = k)
  OBVIOUS
<1> HIDE DEF r, t, k
<1>6. ASSUME NEW n \in 1 .. k - 1 PROVE Minted(p, t, t[n], n)
  <2> DEFINE u == t[n]
  <2>1. u = r[n] /\ Minted(p, r, u, n)
    BY <1>2, <1>3
  <2>2. n \in Nat /\ \A m \in 1 .. n : t[m] = r[m]
    BY <1>1, <1>2
  <2> HIDE DEF u
  <2>3. Minted(p, t, u, n)
    BY <2>1, <2>2 DEF Minted
  <2> QED
    BY <2>3 DEF u
<1>7. Minted(p, t, s, k)
  <2>1. ASSUME NEW i \in Positions(p), s.image[i].ref # 0
        PROVE  s.image[i].ref \in 1 .. k /\ t[s.image[i].ref].image[i].ref = s.image[i].ref
    <3>1. CASE s.image[i].ref = k
      BY <1>1, <1>2, <3>1
    <3>2. CASE \E m \in 1 .. k - 1 : r[m].image[i].ref = s.image[i].ref
      <4>1. PICK m \in 1 .. k - 1 : r[m].image[i].ref = s.image[i].ref
        BY <3>2
      <4>2. Minted(p, r, r[m], m)
        BY <1>3
      <4> DEFINE x == s.image[i].ref
      <4>3. x \in 1 .. m /\ r[x].image[i].ref = x
        BY <2>1, <4>1, <4>2 DEF Minted
      <4>4. x \in 1 .. k - 1 /\ t[x] = r[x]
        BY <1>1, <1>2, <4>3
      <4> QED
        BY <1>1, <4>3, <4>4
    <3> QED
      BY <1>4, <2>1, <3>1, <3>2
  <2>2. ASSUME NEW c \in s.captures
        PROVE  c.ref \in 1 .. k /\ \E d \in t[c.ref].captures : d.ref = c.ref
    <3>1. CASE c.ref = k
      BY <1>1, <1>2, <3>1
    <3>2. CASE \E m \in 1 .. k - 1 : \E d \in r[m].captures : d.ref = c.ref
      <4>1. PICK m \in 1 .. k - 1 : \E d \in r[m].captures : d.ref = c.ref
        BY <3>2
      <4>2. Minted(p, r, r[m], m)
        BY <1>3
      <4> DEFINE x == c.ref
      <4>3. x \in 1 .. m /\ \E e \in r[x].captures : e.ref = x
        BY <4>1, <4>2 DEF Minted
      <4>4. x \in 1 .. k - 1 /\ t[x] = r[x]
        BY <1>1, <1>2, <4>3
      <4> QED
        BY <1>1, <4>3, <4>4
    <3> QED
      BY <1>4, <3>1, <3>2
  <2> QED
    BY <1>5, <2>1, <2>2 DEF Minted
<1>8. \A n \in DOMAIN t : Minted(p, t, t[n], n)
  <2>1. \A n \in 1 .. k : n = k \/ n \in 1 .. k - 1
    BY <1>1
  <2> QED
    BY <1>2, <1>6, <1>7, <2>1
<1> QED
  BY <1>8 DEF t

\* A snapshot in order keeps the page in order.
LEMMA VisualsGrow ==
    ASSUME TypeOK, NEW p \in Pages, NEW s \in Snapshot(p), Grows(p, s),
           \A n \in DOMAIN row[p] : Visuals(p, row[p][n], n),
           Visuals(p, s, NewRow(p))
    PROVE  \A n \in DOMAIN row'[p] : Visuals(p, row'[p][n], n)
  BY DEF Grows

\* Both gates of a snapshot, in the rows r of its page.
Gated(r, s) ==
    /\ s.confirmed # 0 => s.confirmed \in DOMAIN r /\ r[s.confirmed].text = s.text
    /\ s.reviewed # 0 =>
        /\ s.reviewed \in DOMAIN r
        /\ r[s.reviewed].text = s.text /\ r[s.reviewed].image = s.image
        /\ s.confirmed # 0 /\ Undecided(s) = {}

\* GatesCoverContent, before and after a step.
LEMMA GatedIs ==
    /\ GatesCoverContent <=> \A p \in Pages : \A n \in DOMAIN row[p] : Gated(row[p], row[p][n])
    /\ GatesCoverContent' <=>
            \A p \in Pages : \A n \in DOMAIN row'[p] : Gated(row'[p], row'[p][n])
  BY DEF GatesCoverContent, ConfirmedText, ReviewedSources, Gated

\* A snapshot with the gate records of its base keeps them justified.
LEMMA GatesGrow ==
    ASSUME TypeOK, NEW p \in Pages, NEW s \in Snapshot(p), Grows(p, s),
           \A n \in DOMAIN row[p] : Gated(row[p], row[p][n]),
           cur[p] # 0 => cur[p] \in DOMAIN row[p],
           GateOfBase(p, cur[p], s)
    PROVE  \A n \in DOMAIN row'[p] : Gated(row'[p], row'[p][n])
<1> DEFINE r == row[p]
           t == row'[p]
           k == NewRow(p)
           b == cur[p]
<1>1. DOMAIN t = DOMAIN r \cup {k} /\ t[k] = s /\ \A n \in DOMAIN r : t[n] = r[n]
  BY DEF Grows
<1>2. \A n \in DOMAIN r : Gated(r, r[n])
  OBVIOUS
<1>3. b # 0 => b \in DOMAIN r
  OBVIOUS
<1>4. s.confirmed # 0 => \/ s.confirmed = k
                         \/ b # 0 /\ s.confirmed = r[b].confirmed /\ s.text = r[b].text
  BY DEF GateOfBase
<1>5. s.reviewed # 0 =>
        /\ s.confirmed # 0 /\ Undecided(s) = {}
        /\ \/ s.reviewed = k
           \/ /\ b # 0 /\ s.reviewed = r[b].reviewed
              /\ s.text = r[b].text /\ s.image = r[b].image
  BY DEF GateOfBase
<1> HIDE DEF r, t, k, b
<1>6. ASSUME NEW n \in DOMAIN r PROVE Gated(t, t[n])
  BY <1>1, <1>2 DEF Gated
<1>7. Gated(t, s)
  BY <1>1, <1>2, <1>3, <1>4, <1>5 DEF Gated
<1>8. \A n \in DOMAIN t : Gated(t, t[n])
  BY <1>1, <1>6, <1>7
<1> QED
  BY <1>8 DEF t

-----------------------------------------------------------------------------
(* Every step preserves the invariant. *)

\* Edits.
LEMMA SnapshotKeepsInv ==
    ASSUME IInv, NEW p \in Pages, AddsSnapshot(p)
    PROVE  IInv'
<1>1. TypeOK
  BY DEF IInv
<1>2. PICK s \in Snapshot(p) :
             /\ Grows(p, s)
             /\ DOMAIN row' = Pages /\ \A q \in Pages \ {p} : row'[q] = row[q]
             /\ cur' = [cur EXCEPT ![p] = NewRow(p)]
             /\ UNCHANGED <<version, status, noise, render>>
             /\ status[p] = "pending"
             /\ s.version = version /\ s.base = cur[p]
             /\ GateOfBase(p, cur[p], s)
             /\ Visuals(p, s, NewRow(p)) /\ RefsOfEarlier(p, s)
  BY SnapshotEffect
<1> DEFINE r == row[p]
           t == row'[p]
           k == NewRow(p)
<1>3. /\ k \in Nat \ {0} /\ Len(r) = k - 1 /\ DOMAIN r = 1 .. k - 1
      /\ Len(t) = k /\ DOMAIN t = 1 .. k /\ t[k] = s /\ \A n \in 1 .. k - 1 : t[n] = r[n]
      /\ t \in Seq(Snapshot(p))
  BY <1>1, <1>2, RowType DEF Grows, NewRow
<1>4. /\ cur' \in [Pages -> Nat] /\ cur'[p] = k /\ \A q \in Pages \ {p} : cur'[q] = cur[q]
      /\ version' = version /\ status' = status /\ version \in Nat
  BY <1>1, <1>2, <1>3, CurationAssumption DEF TypeOK
<1>5. TypeOK'
  <2>1. \A q \in Pages : row'[q] \in Seq(Snapshot(q)) /\ cur'[q] \in {0, Len(row'[q])}
    BY <1>1, <1>2, <1>3, <1>4 DEF TypeOK
  <2> QED
    BY <1>1, <1>2, <1>4, <2>1 DEF TypeOK
<1>6. cur[p] \in {0, k - 1} /\ (cur[p] # 0 => cur[p] \in DOMAIN row[p])
  BY <1>1, <1>3, RowType DEF TypeOK
<1>7. GatesCoverContent'
  <2>1. \A q \in Pages : \A n \in DOMAIN row[q] : Gated(row[q], row[q][n])
    BY GatedIs DEF IInv
  <2>2. \A n \in DOMAIN row'[p] : Gated(row'[p], row'[p][n])
    BY <1>1, <1>2, <1>6, <2>1, GatesGrow
  <2> QED
    BY <1>2, <2>1, <2>2, GatedIs
<1>8. ApprovedIsComplete'
  <2>1. ASSUME NEW q \in Pages, status'[q] = "approved"
        PROVE  q # p /\ row'[q] = row[q] /\ cur'[q] = cur[q] /\ status[q] = "approved"
    BY <1>2, <1>4, <2>1
  <2> QED
    BY <2>1 DEF IInv, ApprovedIsComplete, Current
<1>9. VersionsInOrder(p)
  BY DEF IInv, Rowwise
<1>10. NoLostEdit'
  <2>1. ASSUME NEW i \in 2 .. k, t[i].version = t[i - 1].version PROVE t[i].base = i - 1
    <3>1. CASE i = k
      <4>1. k - 1 \in DOMAIN r /\ r[k - 1].version = version
        BY <1>2, <1>3, <2>1, <3>1
      <4>2. cur[p] # 0
        BY <1>9, <4>1 DEF VersionsInOrder
      <4> QED
        BY <1>2, <1>3, <1>6, <3>1, <4>2
    <3>2. CASE i # k
      <4>1. i \in 2 .. k - 1 /\ t[i] = r[i] /\ t[i - 1] = r[i - 1]
        BY <1>3, <3>2
      <4> QED
        BY <1>3, <2>1, <4>1 DEF IInv, NoLostEdit
    <3> QED
      BY <3>1, <3>2
  <2>2. ASSUME NEW q \in Pages, q # p
        PROVE  \A i \in 2 .. Len(row'[q]) :
                 row'[q][i].version = row'[q][i - 1].version => row'[q][i].base = i - 1
    BY <1>2, <2>2 DEF IInv, NoLostEdit
  <2> QED
    BY <1>3, <2>1, <2>2 DEF NoLostEdit
<1>11. \A n \in DOMAIN t : Visuals(p, t[n], n)
  BY <1>1, <1>2, VisualsGrow DEF IInv, Rowwise
<1>12. \A n \in DOMAIN t : Minted(p, t, t[n], n)
  <2>1. \A n \in DOMAIN row[p] : Minted(p, row[p], row[p][n], n)
    BY DEF IInv, Rowwise
  <2>2. /\ \A i \in Positions(p) :
                \/ s.image[i].ref = 0 \/ s.image[i].ref = NewRow(p)
                \/ \E m \in DOMAIN row[p] : row[p][m].image[i].ref = s.image[i].ref
        /\ \A c \in s.captures :
                \/ c.ref = NewRow(p)
                \/ \E m \in DOMAIN row[p] : \E d \in row[p][m].captures : d.ref = c.ref
        /\ \A i, j \in Positions(p) :
                s.image[i].ref = NewRow(p) /\ s.image[j].ref = NewRow(p) => i = j
        /\ \A i \in Positions(p) : \A c \in s.captures :
                ~ (s.image[i].ref = NewRow(p) /\ c.ref = NewRow(p))
    BY <1>2 DEF RefsOfEarlier
  <2> QED
    BY <1>1, <1>2, <2>1, <2>2, MintedGrows
<1>13. OneRef(p, t)
  <2>1. OneRef(p, r)
    BY DEF IInv, Rowwise
  <2>2. \A i \in Positions(p) :
          \/ s.image[i].ref = 0
          \/ \A m \in 1 .. k - 1 : r[m].version = version => r[m].image[i].ref = 0
          \/ \E m \in 1 .. k - 1 : r[m].version = version /\ r[m].image[i].ref = s.image[i].ref
    BY <1>2, <1>3 DEF RefsOfEarlier
  <2>3. s.version = version
    BY <1>2
  <2> HIDE DEF r, t, k
  <2>4. \A m \in 1 .. k - 1 : \A i \in Positions(p) :
          r[m].version = version /\ r[m].image[i].ref # 0 /\ s.image[i].ref # 0
          => r[m].image[i].ref = s.image[i].ref
    BY <1>3, <2>1, <2>2 DEF OneRef
  <2> QED
    BY <1>3, <2>1, <2>3, <2>4 DEF OneRef
<1>14. VersionsInOrder(p)'
  <2>1. \A n \in DOMAIN t : t[n].version <= version
    BY <1>2, <1>3, <1>4, <1>9 DEF VersionsInOrder
  <2> QED
    BY <1>2, <1>3, <1>4, <2>1 DEF VersionsInOrder
<1>15. Rowwise'
  <2>1. ASSUME NEW q \in Pages, q # p
        PROVE  /\ \A n \in DOMAIN row'[q] :
                    Visuals(q, row'[q][n], n) /\ Minted(q, row'[q], row'[q][n], n)
               /\ OneRef(q, row'[q])
               /\ VersionsInOrder(q)'
    BY <1>2, <1>4, <2>1 DEF IInv, Rowwise, VersionsInOrder
  <2> QED
    BY <1>11, <1>12, <1>13, <1>14, <2>1 DEF Rowwise
<1> QED
  BY <1>5, <1>7, <1>8, <1>10, <1>15 DEF IInv

\* Confirmations and reviews of sources.
LEMMA GatesKeepInv ==
    ASSUME IInv, NEW p \in Pages, AddsGates(p)
    PROVE  IInv'
<1>1. TypeOK
  BY DEF IInv
<1>2. /\ UNCHANGED <<version, status, cur, noise, render>>
      /\ status[p] = "pending"
      /\ DOMAIN row' = Pages
      /\ \A q \in Pages : row'[q] \in Seq(Snapshot(q)) /\ Len(row'[q]) = Len(row[q])
                          /\ DOMAIN row'[q] = DOMAIN row[q]
      /\ \A q \in Pages \ {p} : row'[q] = row[q]
  BY GatesEffect
<1>3. \A q \in Pages : \A n \in DOMAIN row[q] :
        /\ SameButGates(row'[q][n], row[q][n])
        /\ \/ row'[q][n].confirmed = row[q][n].confirmed
           \/ row[q][n].confirmed = 0 /\ row'[q][n].confirmed = n
        /\ \/ row'[q][n].reviewed = row[q][n].reviewed
           \/ /\ row[q][n].reviewed = 0 /\ row'[q][n].reviewed = n
              /\ row'[q][n].confirmed # 0 /\ Undecided(row[q][n]) = {}
  BY GatesEffect
<1>4. TypeOK'
  <2>1. \A q \in Pages : cur'[q] \in {0, Len(row'[q])}
    BY <1>1, <1>2 DEF TypeOK
  <2> QED
    BY <1>1, <1>2, <2>1 DEF TypeOK
<1>5. \A q \in Pages : \A n \in DOMAIN row[q] :
        Included(row'[q][n]) = Included(row[q][n]) /\ Undecided(row'[q][n]) = Undecided(row[q][n])
  BY <1>3 DEF SameButGates, Included, Undecided
<1>6. GatesCoverContent'
  <2>1. \A q \in Pages : \A n \in DOMAIN row[q] : Gated(row[q], row[q][n])
    BY GatedIs DEF IInv
  <2>2. ASSUME NEW q \in Pages, NEW n \in DOMAIN row'[q] PROVE Gated(row'[q], row'[q][n])
    <3> DEFINE r == row[q]
               t == row'[q]
    <3>1. DOMAIN t = DOMAIN r /\ n \in DOMAIN r /\ Gated(r, r[n])
      BY <1>2, <2>1, <2>2
    <3>2. \A m \in DOMAIN r : t[m].text = r[m].text /\ t[m].image = r[m].image
      BY <1>3 DEF SameButGates
    <3>3. Undecided(t[n]) = Undecided(r[n])
      BY <1>5, <3>1
    <3>4. /\ t[n].confirmed = r[n].confirmed \/ (r[n].confirmed = 0 /\ t[n].confirmed = n)
          /\ \/ t[n].reviewed = r[n].reviewed
             \/ /\ r[n].reviewed = 0 /\ t[n].reviewed = n
                /\ t[n].confirmed # 0 /\ Undecided(r[n]) = {}
      BY <1>3, <3>1
    <3>5. n # 0
      BY <1>1, <3>1, RowType
    <3> HIDE DEF r, t
    <3>6. t[n].confirmed # 0 => /\ t[n].confirmed \in DOMAIN t
                                /\ t[t[n].confirmed].text = t[n].text
      BY <3>1, <3>2, <3>4 DEF Gated
    <3>7. t[n].reviewed # 0 =>
            /\ t[n].reviewed \in DOMAIN t
            /\ t[t[n].reviewed].text = t[n].text /\ t[t[n].reviewed].image = t[n].image
            /\ t[n].confirmed # 0 /\ Undecided(t[n]) = {}
      BY <3>1, <3>2, <3>3, <3>4, <3>5 DEF Gated
    <3>8. Gated(t, t[n])
      BY <3>6, <3>7 DEF Gated
    <3> QED
      BY <3>8 DEF t
  <2> QED
    BY <2>2, GatedIs
<1>7. ApprovedIsComplete'
  BY <1>2 DEF IInv, ApprovedIsComplete, Current
<1>8. NoLostEdit'
  <2>1. ASSUME NEW q \in Pages, NEW i \in 2 .. Len(row'[q])
        PROVE  /\ i \in 2 .. Len(row[q])
               /\ row'[q][i].version = row[q][i].version /\ row'[q][i].base = row[q][i].base
               /\ row'[q][i - 1].version = row[q][i - 1].version
    <3>1. Len(row[q]) \in Nat /\ DOMAIN row[q] = 1 .. Len(row[q])
      BY <1>1, RowType
    <3>2. i \in DOMAIN row[q] /\ i - 1 \in DOMAIN row[q] /\ i \in 2 .. Len(row[q])
      BY <1>2, <2>1, <3>1
    <3> QED
      BY <1>3, <3>2 DEF SameButGates
  <2> QED
    BY <2>1 DEF IInv, NoLostEdit
<1>9. Rowwise'
  <2>1. ASSUME NEW q \in Pages, NEW n \in DOMAIN row'[q]
        PROVE  Visuals(q, row'[q][n], n) /\ Minted(q, row'[q], row'[q][n], n)
    <3> DEFINE r == row[q]
               t == row'[q]
    <3>1. n \in DOMAIN r /\ Visuals(q, r[n], n) /\ Minted(q, r, r[n], n)
      BY <1>2, <2>1 DEF IInv, Rowwise
    <3>2. \A m \in DOMAIN r : t[m].image = r[m].image /\ t[m].captures = r[m].captures
      BY <1>3 DEF SameButGates
    <3>3. Included(t[n]) = Included(r[n])
      BY <1>5, <3>1
    <3>4. \A m \in 1 .. n : m \in DOMAIN r
      BY <1>1, <3>1, RowType
    <3> HIDE DEF r, t
    <3>5. Visuals(q, t[n], n)
      BY <3>1, <3>2, <3>3 DEF Visuals
    <3>6. Minted(q, t, t[n], n)
      BY <3>1, <3>2, <3>4 DEF Minted
    <3> QED
      BY <3>5, <3>6 DEF t
  <2>2. ASSUME NEW q \in Pages PROVE OneRef(q, row'[q])
    <3> DEFINE r == row[q]
               t == row'[q]
    <3>1. OneRef(q, r) /\ DOMAIN t = DOMAIN r
      BY <1>2 DEF IInv, Rowwise
    <3>2. \A m \in DOMAIN r : t[m].image = r[m].image /\ t[m].version = r[m].version
      BY <1>3 DEF SameButGates
    <3> HIDE DEF r, t
    <3>3. OneRef(q, t)
      BY <3>1, <3>2 DEF OneRef
    <3> QED
      BY <3>3 DEF t
  <2>3. ASSUME NEW q \in Pages PROVE VersionsInOrder(q)'
    <3>1. VersionsInOrder(q)
      BY DEF IInv, Rowwise
    <3>2. cur[q] # 0 => cur[q] \in DOMAIN row[q]
      BY <1>1, RowType DEF TypeOK
    <3>3. /\ DOMAIN row'[q] = DOMAIN row[q] /\ version' = version /\ cur' = cur
          /\ \A n \in DOMAIN row[q] : row'[q][n].version = row[q][n].version
      BY <1>2, <1>3 DEF SameButGates
    <3> QED
      BY <3>1, <3>2, <3>3 DEF VersionsInOrder
  <2> QED
    BY <2>1, <2>2, <2>3 DEF Rowwise
<1> QED
  BY <1>4, <1>6, <1>7, <1>8, <1>9 DEF IInv

\* Approving, excluding and reopening.
LEMMA ReviewKeepsInv ==
    ASSUME IInv, NEW p \in Pages,
           (\E b \in Loaded(p) : Approve(p, b)) \/ Exclude(p) \/ Reopen(p)
    PROVE  IInv'
<1>1. TypeOK
  BY DEF IInv
<1>2. PICK x \in Statuses : SetStatus(p, x)
  BY DEF Approve, Exclude, Reopen, Statuses
<1>3. UNCHANGED <<version, cur, row, noise, render>> /\ status' = [status EXCEPT ![p] = x]
  BY <1>2 DEF SetStatus
<1>4. TypeOK'
  BY <1>1, <1>3 DEF TypeOK, Snapshot, Decision, Capture, Positions
<1>5. ASSUME NEW q \in Pages, status'[q] = "approved"
      PROVE  /\ cur[q] # 0
             /\ Ready(Current(q)) /\ Included(Current(q)) \cap Unusable[q] = {}
  <2>1. CASE status[q] = "approved"
    BY <2>1 DEF IInv, ApprovedIsComplete
  <2>2. CASE status[q] # "approved"
    <3>1. q = p /\ x = "approved"
      BY <1>1, <1>3, <1>5, <2>2 DEF TypeOK
    <3>2. PICK b \in Loaded(p) : Approve(p, b)
      BY <1>1, <1>3, <1>5, <3>1 DEF Exclude, Reopen, SetStatus, TypeOK
    <3>3. b # 0 /\ cur[p] = b /\ Ready(row[p][b])
      BY <3>2 DEF Approve, CurrentPending
    <3>4. Visuals(p, row[p][b], b)
      BY <3>2, <3>3, BaseFacts DEF Approve
    <3> QED
      BY <3>1, <3>3, <3>4 DEF Current, Visuals
  <2> QED
    BY <2>1, <2>2
<1>6. ApprovedIsComplete'
  BY <1>3, <1>5 DEF ApprovedIsComplete, Current
<1>7. GatesCoverContent' /\ NoLostEdit' /\ Rowwise'
  <2>1. row' = row /\ cur' = cur /\ version' = version
    BY <1>3
  <2>2. GatesCoverContent'
    BY <2>1, GatedIs DEF IInv
  <2>3. NoLostEdit'
    BY <2>1 DEF IInv, NoLostEdit
  <2>4. Rowwise'
    BY <2>1 DEF IInv, Rowwise, VersionsInOrder
  <2> QED
    BY <2>2, <2>3, <2>4
<1> QED
  BY <1>4, <1>6, <1>7 DEF IInv

\* Footers and re-renders, which leave snapshots alone.
LEMMA OthersKeepInv ==
    ASSUME IInv, ConfirmNoise \/ RevokeNoise \/ Rerender \/ UNCHANGED vars
    PROVE  IInv'
<1>1. TypeOK
  BY DEF IInv
<1>2. UNCHANGED <<version, status, cur, row>>
  BY DEF ConfirmNoise, RevokeNoise, Rerender, vars
<1>3. noise' \in BOOLEAN /\ render' \in 0 .. MaxRender
  <2>1. noise \in BOOLEAN /\ render \in 0 .. MaxRender /\ MaxRender \in Nat
    BY <1>1, CurationAssumption DEF TypeOK
  <2>2. noise' \in BOOLEAN
    BY <2>1 DEF ConfirmNoise, RevokeNoise, Rerender, vars
  <2>3. render' = render \/ (render < MaxRender /\ render' = render + 1)
    BY DEF ConfirmNoise, RevokeNoise, Rerender, vars
  <2>4. render' \in 0 .. MaxRender
    BY <2>1, <2>3
  <2> QED
    BY <2>2, <2>4
<1>4. TypeOK'
  BY <1>1, <1>2, <1>3 DEF TypeOK
<1>5. GatesCoverContent'
  BY <1>2, GatedIs DEF IInv
<1>6. ApprovedIsComplete' /\ NoLostEdit'
  BY <1>2 DEF IInv, NoLostEdit, ApprovedIsComplete, Current
<1>7. Rowwise'
  BY <1>2 DEF IInv, Rowwise, VersionsInOrder
<1> QED
  BY <1>4, <1>5, <1>6, <1>7 DEF IInv

\* A clone includes, lacks and delivers what the snapshot it was made from does.
LEMMA CloneIs ==
    ASSUME NEW s, NEW r, IsClone(s, r)
    PROVE  /\ Included(s) = Included(r) /\ Undecided(s) = Undecided(r)
           /\ Delivered(s) = Delivered(r)
<1>1. Included(s) = Included(r) /\ Undecided(s) = Undecided(r)
  BY DEF IsClone, Included, Undecided
<1> QED
  BY <1>1 DEF IsClone, Delivered

\* What a new version does to one page.
LEMMA ClonedPage ==
    ASSUME IInv, NEW p \in Pages, NEW s \in Snapshot(p), Grows(p, s),
           version' = version + 1,
           cur[p] \in DOMAIN row[p], row[p][cur[p]] \in Snapshot(p),
           cur[p] = Len(row[p]), cur'[p] = NewRow(p),
           s.version = version + 1 /\ s.base = cur[p] /\ IsClone(s, row[p][cur[p]])
    PROVE  /\ row'[p] \in Seq(Snapshot(p)) /\ cur'[p] = Len(row'[p])
           /\ \A n \in DOMAIN row'[p] : Gated(row'[p], row'[p][n])
           /\ \A n \in DOMAIN row'[p] : Visuals(p, row'[p][n], n)
           /\ \A n \in DOMAIN row'[p] : Minted(p, row'[p], row'[p][n], n)
           /\ OneRef(p, row'[p])
           /\ VersionsInOrder(p)'
           /\ \A i \in 2 .. Len(row'[p]) :
                row'[p][i].version = row'[p][i - 1].version => row'[p][i].base = i - 1
           /\ row'[p][cur'[p]] = s
           /\ cur[p] # 0
<1>1. TypeOK /\ version \in Nat
  BY CurationAssumption DEF IInv, TypeOK
<1> DEFINE r == row[p]
           t == row'[p]
           k == NewRow(p)
           b == cur[p]
<1>2. /\ k \in Nat \ {0} /\ Len(r) = k - 1 /\ DOMAIN r = 1 .. k - 1
      /\ Len(t) = k /\ DOMAIN t = 1 .. k /\ t[k] = s /\ \A n \in 1 .. k - 1 : t[n] = r[n]
      /\ t \in Seq(Snapshot(p)) /\ b = k - 1 /\ b \in 1 .. k - 1 /\ b # 0
  BY <1>1, RowType DEF Grows, NewRow
<1>3. /\ s.version = version + 1 /\ s.base = b
      /\ s.text = r[b].text /\ s.confirmed = r[b].confirmed /\ s.reviewed = r[b].reviewed
      /\ s.image = r[b].image /\ s.captures = r[b].captures
      /\ Included(s) = Included(r[b]) /\ Undecided(s) = Undecided(r[b])
  BY CloneIs DEF IsClone
<1>4. /\ Visuals(p, r[b], b) /\ Minted(p, r, r[b], b) /\ Gated(r, r[b])
      /\ VersionsInOrder(p) /\ OneRef(p, r)
  BY GatedIs DEF IInv, Rowwise
<1>5. \A n \in DOMAIN t : Gated(t, t[n])
  <2>1. GateOfBase(p, cur[p], s)
    BY <1>2, <1>3, <1>4 DEF Gated, GateOfBase
  <2>2. \A n \in DOMAIN row[p] : Gated(row[p], row[p][n])
    BY GatedIs DEF IInv
  <2> QED
    BY <1>1, <2>1, <2>2, GatesGrow
<1>6. \A n \in DOMAIN t : Visuals(p, t[n], n)
  <2>1. ImageCount[p] \in Nat
    BY CurationAssumption
  <2>2. Visuals(p, s, NewRow(p))
    BY <1>2, <1>3, <1>4, <2>1 DEF Visuals
  <2> QED
    BY <1>1, <2>2, VisualsGrow DEF IInv, Rowwise
<1>7. \A n \in DOMAIN t : Minted(p, t, t[n], n)
  <2>1. \A n \in DOMAIN row[p] : Minted(p, row[p], row[p][n], n)
    BY DEF IInv, Rowwise
  <2>2. \A i \in Positions(p) : \E m \in DOMAIN row[p] : row[p][m].image[i].ref = s.image[i].ref
    BY <1>3
  <2>3. \A c \in s.captures : \E m \in DOMAIN row[p] : \E d \in row[p][m].captures : d.ref = c.ref
    BY <1>3
  <2>4. \A i \in Positions(p) : s.image[i].ref # NewRow(p)
    <3>1. \A i \in Positions(p) : s.image[i].ref = 0 \/ s.image[i].ref \in 1 .. b
      BY <1>3, <1>4 DEF Minted
    <3> HIDE DEF b
    <3> QED
      BY <1>2, <3>1
  <2> QED
    BY <1>1, <2>1, <2>2, <2>3, <2>4, MintedGrows
<1>8. \A n \in 1 .. k - 1 : r[n].version \in Nat /\ r[n].version <= version
  <2>1. \A n \in 1 .. k - 1 : r[n] \in Snapshot(p)
    BY <1>1, <1>2, RowType
  <2> QED
    BY <1>2, <1>4, <2>1 DEF VersionsInOrder, Snapshot
<1>9. ASSUME NEW n \in 1 .. k - 1 PROVE t[n] = r[n] /\ t[n].version # s.version
  <2>1. t[n] = r[n] /\ s.version = version + 1
    BY <1>2, <1>3
  <2>2. r[n].version \in Nat /\ r[n].version <= version /\ version \in Nat
    BY <1>1, <1>8
  <2>3. r[n].version # version + 1
    BY <2>2
  <2> QED
    BY <2>1, <2>3
<1>10. OneRef(p, t)
  <2>1. OneRef(p, r) /\ DOMAIN r = 1 .. k - 1 /\ DOMAIN t = 1 .. k /\ t[k] = s
    BY <1>2, <1>4
  <2>2. \A n \in 1 .. k : n = k \/ n \in 1 .. k - 1
    BY <1>2
  <2> HIDE DEF r, t, k, b
  <2>3. \A m, n \in 1 .. k - 1 : \A i \in Positions(p) :
          /\ t[m].version = t[n].version
          /\ t[m].image[i].ref # 0 /\ t[n].image[i].ref # 0
          => t[m].image[i].ref = t[n].image[i].ref
    BY <1>9, <2>1 DEF OneRef
  <2>4. ASSUME NEW m \in 1 .. k, NEW n \in 1 .. k, NEW i \in Positions(p),
               t[m].version = t[n].version,
               t[m].image[i].ref # 0, t[n].image[i].ref # 0
        PROVE  t[m].image[i].ref = t[n].image[i].ref
    <3>1. CASE m = k /\ n = k
      BY <3>1
    <3>2. CASE m = k /\ n # k
      BY <1>9, <2>1, <2>2, <2>4, <3>2
    <3>3. CASE m # k /\ n = k
      BY <1>9, <2>1, <2>2, <2>4, <3>3
    <3>4. CASE m # k /\ n # k
      BY <2>2, <2>3, <2>4, <3>4
    <3> QED
      BY <3>1, <3>2, <3>3, <3>4
  <2> QED
    BY <2>1, <2>4 DEF OneRef
<1>11. VersionsInOrder(p)'
  <2>2. \A n \in 1 .. k - 1 : t[n].version <= version + 1
    BY <1>1, <1>8, <1>9
  <2>3. t[k].version <= version + 1
    BY <1>1, <1>2, <1>3
  <2>4. \A n \in 1 .. k : n = k \/ n \in 1 .. k - 1
    BY <1>2
  <2>1. \A n \in 1 .. k : t[n].version <= version + 1
    BY <2>2, <2>3, <2>4
  <2> QED
    BY <1>2, <1>3, <2>1 DEF VersionsInOrder
<1>12. ASSUME NEW i \in 2 .. Len(t), t[i].version = t[i - 1].version
       PROVE  t[i].base = i - 1
  <2>1. CASE i = k
    BY <1>2, <1>3, <2>1
  <2>2. CASE i # k
    <3>1. i \in 2 .. k - 1 /\ t[i] = r[i] /\ t[i - 1] = r[i - 1]
      <4> HIDE DEF r, t, k, b
      <4>1. i \in 2 .. k
        BY <1>2
      <4>2. i \in 1 .. k - 1 /\ i - 1 \in 1 .. k - 1
        BY <1>2, <2>2, <4>1
      <4> QED
        BY <1>2, <4>1, <4>2
    <3> QED
      BY <1>2, <1>12, <3>1 DEF IInv, NoLostEdit
  <2> QED
    BY <2>1, <2>2
<1> QED
  BY <1>2, <1>5, <1>6, <1>7, <1>10, <1>11, <1>12

\* A new version.
LEMMA VersionKeepsInv ==
    ASSUME IInv, NEW kept \in SUBSET Pages, ActivateVersion(kept)
    PROVE  IInv'
<1>1. TypeOK /\ version \in Nat
  BY CurationAssumption DEF IInv, TypeOK
<1>2. /\ version' = version + 1 /\ version' \in 1 .. MaxVersion
      /\ UNCHANGED render /\ noise' = FALSE
      /\ DOMAIN row' = Pages
      /\ status' \in [Pages -> Statuses] /\ cur' \in [Pages -> Nat]
      /\ \A p \in Pages : status'[p] = "pending" \/ (status'[p] = status[p] /\ p \in kept)
  BY VersionEffect
<1>3. ASSUME NEW p \in Pages
      PROVE  /\ row'[p] \in Seq(Snapshot(p)) /\ cur'[p] \in {0, Len(row'[p])}
             /\ \A n \in DOMAIN row'[p] : Gated(row'[p], row'[p][n])
             /\ \A n \in DOMAIN row'[p] :
                    Visuals(p, row'[p][n], n) /\ Minted(p, row'[p], row'[p][n], n)
             /\ OneRef(p, row'[p])
             /\ VersionsInOrder(p)'
             /\ \A i \in 2 .. Len(row'[p]) :
                    row'[p][i].version = row'[p][i - 1].version => row'[p][i].base = i - 1
             /\ status'[p] = "approved" =>
                    /\ cur'[p] # 0 /\ Ready(row'[p][cur'[p]])
                    /\ Included(row'[p][cur'[p]]) \cap Unusable[p] = {}
  <2>1. CASE /\ row'[p] = row[p] /\ cur'[p] = 0
             /\ status'[p] = "pending" \/ cur[p] = 0
    <3>1. status'[p] # "approved"
      BY <1>2, <2>1 DEF IInv, ApprovedIsComplete
    <3>2. VersionsInOrder(p)'
      <4>1. \A n \in DOMAIN row[p] : row[p][n].version \in Nat /\ row[p][n].version <= version
        BY <1>1, RowType DEF IInv, Rowwise, VersionsInOrder, Snapshot
      <4>2. \A n \in DOMAIN row[p] : row[p][n].version <= version + 1
                                     /\ row[p][n].version # version + 1
        BY <1>1, <4>1
      <4> QED
        BY <1>2, <2>1, <4>2 DEF VersionsInOrder
    <3>3. row[p] \in Seq(Snapshot(p))
      BY <1>1, RowType
    <3> QED
      BY <2>1, <3>1, <3>2, <3>3, GatedIs DEF IInv, NoLostEdit, Rowwise
  <2>2. ASSUME NEW s \in Snapshot(p),
               /\ Grows(p, s)
               /\ cur[p] \in DOMAIN row[p] /\ row[p][cur[p]] \in Snapshot(p)
               /\ cur[p] = Len(row[p]) /\ cur'[p] = NewRow(p)
               /\ s.version = version + 1 /\ s.base = cur[p] /\ IsClone(s, row[p][cur[p]])
        PROVE  /\ row'[p] \in Seq(Snapshot(p)) /\ cur'[p] \in {0, Len(row'[p])}
               /\ \A n \in DOMAIN row'[p] : Gated(row'[p], row'[p][n])
               /\ \A n \in DOMAIN row'[p] :
                      Visuals(p, row'[p][n], n) /\ Minted(p, row'[p], row'[p][n], n)
               /\ OneRef(p, row'[p])
               /\ VersionsInOrder(p)'
               /\ \A i \in 2 .. Len(row'[p]) :
                      row'[p][i].version = row'[p][i - 1].version => row'[p][i].base = i - 1
               /\ status'[p] = "approved" =>
                      /\ cur'[p] # 0 /\ Ready(row'[p][cur'[p]])
                      /\ Included(row'[p][cur'[p]]) \cap Unusable[p] = {}
    <3>1. /\ Grows(p, s) /\ version' = version + 1
          /\ cur[p] \in DOMAIN row[p] /\ row[p][cur[p]] \in Snapshot(p)
          /\ cur[p] = Len(row[p]) /\ cur'[p] = NewRow(p)
          /\ s.version = version + 1 /\ s.base = cur[p] /\ IsClone(s, row[p][cur[p]])
      BY <1>2, <2>2
    <3>2. /\ row'[p] \in Seq(Snapshot(p)) /\ cur'[p] = Len(row'[p])
          /\ \A n \in DOMAIN row'[p] : Gated(row'[p], row'[p][n])
          /\ \A n \in DOMAIN row'[p] : Visuals(p, row'[p][n], n)
          /\ \A n \in DOMAIN row'[p] : Minted(p, row'[p], row'[p][n], n)
          /\ OneRef(p, row'[p])
          /\ VersionsInOrder(p)'
          /\ \A i \in 2 .. Len(row'[p]) :
                row'[p][i].version = row'[p][i - 1].version => row'[p][i].base = i - 1
          /\ row'[p][cur'[p]] = s
      BY <3>1, ClonedPage
    <3>3. ASSUME status'[p] = "approved"
          PROVE  cur'[p] # 0 /\ Ready(s) /\ Included(s) \cap Unusable[p] = {}
      <4>1. status[p] = "approved"
        BY <1>2, <3>3
      <4> DEFINE r == row[p][cur[p]]
      <4>2. Ready(r) /\ Included(r) \cap Unusable[p] = {}
        BY <4>1 DEF IInv, ApprovedIsComplete, Current
      <4>4. /\ s.confirmed = r.confirmed /\ s.reviewed = r.reviewed /\ s.gap = r.gap
            /\ Included(s) = Included(r) /\ Undecided(s) = Undecided(r)
        BY <3>1, CloneIs DEF IsClone
      <4>5. NewRow(p) # 0
        BY <1>1, RowType
      <4> QED
        BY <3>1, <4>2, <4>4, <4>5 DEF Ready
    <3> QED
      BY <3>2, <3>3
  <2> QED
    BY <2>1, <2>2, VersionEffect
<1>4. TypeOK'
  <2>1. noise' \in BOOLEAN /\ render' \in 0 .. MaxRender
    BY <1>1, <1>2 DEF TypeOK
  <2> QED
    BY <1>2, <1>3, <2>1 DEF TypeOK
<1>5. GatesCoverContent'
  BY <1>3, GatedIs
<1>6. ApprovedIsComplete'
  BY <1>3 DEF ApprovedIsComplete, Current
<1>7. NoLostEdit'
  BY <1>3 DEF NoLostEdit
<1>8. Rowwise'
  BY <1>3 DEF Rowwise
<1> QED
  BY <1>4, <1>5, <1>6, <1>7, <1>8 DEF IInv

\* The invariant holds initially and every step keeps it.
THEOREM Inductive == Spec => []IInv
<1>1. Init => IInv
  <2> SUFFICES ASSUME Init PROVE IInv
    OBVIOUS
  <2>1. \A p \in Pages : row[p] = <<>> /\ cur[p] = 0 /\ status[p] = "pending"
    BY DEF Init
  <2>2. TypeOK
    <3>1. 1 \in 1 .. MaxVersion /\ 0 \in 0 .. MaxRender
      BY CurationAssumption
    <3>2. ASSUME NEW p \in Pages PROVE row[p] \in Seq(Snapshot(p)) /\ cur[p] \in {0, Len(row[p])}
      <4>1. \A S : <<>> \in Seq(S)
        OBVIOUS
      <4> QED
        BY <2>1, <4>1
    <3>3. /\ version = 1 /\ render = 0 /\ noise \in BOOLEAN /\ DOMAIN row = Pages
          /\ status \in [Pages -> Statuses] /\ cur \in [Pages -> Nat]
      BY DEF Init, Statuses
    <3> QED
      BY <3>1, <3>2, <3>3 DEF TypeOK
  <2>3. \A p \in Pages : DOMAIN row[p] = {} /\ Len(row[p]) = 0
    BY <2>1
  <2>4. GatesCoverContent /\ ApprovedIsComplete
    BY <2>1, <2>3 DEF GatesCoverContent, ApprovedIsComplete
  <2>5. NoLostEdit
    BY <2>3 DEF NoLostEdit
  <2>6. Rowwise
    BY <2>1, <2>3 DEF Rowwise, OneRef, VersionsInOrder
  <2> QED
    BY <2>2, <2>4, <2>5, <2>6 DEF IInv
<1>2. IInv /\ [Next]_vars => IInv'
  <2> SUFFICES ASSUME IInv, [Next]_vars PROVE IInv'
    OBVIOUS
  <2>1. CASE Next
    BY <2>1, StepShape, SnapshotKeepsInv, GatesKeepInv, ReviewKeepsInv, OthersKeepInv,
       VersionKeepsInv
  <2>2. CASE UNCHANGED vars
    BY <2>2, OthersKeepInv
  <2> QED
    BY <2>1, <2>2
<1> QED
  BY <1>1, <1>2, PTL DEF Spec

-----------------------------------------------------------------------------
(* The invariants. *)

\* Every variable keeps its type, and the current snapshot of a page is its newest.
THEOREM TypeCorrect == Spec => []TypeOK
<1>1. IInv => TypeOK
  BY DEF IInv
<1> QED
  BY <1>1, Inductive, PTL

\* Gate records are about what they were given for, through any number of edits and
\* versions.
THEOREM GatesCover == Spec => []GatesCoverContent
<1>1. IInv => GatesCoverContent
  BY DEF IInv
<1> QED
  BY <1>1, Inductive, PTL

\* An approved page passes every gate and can be delivered.
THEOREM ApprovedComplete == Spec => []ApprovedIsComplete
<1>1. IInv => ApprovedIsComplete
  BY DEF IInv
<1> QED
  BY <1>1, Inductive, PTL

\* No editor's saved snapshot is passed over by another's.
THEOREM NoEditLost == Spec => []NoLostEdit
<1>1. IInv => NoLostEdit
  BY DEF IInv
<1> QED
  BY <1>1, Inductive, PTL

\* Positions and visual_refs never clash, however many images, captures and versions.
THEOREM VisualsDistinct == Spec => []VisualsAreDistinct
<1>1. IInv => VisualsAreDistinct
  <2> SUFFICES ASSUME IInv, NEW p \in Pages
               PROVE  /\ \A n \in DOMAIN row[p] : DistinctPositions(row[p][n])
                      /\ \A m, n \in DOMAIN row[p] : StableRefs(p, m, n)
    BY DEF VisualsAreDistinct
  <2> DEFINE r == row[p]
  <2>1. /\ \A n \in DOMAIN r : n \in Nat \ {0} /\ Visuals(p, r[n], n) /\ Minted(p, r, r[n], n)
        /\ OneRef(p, r)
        /\ \A n \in DOMAIN r : \A m \in 1 .. n : m \in DOMAIN r
    BY RowType DEF IInv, Rowwise
  <2>2. \A n \in DOMAIN r : DOMAIN r[n].image = Positions(p)
    BY RowType DEF IInv, Snapshot
  <2>3. ASSUME NEW n \in DOMAIN r PROVE DistinctPositions(r[n])
    <3>1. \A i \in Positions(p) : i < ImageCount[p] /\ i \in Int
      BY CurationAssumption DEF Positions
    <3>2. \A c \in r[n].captures : c.position \in Int /\ c.position >= ImageCount[p]
      BY <2>1, CurationAssumption DEF Visuals
    <3>3. \A c \in r[n].captures : c.position \notin Positions(p)
      BY <3>1, <3>2, CurationAssumption
    <3>4. Included(r[n]) \subseteq Positions(p)
      BY <2>2 DEF Included
    <3> QED
      BY <2>1, <3>3, <3>4 DEF DistinctPositions, CapturePositions, Visuals
  <2>4. ASSUME NEW m \in DOMAIN r, NEW n \in DOMAIN r PROVE StableRefs(p, m, n)
    <3> DEFINE s == r[m]
               t == r[n]
    <3>1. /\ Included(s) \subseteq Positions(p) /\ Included(t) \subseteq Positions(p)
          /\ \A i \in Included(s) : s.image[i].ref # 0
          /\ \A i \in Included(t) : t.image[i].ref # 0
      BY <2>1, <2>2 DEF Included, Visuals
    <3>2. ASSUME NEW i \in Included(s)
          PROVE  LET k == s.image[i].ref IN
                 k \in DOMAIN r /\ r[k].image[i].ref = k
      BY <2>1, <3>1 DEF Minted
    <3>3. ASSUME NEW j \in Included(t)
          PROVE  LET k == t.image[j].ref IN
                 k \in DOMAIN r /\ r[k].image[j].ref = k
      BY <2>1, <3>1 DEF Minted
    <3>4. ASSUME NEW c \in t.captures
          PROVE  c.ref \in DOMAIN r /\ \E d \in r[c.ref].captures : d.ref = c.ref
      BY <2>1 DEF Minted
    <3>5. \A k \in DOMAIN r : \A i, j \in Positions(p) :
            r[k].image[i].ref = k /\ r[k].image[j].ref = k => i = j
      BY <2>1 DEF Minted
    <3>6. \A k \in DOMAIN r : \A i \in Positions(p) : \A d \in r[k].captures :
            ~ (r[k].image[i].ref = k /\ d.ref = k)
      BY <2>1 DEF Minted
    <3>7. s.version = t.version =>
            \A i \in Included(s) \cap Included(t) : s.image[i].ref = t.image[i].ref
      BY <2>1, <3>1 DEF OneRef
    <3> HIDE DEF r
    <3>8. ASSUME NEW i \in Included(s), NEW j \in Included(t), i # j
          PROVE  s.image[i].ref # t.image[j].ref
      BY <3>1, <3>2, <3>3, <3>5, <3>8
    <3>9. ASSUME NEW i \in Included(s), NEW c \in t.captures PROVE s.image[i].ref # c.ref
      BY <3>1, <3>2, <3>4, <3>6
    <3>10. /\ \A i \in Included(r[m]), j \in Included(r[n]) :
                IF i = j THEN r[m].version = r[n].version => r[m].image[i].ref = r[n].image[j].ref
                         ELSE r[m].image[i].ref # r[n].image[j].ref
           /\ \A i \in Included(r[m]), c \in r[n].captures : r[m].image[i].ref # c.ref
      BY <3>7, <3>8, <3>9
    <3> QED
      BY <3>10 DEF StableRefs, r
  <2> QED
    BY <2>3, <2>4
<1> QED
  BY <1>1, Inductive, PTL

-----------------------------------------------------------------------------
(* Steps. *)

\* What a snapshot delivers depends on text, images and captures only.
LEMMA DeliveredIs ==
    ASSUME NEW s, NEW t, s.text = t.text, s.image = t.image, s.captures = t.captures
    PROVE  Delivered(s) = Delivered(t)
<1>1. Included(s) = Included(t)
  BY DEF Included
<1> QED
  BY <1>1 DEF Delivered

\* What is saved is not changed: a token that names a snapshot names its content.
Frozen ==
    \A p \in Pages : \A i \in DOMAIN row[p] :
        /\ i \in DOMAIN row'[p]
        /\ Delivered(row'[p][i]) = Delivered(row[p][i])
        /\ row[p][i].confirmed # 0 => row'[p][i].confirmed = row[p][i].confirmed
        /\ row[p][i].reviewed # 0 => row'[p][i].reviewed = row[p][i].reviewed

\* No step changes what is saved.
LEMMA StepsAreFrozen == IInv /\ Next => Frozen
<1> SUFFICES ASSUME IInv, Next PROVE Frozen
  OBVIOUS
<1>1. ASSUME NEW p \in Pages, AddsSnapshot(p) PROVE Frozen
  <2>1. PICK s \in Snapshot(p) : Grows(p, s) /\ \A q \in Pages \ {p} : row'[q] = row[q]
    BY <1>1, SnapshotEffect
  <2> QED
    BY <2>1 DEF Grows, Frozen
<1>2. ASSUME NEW p \in Pages, AddsGates(p) PROVE Frozen
  <2>1. ASSUME NEW q \in Pages, NEW n \in DOMAIN row[q]
        PROVE  /\ n \in DOMAIN row'[q] /\ Delivered(row'[q][n]) = Delivered(row[q][n])
               /\ row[q][n].confirmed # 0 => row'[q][n].confirmed = row[q][n].confirmed
               /\ row[q][n].reviewed # 0 => row'[q][n].reviewed = row[q][n].reviewed
    <3>1. /\ DOMAIN row'[q] = DOMAIN row[q]
          /\ SameButGates(row'[q][n], row[q][n])
          /\ \/ row'[q][n].confirmed = row[q][n].confirmed
             \/ row[q][n].confirmed = 0
          /\ row'[q][n].reviewed = row[q][n].reviewed \/ row[q][n].reviewed = 0
      BY <1>2, GatesEffect
    <3> QED
      BY <3>1, DeliveredIs DEF SameButGates
  <2> QED
    BY <2>1 DEF Frozen
<1>3. ASSUME NEW kept \in SUBSET Pages, ActivateVersion(kept) PROVE Frozen
  <2>1. \A p \in Pages : row'[p] = row[p] \/ \E s \in Snapshot(p) : Grows(p, s)
    BY <1>3, VersionEffect
  <2> QED
    BY <2>1 DEF Grows, Frozen
<1>4. CASE UNCHANGED row
  BY <1>4 DEF Frozen
<1>5. ASSUME NEW p \in Pages,
             (\E b \in Loaded(p) : Approve(p, b)) \/ Exclude(p) \/ Reopen(p)
      PROVE  UNCHANGED row
  BY <1>5 DEF Approve, Exclude, Reopen, SetStatus
<1>6. ConfirmNoise \/ RevokeNoise \/ Rerender => UNCHANGED row
  BY DEF ConfirmNoise, RevokeNoise, Rerender
<1> QED
  BY <1>1, <1>2, <1>3, <1>4, <1>5, <1>6, StepShape

\* What a candidate's token names stays as it was when the token was made.
THEOREM SnapshotsFrozen == Spec => SnapshotsAreFrozen
<1>1. IInv /\ [Next]_vars => [Frozen]_vars
  BY StepsAreFrozen
<1>2. Spec => [][Frozen]_vars
  BY <1>1, Inductive, PTL DEF Spec
<1>3. [][Frozen]_vars => SnapshotsAreFrozen
  BY PTL DEF SnapshotsAreFrozen, Frozen
<1> QED
  BY <1>2, <1>3, PTL

-----------------------------------------------------------------------------
(* The curation of a document implements PageReview. *)

\* What a page delivers, before and after a step.
LEMMA ContentIs ==
    ASSUME NEW p \in Pages
    PROVE  /\ [q \in Pages |-> Content(q)][p] =
                (IF cur[p] = 0 THEN {} ELSE {Delivered(row[p][cur[p]])})
           /\ [q \in Pages |-> Content(q)]'[p] =
                (IF cur'[p] = 0 THEN {} ELSE {Delivered(row'[p][cur'[p]])})
  BY DEF Content, Current

\* An edit of one page.
LEMMA SnapshotImplements ==
    ASSUME IInv, NEW p \in Pages, AddsSnapshot(p)
    PROVE  Abstract!Edit(p)
<1>1. /\ status[p] = "pending" /\ UNCHANGED <<version, status>>
      /\ \A q \in Pages \ {p} : row'[q] = row[q]
      /\ cur' = [cur EXCEPT ![p] = NewRow(p)]
  BY SnapshotEffect
<1>2. \A q \in Pages \ {p} : cur'[q] = cur[q]
  BY <1>1 DEF IInv, TypeOK
<1>3. \A q \in Pages \ {p} :
        [x \in Pages |-> Content(x)]'[q] = [x \in Pages |-> Content(x)][q]
  BY <1>1, <1>2, ContentIs
<1> QED
  BY <1>1, <1>3 DEF Abstract!Edit

\* Nothing that is delivered.
LEMMA GatesImplement ==
    ASSUME IInv, NEW p \in Pages, AddsGates(p)
    PROVE  UNCHANGED Abstract!vars
<1>1. UNCHANGED <<version, status, cur>>
  BY GatesEffect
<1>2. ASSUME NEW q \in Pages PROVE Content(q)' = Content(q)
  <2>1. cur[q] # 0 => cur[q] \in DOMAIN row[q]
    BY RowType DEF IInv, TypeOK
  <2>2. cur[q] # 0 => SameButGates(row'[q][cur[q]], row[q][cur[q]])
    BY <2>1, GatesEffect
  <2>3. cur[q] # 0 => Delivered(row'[q][cur[q]]) = Delivered(row[q][cur[q]])
    BY <2>2, DeliveredIs DEF SameButGates
  <2> QED
    BY <1>1, <2>3 DEF Content, Current
<1>3. [q \in Pages |-> Content(q)]' = [q \in Pages |-> Content(q)]
  BY <1>2
<1> QED
  BY <1>1, <1>3 DEF Abstract!vars

\* Approving, excluding and reopening.
LEMMA ReviewImplements ==
    ASSUME IInv, NEW p \in Pages,
           (\E b \in Loaded(p) : Approve(p, b)) \/ Exclude(p) \/ Reopen(p)
    PROVE  Abstract!Approve(p) \/ Abstract!Exclude(p) \/ Abstract!Reopen(p)
<1>1. UNCHANGED <<version, cur, row>>
  BY DEF Approve, Exclude, Reopen, SetStatus
<1>2. UNCHANGED [q \in Pages |-> Content(q)]
  BY <1>1 DEF Content, Current
<1> QED
  BY <1>1, <1>2 DEF Approve, Exclude, Reopen, SetStatus, CurrentPending,
     Abstract!Approve, Abstract!Exclude, Abstract!Reopen

\* Nothing that pages show.
LEMMA OthersImplement ==
    ASSUME ConfirmNoise \/ RevokeNoise \/ Rerender \/ UNCHANGED vars
    PROVE  UNCHANGED Abstract!vars
<1>1. UNCHANGED <<version, status, cur, row>>
  BY DEF ConfirmNoise, RevokeNoise, Rerender, vars
<1>2. UNCHANGED [q \in Pages |-> Content(q)]
  BY <1>1 DEF Content, Current
<1> QED
  BY <1>1, <1>2 DEF Abstract!vars

\* A review is inherited with what was reviewed.
LEMMA VersionImplements ==
    ASSUME IInv, NEW kept \in SUBSET Pages, ActivateVersion(kept)
    PROVE  Abstract!NewVersion
<1>1. /\ version' = version + 1 /\ status' \in [Pages -> Statuses]
      /\ \A p \in Pages : status'[p] = "pending" \/ status'[p] = status[p]
  BY VersionEffect
<1>2. ASSUME NEW p \in Pages, status'[p] # "pending"
      PROVE  [q \in Pages |-> Content(q)]'[p] = [q \in Pages |-> Content(q)][p]
  <2>1. CASE row'[p] = row[p] /\ cur'[p] = 0 /\ cur[p] = 0
    BY <2>1, ContentIs
  <2>2. ASSUME NEW s \in Snapshot(p),
               /\ Grows(p, s)
               /\ cur[p] \in DOMAIN row[p]
               /\ cur'[p] = NewRow(p)
               /\ IsClone(s, row[p][cur[p]])
        PROVE  [q \in Pages |-> Content(q)]'[p] = [q \in Pages |-> Content(q)][p]
    <3>1. row'[p][cur'[p]] = s /\ Delivered(s) = Delivered(row[p][cur[p]])
      BY <2>2, CloneIs DEF Grows
    <3>2. cur[p] # 0 /\ cur'[p] # 0
      BY <2>2, RowType DEF IInv
    <3> QED
      BY <3>1, <3>2, ContentIs
  <2> QED
    BY <1>2, <2>1, <2>2, VersionEffect
<1> QED
  BY <1>1, <1>2 DEF Abstract!NewVersion, Abstract!Statuses, Statuses

\* Editors, versions and renders do to pages what ADR-0004 allows.  Repeated footers are
\* left aside: they are not part of what is compared, and the confirmation of one changes
\* what approved pages deliver.
THEOREM Refinement == Spec => ImplementsPageReview
<1>1. Init => Abstract!Init
  BY DEF Init, Abstract!Init
<1>2. IInv /\ [Next]_vars => [Abstract!Next]_(Abstract!vars)
  <2> SUFFICES ASSUME IInv, [Next]_vars PROVE [Abstract!Next]_(Abstract!vars)
    OBVIOUS
  <2>1. CASE Next
    BY <2>1, StepShape, SnapshotImplements, GatesImplement, ReviewImplements,
       OthersImplement, VersionImplements DEF Abstract!Next
  <2>2. CASE UNCHANGED vars
    BY <2>2, OthersImplement
  <2> QED
    BY <2>1, <2>2
<1> QED
  BY <1>1, <1>2, Inductive, PTL DEF Spec, ImplementsPageReview, Abstract!Spec

=============================================================================
