------------------------------ MODULE Curation ------------------------------
(***************************************************************************)
(* Curation of the pages of one document by several editors (curation.py,  *)
(* repeated_footer_noise.py): formal snapshots of a page version, the gate *)
(* records that hang on them, decisions on source images, captures, page   *)
(* review, repeated footers, and what a new version inherits               *)
(* (_clone_curation_snapshot).  An action is one transaction.  An editor's *)
(* session is the snapshot it loaded, which may be any that ever existed:  *)
(* commands take that snapshot as their base.                              *)
(***************************************************************************)
EXTENDS Integers, Sequences, FiniteSetsExt

CONSTANTS
    Pages,          \* pages of the document
    ImageCount,     \* page -> number of its source images, at positions 0, 1, ...
    Unusable,       \* page -> positions whose bytes are missing, corrupt or no image
    Texts,          \* contents of the title and body blocks
    FooterOnly,     \* those with nothing outside the body block of the shared footer
    MaxRows,        \* bound on the snapshots of all pages
    MaxVersion,     \* bound on the versions of the document
    MaxRender       \* bound on re-renders of the version

Positions(p) == 0 .. ImageCount[p] - 1

ASSUME CurationAssumption ==
    /\ ImageCount \in [Pages -> Nat]
    /\ IsFiniteSet(Pages)
    /\ Unusable \in [Pages -> SUBSET Nat]
    /\ FooterOnly \subseteq Texts
    /\ MaxRows \in Nat
    /\ MaxVersion \in Nat \ {0}
    /\ MaxRender \in Nat

VARIABLES
    version,    \* documents.current_version_id
    status,     \* page -> review_status of its current page version
    cur,        \* page -> current_snapshot_id, 0 is NULL
    row,        \* page -> snapshot rows in the order they were inserted
    noise,      \* the footer of the current version is confirmed to be noise
    render      \* render_sha256 of the current page versions

vars == <<version, status, cur, row, noise, render>>

(***************************************************************************)
(* Snapshots.  A gate record names the row it was given on (actor and time *)
(* are copied along with it), a visual_ref the row it was created in.      *)
(***************************************************************************)
Statuses == {"pending", "approved", "excluded"}
Decision ==
    [disposition : {"open", "included", "ignored"},
     at : Nat,      \* row of the decision, which stands for its summary or reason
     ref : Nat]     \* visual_ref of an included image
Capture ==
    [ref : Nat, position : Nat,
     crop : Nat]    \* the render it was cut out of
Snapshot(p) ==
    [version : Nat,                     \* page_version_id
     base : Nat,                        \* source_snapshot_id
     text : Texts,                      \* titles and body
     confirmed : Nat, reviewed : Nat,   \* gate records
     gap : BOOLEAN,                     \* capture_required
     image : [Positions(p) -> Decision],
     captures : SUBSET Capture]

Open == [disposition |-> "open", at |-> 0, ref |-> 0]

Init ==
    /\ version = 1
    /\ status = [p \in Pages |-> "pending"]
    /\ cur = [p \in Pages |-> 0]
    /\ row = [p \in Pages |-> <<>>]
    /\ noise = FALSE
    /\ render = 0

Undecided(s) == {i \in DOMAIN s.image : s.image[i].disposition = "open"}
Included(s) == {i \in DOMAIN s.image : s.image[i].disposition = "included"}

(***************************************************************************)
(* Guards every command shares.                                            *)
(***************************************************************************)
Loaded(p) == 0 .. Len(row[p])   \* what an editor of page p may have loaded

\* _assert_current_pending_snapshot.  Mutants: only the status is checked, only the
\* snapshot is.
PendingOnly(p, b) == status[p] = "pending"
CurrentOnly(p, b) == cur[p] = b
CurrentPending(p, b) == status[p] = "pending" /\ cur[p] = b

Rows == FoldFunctionOnSet(+, 0, [p \in Pages |-> Len(row[p])], Pages)
HasRoom(n) == Rows + n <= MaxRows

\* The row an INSERT adds.  Mutant: the newest one there was.
NewestRow(p) == Len(row[p])
NewRow(p) == Len(row[p]) + 1

\* The INSERT of a snapshot derived from row b, or from nothing, and the UPDATE
\* that makes it the current one.
Derive(p, b, s) ==
    /\ HasRoom(1)
    /\ row' = [row EXCEPT ![p] = Append(@, [s EXCEPT !.version = version, !.base = b])]
    /\ cur' = [cur EXCEPT ![p] = NewRow(p)]
    /\ UNCHANGED <<version, status, noise, render>>

(***************************************************************************)
(* Text.                                                                   *)
(***************************************************************************)
\* A first snapshot has nothing to copy.  A new text takes over images, captures and
\* the gap of its base, and none of its gate records.  Mutant: it keeps them.
FirstSnapshot(p, t) ==
    [version |-> version, base |-> 0, text |-> t, confirmed |-> 0, reviewed |-> 0,
     gap |-> FALSE, image |-> [i \in Positions(p) |-> Open], captures |-> {}]
RewordedConfirmed(p, b, t) ==
    IF b = 0 THEN FirstSnapshot(p, t) ELSE [row[p][b] EXCEPT !.text = t]
Reworded(p, b, t) ==
    IF b = 0 THEN FirstSnapshot(p, t)
             ELSE [row[p][b] EXCEPT !.text = t, !.confirmed = 0, !.reviewed = 0]

\* save_source_snapshot: a new snapshot even if the text is the same.
SaveSource(p, b, t) ==
    /\ CurrentPending(p, b)
    /\ Derive(p, b, Reworded(p, b, t))

\* The gate records review_source_text adds to row n: the confirmation, and the
\* review unless images are undecided.
WithGates(s, n) ==
    [s EXCEPT !.confirmed = IF @ = 0 THEN n ELSE @,
              !.reviewed = IF @ = 0 /\ Undecided(s) = {} THEN n ELSE @]

\* review_source_text, when the text is that of the current snapshot.
ReviewSameText(p, b, t) ==
    /\ CurrentPending(p, b)
    /\ b # 0 /\ row[p][b].text = t
    /\ row' = [row EXCEPT ![p][b] = WithGates(@, b)]
    /\ UNCHANGED <<version, status, cur, noise, render>>

\* review_source_text, when it is another one.
ReviewNewText(p, b, t) ==
    /\ CurrentPending(p, b)
    /\ b # 0 => row[p][b].text # t
    /\ Derive(p, b, WithGates(Reworded(p, b, t), NewRow(p)))

\* confirm_source_snapshot.
ConfirmSource(p, b) ==
    /\ CurrentPending(p, b)
    /\ b # 0 /\ row[p][b].confirmed = 0
    /\ row' = [row EXCEPT ![p][b].confirmed = b]
    /\ UNCHANGED <<version, status, cur, noise, render>>

\* complete_source_review.
CompleteReview(p, b) ==
    /\ CurrentPending(p, b)
    /\ b # 0 /\ row[p][b].confirmed # 0 /\ row[p][b].reviewed = 0
    /\ Undecided(row[p][b]) = {}
    /\ row' = [row EXCEPT ![p][b].reviewed = b]
    /\ UNCHANGED <<version, status, cur, noise, render>>

(***************************************************************************)
(* Source images.                                                          *)
(***************************************************************************)
\* The visual_ref an inclusion reuses: the one the image last had in this page
\* version; a new one is named after the row it appears in.
RefFor(p, i) ==
    LET earlier == {n \in DOMAIN row[p] : /\ row[p][n].version = version
                                         /\ row[p][n].image[i].ref # 0}
    IN IF earlier = {} THEN NewRow(p)
       ELSE row[p][Max(earlier)].image[i].ref

\* Its bytes are there, have the recorded hash and are an image.  Mutant: they are not
\* looked at.
AnyBytes(p, i) == TRUE
Usable(p, i) == i \notin Unusable[p]

\* save_image_source_disposition: the confirmation is kept, the review is not, and
\* neither are the gate records of the image itself.
DisposeImage(p, b, i, d) ==
    /\ CurrentPending(p, b)
    /\ b # 0
    /\ d = "included" => Usable(p, i)
    /\ Derive(p, b, [row[p][b] EXCEPT
            !.reviewed = 0,
            !.image[i] = [disposition |-> d, at |-> NewRow(p),
                          ref |-> IF d = "included" THEN RefFor(p, i) ELSE 0]])

(***************************************************************************)
(* Captures.                                                               *)
(***************************************************************************)
\* One behind every visual and every decided image, included or not.  Mutant: ignored
\* images are forgotten.
Behind(used) == Max(used \cup {-1}) + 1
CapturePositions(s) == {c.position : c \in s.captures}
BehindVisuals(s) == Behind(CapturePositions(s) \cup Included(s))
NextPosition(s) == Behind(CapturePositions(s) \cup (DOMAIN s.image \ Undecided(s)))

\* save_capture_visual: only after the review; the new row has no gap.
SaveCapture(p, b) ==
    /\ CurrentPending(p, b)
    /\ b # 0 /\ row[p][b].reviewed # 0
    /\ Derive(p, b, [row[p][b] EXCEPT
            !.gap = FALSE,
            !.captures = @ \cup {[ref |-> NewRow(p), position |-> NextPosition(row[p][b]),
                                  crop |-> render]}])

\* update_capture_visual: cropped again from the render as it is now.  Mutant: the
\* current row is changed.
UpdateCaptureInPlace(p, b, c) ==
    /\ CurrentPending(p, b)
    /\ b # 0 /\ c \in row[p][b].captures
    /\ row' = [row EXCEPT ![p][b].captures = (@ \ {c}) \cup {[c EXCEPT !.crop = render]}]
    /\ UNCHANGED <<version, status, cur, noise, render>>
UpdateCapture(p, b, c) ==
    /\ CurrentPending(p, b)
    /\ b # 0 /\ c \in row[p][b].captures
    /\ Derive(p, b, [row[p][b] EXCEPT
            !.gap = FALSE,
            !.captures = (@ \ {c}) \cup {[c EXCEPT !.crop = render]}])

\* delete_capture_visual: without captures the sources of the page have a gap.
DeleteCapture(p, b, c) ==
    /\ CurrentPending(p, b)
    /\ b # 0 /\ c \in row[p][b].captures
    /\ Derive(p, b, [row[p][b] EXCEPT
            !.gap = (row[p][b].captures = {c}), !.captures = @ \ {c}])

\* move_capture_visual: c changes places with its neighbour d.
Adjacent(s, c, d) ==
    /\ c.position # d.position
    /\ \A e \in s.captures \ {c, d} :
        (c.position < e.position) <=> (d.position < e.position)
MoveCapture(p, b, c, d) ==
    /\ CurrentPending(p, b)
    /\ b # 0 /\ c \in row[p][b].captures /\ d \in row[p][b].captures
    /\ Adjacent(row[p][b], c, d)
    /\ Derive(p, b, [row[p][b] EXCEPT
            !.gap = FALSE,
            !.captures = (@ \ {c, d}) \cup {[c EXCEPT !.position = d.position],
                                            [d EXCEPT !.position = c.position]}])

\* mark_capture_source_complete.
MarkComplete(p, b) ==
    /\ CurrentPending(p, b)
    /\ b # 0
    /\ Derive(p, b, [row[p][b] EXCEPT !.gap = FALSE])

(***************************************************************************)
(* Review.                                                                 *)
(***************************************************************************)
\* The blockers of read_curation_state.  Summaries of captures are never empty.
ChunkNonempty(s) == s.text \notin FooterOnly \/ ~noise
Ready(s) ==
    /\ s.confirmed # 0
    /\ s.reviewed # 0
    /\ Undecided(s) = {}
    /\ ~s.gap

SetStatus(p, s) ==
    /\ status' = [status EXCEPT ![p] = s]
    /\ UNCHANGED <<version, cur, row, noise, render>>

\* approve_page.
Approve(p, b) ==
    /\ CurrentPending(p, b)
    /\ b # 0
    /\ Ready(row[p][b]) /\ ChunkNonempty(row[p][b])
    /\ SetStatus(p, "approved")

\* exclude_page, for one page or for each of a batch: no snapshot is asked for.
Exclude(p) ==
    /\ status[p] = "pending"
    /\ SetStatus(p, "excluded")

\* reopen_page: the current snapshot stays.
Reopen(p) ==
    /\ status[p] # "pending"
    /\ SetStatus(p, "pending")

(***************************************************************************)
(* The footer all pages share.                                             *)
(***************************************************************************)
\* confirm_candidate: on two pages at least, whatever their status.
ConfirmNoise ==
    /\ ~noise
    /\ \E p, q \in Pages : p # q
    /\ noise' = TRUE
    /\ UNCHANGED <<version, status, cur, row, render>>

\* revoke_confirmation: all pages it is on must be pending.
RevokeNoise ==
    /\ noise
    /\ \A p \in Pages : status[p] = "pending"
    /\ noise' = FALSE
    /\ UNCHANGED <<version, status, cur, row, render>>

(***************************************************************************)
(* What ingestion does to curated pages.                                   *)
(***************************************************************************)
\* _clone_curation_snapshot of a formal snapshot: gate records, decisions and visuals
\* are those of the source.  Mutant: without the gate records.
CloneContents(s) == [s EXCEPT !.confirmed = 0, !.reviewed = 0]
Clone(s) == s

\* _materialize_review_inheritance for pages whose fingerprint the new version keeps.
Inherits(p, kept) == p \in kept /\ status[p] # "pending"
ActivateVersion(kept) ==
    LET cloned == {p \in Pages : Inherits(p, kept) /\ cur[p] # 0} IN
    /\ version < MaxVersion
    /\ HasRoom(Cardinality(cloned))
    /\ version' = version + 1
    /\ status' = [p \in Pages |-> IF Inherits(p, kept) THEN status[p] ELSE "pending"]
    /\ row' = [p \in Pages |->
                 IF p \in cloned
                 THEN Append(row[p], [Clone(row[p][cur[p]]) EXCEPT
                                        !.version = version + 1, !.base = cur[p]])
                 ELSE row[p]]
    /\ cur' = [p \in Pages |-> IF p \in cloned THEN NewRow(p) ELSE 0]
    /\ noise' = FALSE
    /\ UNCHANGED render

\* The last transaction of a re-render replaces the renders of all pages.
Rerender ==
    /\ render < MaxRender
    /\ render' = render + 1
    /\ UNCHANGED <<version, status, cur, row, noise>>

EditText(p, b) ==
    \E t \in Texts : SaveSource(p, b, t) \/ ReviewSameText(p, b, t) \/ ReviewNewText(p, b, t)
EditImages(p, b) ==
    \E i \in Positions(p), d \in {"included", "ignored"} : DisposeImage(p, b, i, d)
EditCaptures(p, b) ==
    \/ SaveCapture(p, b)
    \/ MarkComplete(p, b)
    \/ /\ b # 0
       /\ \E c \in row[p][b].captures :
            \/ UpdateCapture(p, b, c)
            \/ DeleteCapture(p, b, c)
            \/ \E d \in row[p][b].captures : MoveCapture(p, b, c, d)

Next ==
    \/ \E p \in Pages : \E b \in Loaded(p) :
        \/ EditText(p, b)
        \/ ConfirmSource(p, b)
        \/ CompleteReview(p, b)
        \/ EditImages(p, b)
        \/ EditCaptures(p, b)
        \/ Approve(p, b)
    \/ \E p \in Pages : Exclude(p) \/ Reopen(p)
    \/ ConfirmNoise \/ RevokeNoise
    \/ \E kept \in SUBSET Pages : ActivateVersion(kept)
    \/ Rerender

Spec == Init /\ [][Next]_vars

(***************************************************************************)
(* Properties.                                                             *)
(***************************************************************************)
Current(p) == row[p][cur[p]]

\* What publication takes from a snapshot: text, included images and captures
\* (_chunk_from_row, _visuals).
Delivered(s) ==
    [text |-> s.text,
     images |-> [i \in Included(s) |-> s.image[i]],
     captures |-> s.captures]

\* Every variable has its type, and a page's current snapshot is its newest one
\* (page_versions.current_snapshot_id is moved by compare-and-set only).
TypeOK ==
    /\ version \in 1 .. MaxVersion
    /\ status \in [Pages -> Statuses]
    /\ DOMAIN row = Pages /\ \A p \in Pages : row[p] \in Seq(Snapshot(p))
    /\ cur \in [Pages -> Nat]
    /\ \A p \in Pages : cur[p] \in {0, Len(row[p])}
    /\ noise \in BOOLEAN
    /\ render \in 0 .. MaxRender

\* A gate record is about what it was given for, however many snapshots and versions
\* it was copied through: a confirmed text is the text that was confirmed, and a
\* reviewed snapshot has the text and the image decisions that were reviewed
\* (_copy_snapshot_gate_records, _clone_curation_snapshot).
ConfirmedText(p, s) ==
    s.confirmed # 0 =>
        /\ s.confirmed \in DOMAIN row[p]
        /\ row[p][s.confirmed].text = s.text
ReviewedSources(p, s) ==
    s.reviewed # 0 =>
        /\ s.reviewed \in DOMAIN row[p]
        /\ row[p][s.reviewed].text = s.text
        /\ row[p][s.reviewed].image = s.image
        /\ s.confirmed # 0 /\ Undecided(s) = {}
GatesCoverContent ==
    \A p \in Pages : \A i \in DOMAIN row[p] :
        ConfirmedText(p, row[p][i]) /\ ReviewedSources(p, row[p][i])

\* An approved page is complete, approved here or in an earlier version: its current
\* snapshot passes every gate, and each image it includes can be delivered
\* (approve_page, _materialize_review_inheritance).  That its chunk is not empty is
\* checked at the approval only: a footer that is confirmed later can empty it.
ApprovedIsComplete ==
    \A p \in Pages : status[p] = "approved" =>
        /\ cur[p] # 0
        /\ Ready(Current(p))
        /\ Included(Current(p)) \cap Unusable[p] = {}

\* No two visuals of a snapshot share a position, in whatever order images were
\* ignored, captured around and included again (UNIQUE (snapshot_id, position) would
\* refuse the save), and an image keeps one visual_ref through a page version,
\* which nothing else has.
DistinctPositions(s) ==
    /\ CapturePositions(s) \cap Included(s) = {}
    /\ \A c, d \in s.captures : c.position = d.position => c = d
StableRefs(p, m, n) ==
    LET s == row[p][m]  t == row[p][n] IN
    /\ \A i \in Included(s), j \in Included(t) :
        IF i = j THEN s.version = t.version => s.image[i].ref = t.image[j].ref
                 ELSE s.image[i].ref # t.image[j].ref
    /\ \A i \in Included(s), c \in t.captures : s.image[i].ref # c.ref
VisualsAreDistinct ==
    \A p \in Pages :
        /\ \A n \in DOMAIN row[p] : DistinctPositions(row[p][n])
        /\ \A m, n \in DOMAIN row[p] : StableRefs(p, m, n)

\* Nobody's saved work is dropped: every snapshot of a page version is derived from
\* the one before it, whichever snapshots the editors had loaded
\* (_assert_current_pending_snapshot and the compare-and-set of _activate_snapshot).
NoLostEdit ==
    \A p \in Pages : \A i \in 2 .. Len(row[p]) :
        row[p][i].version = row[p][i - 1].version => row[p][i].base = i - 1

\* A snapshot is never removed or changed in what it delivers, and gate records are
\* never taken back: the token of a publication candidate names the current snapshot
\* of a page and nothing of what is in it (_business_state_token).
SnapshotsAreFrozen ==
    [][\A p \in Pages : \A i \in DOMAIN row[p] :
        /\ i \in DOMAIN row'[p]
        /\ Delivered(row'[p][i]) = Delivered(row[p][i])
        /\ row[p][i].confirmed # 0 => row'[p][i].confirmed = row[p][i].confirmed
        /\ row[p][i].reviewed # 0 => row'[p][i].reviewed = row[p][i].reviewed]_vars

\* What pages deliver, repeated footers aside, changes as ADR-0004 has it: while they
\* are pending, and a new version inherits a review only with what was reviewed.  The
\* footers do not follow it: ConfirmNoise takes them from approved pages as well.
Content(p) == IF cur[p] = 0 THEN {} ELSE {Delivered(Current(p))}
Abstract == INSTANCE PageReview WITH content <- [p \in Pages |-> Content(p)]
ImplementsPageReview == Abstract!Spec

\* What docs/adr/0006 and docs/adr/0004 say of captures, and the code does not do:
\* the captures of a page are crops of its render as it is now.
CapturesMatchRender ==
    \A p \in Pages : cur[p] # 0 =>
        \A c \in Current(p).captures : c.crop = render
=============================================================================
