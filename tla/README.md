# PPTExtract in TLA+

PPTExtract turns PowerPoint decks into reviewed, published knowledge chunks. A
FastAPI process accepts uploads and human decisions, worker processes run jobs
from a SQLite table under leases, a content-addressed directory holds the bytes,
and a publication job builds an immutable archive that downstream systems poll.
This directory models the parts of it in which several actors change shared
state, checks them with TLC on small instances, and proves with TLAPS what holds
for instances of every size.

Paths below are relative to `src/pptextract/` of the repository.

## Inventory

| Part | State | Operations | Interacts with |
| --- | --- | --- | --- |
| Documents and versions (`ingest_workflow`, `lifecycle`) | `documents`, `document_versions` | upload, new version, retry, rollback, void, delete, restore | creates ingestion jobs; moves the current version |
| Job queue and workers (`jobs`, `worker`) | `jobs` rows, `ClaimedJob` in memory | claim, checkpoint, finish, fail, lapse | runs ingestion, hidden page, re-render and publication jobs |
| Ingestion (`ingest_workflow`) | `ingestion_page_results` | stage results, activation, pause for mapping | object store, page identity |
| Page identity (`ingest_workflow`) | `pages`, `page_versions`, `page_mapping_cases` | plan, decide, confirm, enable hidden page, inherit a review | versions, curation |
| Curation workbench (`curation`, `repeated_footer_noise`, `runtime_facts`) | snapshots, gate records, image decisions, captures, footer confirmations, reviews | save a snapshot, decide an image, capture, approve, exclude, reopen | page versions, object store |
| Hidden page and re-render jobs (`ingest_workflow`) | `render_generation`, page results | enqueue, process, fail | queue, object store |
| Object store (`object_store`) | files, activity markers, flock | put, verify, forget activity | everything that stores bytes |
| Storage maintenance (`storage_maintenance`) | `object_gc_candidates`, `storage_recovery_state` | collect, audit, backup, restore, drill | object store, every transaction (recovery gate) |
| Publication (`publication`) | candidates, frozen input, sequence, artifacts, pointer | create, confirm, build, switch, retry, purge | curation state, queue, object store |
| Downstream (`downstream`, `api`) | served generation, pointer ETag | read pointer, download, import, switch | publication |
| Idempotent commands (`api`, `auth`, `ingest_workflow`, `lifecycle`) | `idempotency_records`, `lifecycle_events` | run once, replay the recorded answer, refuse another request under the key, join what is there already | uploads and version commands |
| Content pipeline (`conversion`, `rendering`, `fingerprint`, ...) | none | convert, render, fingerprint, warn | ingestion |
| Database (`db`, `config`) | schema, migrations, WAL | `BEGIN IMMEDIATE` transactions | everything |
| Web front end | view state | calls the API | API |

Every write of the program is one `BEGIN IMMEDIATE` transaction that also checks
the recovery gate (`db.transaction`). Transactions are therefore serial, and the
hard behaviour lies *between* them: a worker that goes on after its lease was
taken over, a command between two transactions of a job, a crash between bytes
and the row that refers to them, a plan that a human decided on and that is
computed again later, a pointer read before and an archive downloaded after a
replacement. What makes each part correct:

* versions and jobs: they tell the same story, one ingestion per document at a
  time, the current version is the ready one that became ready last, a stale
  worker is harmless, processing ends;
* page identity: no page twice in a version, known content keeps its page, a
  review is inherited only with the same page and content and never past a
  reopening, tombstones follow the current version;
* object store: a committed reference has bytes, a live write keeps its bytes,
  a backup finds what its copy of the database needs, no deadlock between the two
  locks, an audit of a healthy store passes;
* commands: delivered any number of times, they take effect once and answer the
  same, and the version they name has the file they are about;
* curation: no edit is lost between sessions, a gate record is about the text and
  the decisions it was given for, what is approved is complete and stays what it is
  until it is reopened;
* publication: confirmed as shown, one at a time, newer releases only, the
  current release is never withdrawn, publication ends, followers catch up.

`PROJECT.json` lists every hazard at its line with the properties that would
catch it.

## Modules

| Module | Models |
| --- | --- |
| `VersionLifecycle` | abstract: the life of a version and the current version, without jobs |
| `Ingestion` | documents, versions, their ingestion jobs, workers and commands; implements `VersionLifecycle` |
| `IngestionProofs` | the proofs about `Ingestion` |
| `PageIdentity` | the pages of one document across its versions, mapping and review inheritance |
| `PageIdentityProofs` | the proofs about `PageIdentity` |
| `Commands` | idempotency records around the commands of `Ingestion`, which it extends |
| `CommandsProofs` | the proofs about `Commands` |
| `ObjectStore` | puts, references, locks, garbage collection, audit, recovery gate, backup and restoration |
| `ObjectStoreProofs` | the proofs about `ObjectStore` |
| `ReleaseLog` | abstract: immutable, ever newer releases and a follower |
| `Publication` | candidates, publication jobs, pointer, retention, downstream; implements `ReleaseLog` |
| `PublicationProofs` | the proofs about `Publication` |
| `RenderGeneration` | re-render and hidden page jobs of one version while services of several generations run |
| `RenderGenerationProofs` | the proofs about `RenderGeneration` |
| `PageReview` | abstract: what a page delivers changes only while its review is pending |
| `Curation` | snapshots, gate records, images, captures, footers and reviews of the pages of one document; implements `PageReview` |
| `CurationProofs` | the proofs about `Curation` |
| `MC...` | instances for TLC |

An action is one committed transaction and is named after the function that runs
it. A guard stands for the function's checks; a call that is rejected changes
nothing and is not an action. What a process keeps in memory between transactions
is a variable of its own (`claim`, `writer`, `edit`, `follower`). Definitions under
a comment that starts with *Mutant* are deliberately wrong variants of the
definition that follows them; they are not used by the specification and document
which slip each property detects.

**Ingestion.** A job and its version are created together, so jobs are indexed by
version. A lease token is fresh at every claim and every claim counts an attempt,
so *the row carries my token* is *the row runs at my attempt*. A clock is
abstracted to what the code compares it with: `timer` is "lease", "lapsed",
"backoff" or "none". `_checkpoint` and `fail_ingestion_job` read the clock before
they wait for the write lock, so a lapsed lease that nobody took over may still be
renewed; `_assert_job_lease` reads it inside the transaction and may not.
Redelivered commands only read their recorded answer and change no state here;
they are in `Commands`.

**Commands.** `Commands` composes the commands of `Ingestion` with the record each
writes in the same transaction (`idempotency_records` for uploads, `lifecycle_events`
for the others, which are read and written alike). A slot is what a record is unique
in, actor and scope and key; a body is what the fingerprint is made of. Clients
deliver any body to any slot at any time, so a lost answer, a client that retries late
and a key that is used again are all there. `told` is what clients saw, `carried`
counts effects; no action reads either. An upload joins the active version with the same file
(`coalesced`) or the current one (`no_change`), which is recorded like an effect.

**PageIdentity.** A deck is a function from page numbers to content fingerprint,
slide id and hidden flag; a page is named by the version and number that created
it. `Plan` is `_build_page_mapping_plan`: unique content first, then ambiguous or
repeated content to a human, then unique slide ids of the current version, then
slide id conflicts to a human. Processing a version collapses into the one
transaction that computes the plan; how it gets there is `Ingestion`'s business.
`disturbed` is history that no action reads: a mapping waits, and since it does, a
ready version was voided or a hidden page enabled. An enabling whose INSERT would break
`UNIQUE (version_id, page_id)` fails and is no action, so `OnePagePerVersion` says
something about activations and confirmations, and `HiddenPagesCanBeEnabled` about
enablings.

**ObjectStore.** Time is discrete and ages saturate. `files` and `marker` are on
disk, the rest are rows. A put holds the flock shared and is atomic (a crash
after the rename leaves bytes without a marker); a collection holds it
exclusively and then needs the write lock; a curation request that stores an
image holds the write lock and then needs the flock. `referenced` are the rows
that are written after a put, `registered` the source images that activation
names without one. One collection at a time is modelled: the flock orders them.
A backup copies the database in one step and then, without any lock, object by
object what the copied rows need; work goes on meanwhile. It is completed or given
up; one that is completed may be restored on a new machine later, which loses all
that happened since, so `Restore` is a step of a completed backup. Two fields are
history that no action reads: `marker_age` of a writer, the age of its newest activity
marker (older than the grace if a collector that died lost it), and `spared` of a
backup, what its rows refer to that had bytes and no mark. The corruption of
bytes on disk and of the database is not modelled, and the recovery drill is a
backup and a restoration into a scratch directory.

**RenderGeneration.** One ready version, its pages, and the jobs of both kinds in
the order they were created. A service is a worker and the requests it serves, with
one generation; a generation names one configuration. `usable` says that the
version is the one to curate; deletions, restores, voids and newer versions flip
it. `render` is the generation that drew a page, `warnings` the generation whose
audit is active. The transactions of the two handlers are actions, what they assert
is `MayWrite`, and any assertion that fails leads to `Refused`. Conversion and
fingerprint do not depend on the renderer and are one flag.

**Curation.** `row[p]` holds the formal snapshots of a page in the order of their
INSERTs, across versions; `cur[p]` is `current_snapshot_id`. A command takes the
snapshot its editor has loaded as base, and an editor may have loaded any that ever
existed, so nothing is remembered of sessions. Gate records are one number each: the
row they were given on, which copying keeps as it keeps actor and time. An image
decision is named after the row it was made in, which stands for its summary or
reason, and a `visual_ref` after the row it first appeared in. `crop` is the render a
capture was cut out of. All pages carry one footer; a text in `FooterOnly` has nothing
outside the block the footer is in. `ActivateVersion` is what
`_materialize_review_inheritance` does to the pages whose fingerprint the next version
keeps (inheritance past several versions is `PageIdentity`'s). `PageReview` sees the
status of a page and what publication would take from its current snapshot.

**Publication.** A business state is what `_business_state_token` distinguishes,
`Content` the content set hash of it (None when the preflight refuses it). Job rows
of a candidate are failed for good except the last, so one record per candidate
holds it. `Phases` stands for the checkpoints from *build* to *switch_pointer* (and
one per asset), which all do the same. An artifact goes through "kept", "replaced"
(still public), "withdrawn" (internal only), "expired" and "purged". A
synchronisation of the follower is two requests; the checks on the archive are one
outcome, failure.

## Runs

| Run | Instance | Shows |
| --- | --- | --- |
| `ingestion` | 2 documents, 3 versions, 2 workers, 2 attempts, 1 stage result; symmetric | types, job and version agree, one ingestion per document, the current version is the latest ready one, `StaleClaimIsHarmless`, refinement of `VersionLifecycle` |
| `ingestion_live` | 1 document, 2 versions, 2 workers | `ProcessingEnds` |
| `pages` | 3 versions, 3 decks of 2 pages | identity, inheritance, decisions that stand |
| `pages_hidden` | 3 versions, 10 decks | violation: a hidden page that can never be enabled |
| `commands` | 2 documents, 3 versions, 1 worker, 2 files or reasons, one key for every route and target; symmetric | effects happen once, answers repeat, versions have the file they were asked for |
| `storage` | 1 object, 1 writer, 1 editor, 1 backup at a time, any number of renewals | references, young writes and backups keep their bytes, edits end |
| `storage_rerender` | 1 object, 1 writer, grace of 3 for a lease of 2 | violation: staged renders are collected before their commit |
| `render` | 1 visible and 1 hidden page, an old and a new service, 2 attempts, requests up to 3 jobs | newer renders are never undone, what becomes visible is complete and current and shows its warnings |
| `render_mixed` | same | violation: a page keeps an old render under a new configuration |
| `curation` | 2 pages with an image each, one of them unusable, 2 texts, 4 snapshots in all, 2 versions, 1 re-render | gates cover content, approved is complete, visuals are distinct, no lost edit, frozen snapshots, refinement of `PageReview` |
| `publication` | 2 candidates, 2 workers, 4 business states, 2 attempts, 2 runs | story of candidate, job and artifact, current kept, confirmed as shown, refinement of `ReleaseLog` |
| `publication_live` | 2 candidates, 2 workers, 2 business states, 2 attempts, 1 run | publications end, the follower catches up |

Why these bounds are enough:

* Two workers are a hung one and its successor; two attempts are a takeover and
  an exhausted job. Three versions are the fewest for a void to choose a fallback
  among two, and for a review to be inherited past a version that reopened it.
  Two documents let one claim fail the exhausted job of another document.
* The three decks of `pages` have repeated content, a hidden page of a content that
  another deck shows, and two contents under one slide id. They are what it takes for a
  decision to be overturned: `ConfirmedAsDecided` is violated on them, and so is
  `DecisionsStand` when only voids or only enablings count as disturbing. The wider set
  of `pages_hidden` adds single pages, pages in both orders and slide ids that move.
* `commands`: two documents and three versions let a command name the version of
  another one, be repeated after a restoration, and find its file current again;
  one key per route and target already gives different commands different slots,
  and the two bodies use it twice. What workers do between two commands is
  `Ingestion`'s and is kept to one attempt.
* `storage`: a single object carries every race, because objects interact only
  through the two locks. Ages count up to the grace and then saturate. The grace is
  longer than a lease, as the code checks, and a lease may be renewed for ever. One
  writer and one editor are the two sources of references, and a backup and a collection
  run beside them; a second writer adds nothing that the editor does not do. Two marker
  contents are enough because a fresh UUID only has to differ from the candidate's. The
  instance is sharp: `LiveWritesAreStored` is violated when `Protected` allows one tick
  more, and when it disregards markers that a collector lost.
* `render`: the version starts at the old generation, the new one, or one from
  before both, so that two re-renders compete. Three jobs are an enablement that is
  cancelled, a re-render and the enablement that takes its place; one service per
  generation is enough because a lapsed job is claimed again by the service itself
  or failed by the other one.
* `curation`: four snapshots are the fewest in which an image is ignored, captured
  around and included again, or in which two captures change places; two versions let
  one inherit. The bytes of one image cannot be used, so that including it is refused;
  the theorems about `Curation` hold for any. `View` in `MCCuration` identifies states
  that differ in fields of superseded snapshots which no action reads and no property
  has not already seen while they were current.
* `publication`: two of four states have the same content (stale although nothing
  visible changed, no_change), one has another, one fails the preflight. Two
  candidates suffice for a retry that was superseded. Neither allows a deadlock:
  the business state can always change.

`CHECK_DEADLOCK FALSE` only in `pages*`: with all versions used up and every page
reviewed or voided, users have nothing left to do.

## Fairness

* `ingestion_live`, `publication_live`: time passes (a lease lapses), the worker
  loop (`worker.run`) polls and executes what it claimed. Nothing is
  assumed of users, failures or crashes; a worker may crash for ever, the limit on
  attempts ends it.
* `publication_live`: the downstream system polls, a synchronisation that started
  succeeds or fails, and one that could succeed again and again eventually does
  (strong fairness of `DownloadArtifact`).
* `storage`: a collection that has the flock gets the write lock, times out
  (`busy_timeout`) or sees the gate closed; the kernel does not pass over a
  waiting flock for ever (strong fairness of `EditPut`); a request whose bytes are
  stored commits or rolls back. Writers, scans and audits may stop at any time.

## Proofs

`IngestionProofs` proves for every number of documents, versions, workers,
attempts and stage results, from `IngestionAssumption` alone:

* `TypeCorrect`, `JobsMatchVersions`, `OneActiveIngestion`, `CurrentLatest`,
  `ActivatedComplete`, `DeletedQuiet`: the four invariants of run `ingestion`, and two
  that only the proofs check;
* `UniqueLeaseHolder`: a job that runs is held by one worker at most;
* `StaleHarmless`: a step of a worker that lost its lease changes its memory only, and
  a stage result is only recorded by the worker that holds the job: neither a renewal nor
  a result, an activation or a failure of a stale worker gets through;
* `Refinement`: `Spec => ImplementsVersionLifecycle`, every step maps to a step of
  the abstract life cycle or to a stutter.

The argument is one inductive invariant, `IInv`: the checked invariants and four
facts they need.

* `RanksBounded`: a rank never exceeds the number of activations. Without it an
  activation could not be shown to be the latest.
* `OwnersExist`: versions belong to documents that exist. Without it a first
  upload could find active jobs of the document it creates.
* `ClaimsWereIssued`: what a worker remembers was issued and recorded. Without it
  the next attempt could be somebody's stale token, and completed steps could lack
  their results.
* `TokensAreUnique`: two claims of a version carry different attempts.

Each fact has a `Step...` lemma with one step per action; `StepIInv` and `InitIInv`
combine them, `Inductive` is the temporal theorem, and the named theorems follow.

`CurationProofs` proves for every set of pages, every number of images, texts,
snapshots, versions and renders, from `CurationAssumption` alone, all that run
`curation` checks:

* `TypeCorrect`, `GatesCover`, `ApprovedComplete`, `NoEditLost`, `VisualsDistinct`:
  its invariants;
* `SnapshotsFrozen`: what is saved stays as it is;
* `Refinement`: `Spec => ImplementsPageReview`, repeated footers aside: what a
  confirmation of a footer takes from an approved page is outside `PageReview` (see
  *What the runs leave open*).

Its many commands have few effects, so the argument goes in two steps. The `...Shape`
lemmas show that every command adds a snapshot to a page (`AddsSnapshot`), adds gate
records to its current one (`AddsGates`), changes a review, starts a version or
leaves pages alone; the `...KeepsInv` and `...Implement` lemmas are about these
shapes. `IInv` is the invariants together with `Rowwise`:

* `Visuals`: captures lie behind all images of the page, at bounded positions.
  Without it a capture made while an image was ignored could be in the image's place
  when it is included, and a position could not be shown to be free.
* `Minted`: a `visual_ref` was minted in the row it is named after, by one visual.
  It is how two equal references in rows far apart are traced to one visual.
* `OneRef`: an image keeps its reference in a page version.
* `VersionsInOrder`: a page without a current snapshot has none in this version.
  Without it a first snapshot could pass over an earlier one.

`MaxOf`, a maximum exists in a bounded set of integers, is derived from the library's
theorem on well-founded orders.

`CommandsProofs` proves for every number of clients, keys and bodies, from
`IngestionAssumption` and `CommandsAssumption`:

* `CommandsAreIngestion`: `CommandsSpec => Spec`. Deliveries are steps of `Ingestion` or
  leave it alone, so each theorem above holds here as well;
* `CommandsTypeCorrect`, `EffectsOnce`, `SameAnswers`, `RightFiles`: the types, and the
  invariants of run `commands`.

`CommandsInv` is `IInv` with the types and five facts about records: an effect is
recorded under its key (`EffectsRecorded`), an answer that somebody has was
recorded (`ToldRecorded`), a record has the body of its request
(`RecordsHaveBodies`) and names a version with its file (`RecordsNameTheFile`), and a
version was made for one command (`MadeOnce`). The `...Shape` lemmas reduce the
commands to four effects: accepted with a new version, answered without one,
replayed, and nothing (`Silent`); the `...Keeps` lemmas are about these.

`PublicationProofs` proves for every set of candidates and workers, all business
states and limits, from `PublicationAssumption`:

* `TypeCorrect`, `CandidatesMatchJobs`, `CurrentKept`: the invariants of run
  `publication`;
* `Confirmed`: a confirmation is about what was shown;
* `Refinement`: `Spec => ImplementsReleaseLog`;
* `OneActive` and `EndedByOwner`: `OneActivePublication` and `EndedByHolder`, which only
  the proofs check.

`PubInv` is the invariants and four facts.

* `Sequenced`: a candidate has a sequence number from its confirmation on, no other
  has it, and the next one is larger than all. Without it a confirmation could
  reuse the number of a release.
* `CurrentIsRelease`: there is a current release once there is a release. Without it
  the first switch could pass over a release that nobody withdraws.
* `Ahead`: what is being published is newer than every release. Without it a switch
  could move the pointer back. It holds because one job is active at a time and a
  retry is refused once a newer release is out.
* `FollowsReleases`: what the follower has, and what it downloads, are releases in
  this order. Without it a download could move it back.

`RenderGenerationProofs` proves all that run `render` checks for every number of
services, pages and jobs and every assignment of generations and configurations,
from `RenderAssumption`: `TypeCorrect`, `Upgrades` (`NoDowngrade`), `EnabledStays`
(`EnabledForGood`), `EnabledConfigured` (`EnabledAsConfigured`) and `WarningsShown`
(`WarningsAreShown`). The run has one configuration per generation; the theorems
also cover generations that share or return to one.

Every action is a `Step`: each job, page and process changes in one of a few ways
(`Moves`, `PageMoves`, `ProcessMoves`), and steps of this kind preserve `RenderInv`:

* `RendersAreOld`: no render is of a later generation than the version. Without it an
  enablement could put a later render back.
* `EnabledIsDone`: a visible page is complete and its job is over. Without it a late
  failure could clear a visible page.
* `ClaimsWereIssued`: a process works for a job of its generation and counts no more
  attempts than the job. Without it an old claim could become valid again.
* `DrawnAsConfigured`: what is about to be activated has a render of the right
  configuration.

`WarningsInv` adds what the warnings need: stages match kinds of jobs
(`KindsMatch`), a re-render that is still to come changes the configuration and no
enablement is ahead of the version (`JobsFollow`), pages that a re-render has not
seen carry the configuration it replaces (`UnseenAsConfigured`), and a page shows
its warnings before it becomes visible (`CheckedIsShown`).

`UpgradedRendersMatch` goes beyond `render`: if the services that are at work share one
configuration (`OneConfiguration`), `RendersMatchVersion` holds, which `render_mixed`
violates. Services of two configurations side by side are thus the only way to an old
render under a new configuration. The additional fact is `AllSeen`: a re-render that
changes the configuration has seen all visible pages, because the hidden page jobs of
these services are refused until it is committed. Without it a page could be enabled
behind its back. (TLC agrees on the instance of `render` with two services of generation
2 and no generation 1.)

`ObjectStoreProofs` proves for every number of objects, writers, editors and markers and
every lease, grace and wait, from `StoreAssumption`:

* `TypeCorrect`: the types;
* `ReferencesKept`: `Spec => ReferencesKeepTheirBytes`. No step takes the bytes of a
  committed reference, neither a collection nor a restoration, and a reference without
  bytes comes only from a writer whose marker was too old or lost;
* `LiveWritesStored`, `BackupComplete`: the other invariants of run `storage`.

Nothing is assumed about leases: the code never compares renewals with the grace, and
a re-render renews for as long as it runs, so "a write finds its bytes" does not hold as
such (`storage_rerender`). What holds is said by `Protected`: the newest marker of a write
is younger than the grace, less the time a collection may have waited with the clock it
read. A marker that a collector removed before it died counts as too old.

The argument is about time. Whoever relies on an object has given it a new activity
marker, or has found no mark on it; a mark that counts was therefore made later, by a
collection that read its clock at most `Wait` before. `Spared` says this of an object
and an age, and `IInv` is the types and three facts:

* `WritersSpared`: the object of a writer that is `Protected` is spared since its put.
  Without it the collector could delete it under the write, and the commit would refer to
  missing bytes. A collector that dies breaks it for the writers whose marker it has
  removed if the mark was made when there was none: the two look alike again, which is
  why these writers leave `Protected`.
* `EditsStored`: an edit has its bytes. It holds the write lock, which a collection
  needs, and so no time has to be counted.
* `BackupSpared`: what the copied rows refer to, and carried no mark then, is spared
  since. Without it a released object could be deleted before it is copied.

`ReferencesStep` is what each action does to references and bytes; a collection deletes
only what has no reference at its commit, and a completed backup brings bytes with rows.

`PageIdentityProofs` proves for every finite set of versions and every set of decks,
from `PageAssumption`, all that run `pages` checks, and two things it does not:

* `TypeCorrect`, `OnePage`, `ReviewsEarned`, `ReviewsNotResurrected`: its invariants;
* `KnownContent` (`KnownContentKeepsItsPage`): what an activation does;
* `DecisionsHold`: `Spec => DecisionsStand`. A confirmation uses every page that a human
  chose, without exception. That what was to be new is new, and that everything ambiguous
  was asked, holds as well unless a ready version was voided or a hidden page enabled
  since the mapping was paused. The code allows both, and does not satisfy
  `ConfirmedAsDecided`, the rule without this exception;
* `LivePages` (`LiveIsCurrent`): tombstones follow the current version as long as its
  successor was not voided;
* `MovesAsPromised` (`MovesAsLifecycle`): the collapsed life cycle of this module is the
  abstract one that `Ingestion` is proved to implement.

`PagesInv` is about identities: the types, `OnePagePerVersion` and

* `RanksInOrder`: activations are numbered in their order, and only what was activated
  has pages. Without it the newest version of a set would not be determined.
* `CurrentIsNewest`: the current version is the ready one that was activated last.
  Without it the slide ids of the plan and the content could come from different histories.
* `PagesAreMade`: a page is named by an activated version. Without it a new page
  `<<v, n>>` could be one that exists.
* `ReusedWasCandidate`: a decision reuses a candidate it was shown. Without it a
  confirmed page could be none of the document's.

Under them lies `PlanMatches`: a plan matches its rows to different pages. `ReviewsInv`
is `ReviewsAreEarned` and `NoReviewResurrected` with `ReviewsAreTraced`, a review that is
not pending names an activation that was not later; without it a version that is
activated could be the source of a review that is there already. The two reviews need
each other, because only the newest ready version is reviewed and it inherits from the
one before. `LiveIsCurrent` is inductive given the rest. `DecisionsHold` adds
`OneWaits`, at most one version waits for its mapping, without which `disturbed` could
speak of another one, and `CasesArePlanned`: unless disturbed, a version that waits has a
case for exactly what the plan asks about, because the plan asks the same as long as the
ready versions and their pages do not change (`PlanStays`).
An activation and a confirmation are both an `Installed` (a version gets pages that are
new or taken, no two alike), and an enabling is an `Enabled`; the lemmas about the
invariants are about these two.

Only model-checked: liveness (`ProcessingEnds`, `PublicationEnds`,
`FollowerCatchesUp`, `EditEnds`), because the proof system does not reach fairness.

## What the violation runs show

* `pages_hidden`: the slide id stage of the plan does not leave out the pages the
  version already has, so the INSERT fails on every attempt.
* `storage_rerender`: a re-render keeps objects uncommitted for longer than the
  grace of the collector, which knows nothing of active jobs.
* `render_mixed`: a re-render reads the enabled pages before it renders; a hidden
  page that an older service makes visible after that keeps its old render, while
  the version names the new configuration and is never stale again.

## What the runs leave open

* Rules that the code breaks and that are stated without a run of their
  own. `Ingestion!DeletedKeepsCurrent`: `confirm_page_mapping` never reads
  `documents.deleted_at`, so a mapping confirmed after a soft delete moves the
  current version. `PageIdentity!ConfirmedAsDecided`: the plan is computed again at
  confirmation, and a decision "new" loses to a match that a void or an enabled
  hidden page has made possible since (`DecisionsStand` has what
  remains true). `PageIdentity!CurrentPagesAreLive`: `void_version` moves the
  current version back and leaves the tombstones of the voided version in place.
  `ObjectStore!NeverBlocked`: source images are registered without bytes, and audit
  and backup demand the bytes, so an audit of a healthy store closes the gate.
  `Curation!CapturesMatchRender`: `process_rerender_job` replaces the renders of a
  version and no capture, although ADR-0004 and ADR-0006 want captures rebuilt. Each is
  found in seconds: the first with one document and two versions, the next two in
  the instance of `pages_hidden`, the last two in those of `storage` and `curation`.
* `confirm_candidate` of a footer does not ask for the status of the pages, although
  `revoke_confirmation` does and ADR-0004 lets nobody edit an approved page: the
  chunk of an approved page loses the block, and may keep nothing but its title.
  `ApprovedIsComplete` does not have the gate on an empty chunk, which only the
  approval itself looks at.
  Confirmations belong to a version, so the next version delivers the block again,
  with the review inherited. `PageReview` therefore does not see `noise`.
* An image that is included, ignored, approved so, inherited by a version and
  included again gets a new `visual_ref`, because the one it had is looked up in its
  page version only; `StableRefs` holds within a page version.
* `_clone_curation_snapshot` leaves out `asset_width_px` and `asset_height_px`, so an
  inherited page with captures has another content hash than the page it inherits
  from. The model does not have these fields.
* A version can stay stale for good: its one re-render per configuration has
  failed, or was skipped while the version was not current, or a new generation
  keeps the configuration and so asks for none. Hidden pages of such a version are
  refused as waiting for a re-render. And while a re-render waits, its version has
  no active warnings, so a preflight by an old service passes. Both are listed as
  hazards and planned.
* A collection that dies after `forget_activity` of an object that became reachable
  again, and before its commit, leaves the old candidate row (`CollectCrash`). If that
  row was made when the object had no marker, it matches the missing marker again: once
  the reference is released, the old age counts and the object is deleted under a write
  that has put it, however young the write is. `Protected` leaves these writes out, and
  so the checks and theorems about `ObjectStore` do not promise them their bytes; they do
  hold for every other write, and for what is referenced already.
* `accept_hidden_page_enablement` looks at the state of the version before it looks
  for a record, all other commands the other way round: an enablement delivered again
  after a newer version became current is refused instead of answered as before.
  `Commands` leaves it out.
* An object keeps the mark of a collection that found it unreferenced (its bytes may
  have been put and not committed) until a collection sees the reference. If it is
  released before that, the old age counts and it is deleted at once, under a backup
  that copied the reference; the backup then fails. `BackupFindsItsObjects`
  therefore leaves out what was marked when the database was copied. That a completed
  backup restores to a store with all its bytes is part of
  `ReferencesKeepTheirBytes`, which a restoration could violate.
* The last transaction of a publication compares the token and not the time of the
  lease. A worker suspended there for longer than the collector's grace is outside
  `ObjectStore`, whose `Commit` asserts the lease as ingestion and re-render do.
* The length of an upload request is taken to be bounded by `Lease`.
* The archive, the ZIP and JSON formats, the conversion and rendering of decks,
  authentication and the front end are not modelled: sequential code without
  shared state.

## Plan

The modules were written in the order of their importance: the life cycle and
ingestion, pages, the object store, publication, renders, curation, commands. What
is left, most useful first:

1. `RenderGeneration`: confirmations and the preflight of each service, a stale
   version is eventually rendered or refused for a reason.
2. `Commands`: enablements of hidden pages with their records, over `RenderGeneration`.
