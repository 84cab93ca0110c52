--------------------------- MODULE RenderGeneration ---------------------------
(***************************************************************************)
(* A rolling upgrade of the renderer.  Services of several generations run *)
(* side by side; each polls for versions that its rendering configuration  *)
(* has made stale, re-renders them, and enables hidden pages that users    *)
(* ask for.  The model follows one ready version and its jobs.             *)
(*                                                                         *)
(* A generation names one configuration, as the deployment does, and 0 the *)
(* generation of a version from before generations were recorded.  A lease *)
(* token is fresh at every claim and every claim counts an attempt, so a   *)
(* worker's token is the attempt at which it claimed.  A job of the code   *)
(* without any recorded generation, from before the column, is left out.   *)
(***************************************************************************)
EXTENDS Naturals, Sequences

CONSTANTS
    Workers,        \* processes: each serves requests and runs jobs
    GenOf,          \* settings.render_generation of each process
    Config,         \* the rendering configuration of each generation, and of 0
    Visible,        \* pages the version had from its activation on
    Hidden,         \* pages registered as hidden
    MaxAttempts,    \* jobs.max_attempts
    MaxJobs         \* bound: no request is accepted after so many jobs

Generations == {GenOf[w] : w \in Workers}
Pages == Visible \cup Hidden

ASSUME RenderAssumption ==
    /\ GenOf \in [Workers -> Nat \ {0}]
    /\ DOMAIN Config = {0} \cup Generations
    /\ Visible \cap Hidden = {}
    /\ MaxAttempts \in Nat \ {0}
    /\ MaxJobs \in Nat

VARIABLES
    usable,         \* the version is current, ready, its document not deleted
    generation,     \* document_versions.render_generation (and _config_version)
    page,           \* ingestion_page_results: [enabled, content, render, owner]
    warnings,       \* per page: generations whose audit is active, at most one
    jobs,           \* page.enable and version.rerender rows, in order of created_at
    work            \* per process: its place in the code and its ClaimedJob

rows == <<usable, generation, page, warnings, jobs>>
vars == <<rows, work>>

Idle == [pc |-> "idle", job |-> 0, attempt |-> 0, seen |-> {}]
Active == {"queued", "running"}

\* The stages of both kinds of jobs, and what an attempt ends with.
Places == {"idle", "read", "audit", "commit", "convert", "check", "draw", "warn", "activate",
           "finish", "fail", "retry"}

NewJob(kind, p, g) ==
    [kind |-> kind, page |-> p, generation |-> g,
     status |-> "queued", attempts |-> 0, timer |-> "none"]
Reruns == {i \in DOMAIN jobs : jobs[i].kind = "rerender"}
Enables == {i \in DOMAIN jobs : jobs[i].kind = "enable"}

\* succeeded, failed or cancelled: nothing reads which, nor what it took.
Ended(i) ==
    [jobs EXCEPT ![i].status = "ended", ![i].attempts = 0, ![i].timer = "none"]

\* A page before and after its enablement; a failed job takes its results back.
\* `content` stands for the conversion and the fingerprint made from it, which are
\* written in turn under the same lease and do not depend on the renderer.
Blank == [enabled |-> FALSE, content |-> FALSE, render |-> {}, owner |-> 0]
Cleared(i) ==
    [p \in Pages |-> IF page[p].owner = i THEN [Blank EXCEPT !.owner = i] ELSE page[p]]
Complete(p) == page[p].content /\ page[p].render # {}

Init ==
    /\ usable = TRUE
    /\ generation \in {0} \cup Generations
    /\ page = [p \in Pages |->
                 IF p \in Hidden THEN Blank
                 ELSE [enabled |-> TRUE, content |-> TRUE, render |-> {generation}, owner |-> 0]]
    /\ warnings = [p \in Pages |-> IF p \in Hidden THEN {} ELSE {generation}]
    /\ jobs = <<>>
    /\ work = [w \in Workers |-> Idle]

-----------------------------------------------------------------------------
(* Requests. *)

\* The document is deleted or restored, a newer version activated or voided.
ChangeUsable ==
    /\ usable' = ~usable
    /\ UNCHANGED <<generation, page, warnings, jobs, work>>

\* Version and service agree on the rendering configuration.
UpToDate(g) == Config[generation] = Config[g] /\ generation = g

\* The page's job is still to end, or has to be replaced.
ActiveEnable(p) == {i \in Enables : i = page[p].owner /\ jobs[i].status \in Active}

\* POST .../source-pages/{p}/enable of the service w, unless it is refused, has
\* nothing to do, or is coalesced with the active job of the same generation.
AcceptEnablement(w, p) ==
    LET g == GenOf[w]
        cancelled == [i \in DOMAIN jobs |->
                        IF i \in ActiveEnable(p) THEN Ended(i)[i] ELSE jobs[i]]
    IN  /\ usable /\ UpToDate(g) /\ ~page[p].enabled
        /\ \A i \in ActiveEnable(p) : jobs[i].generation # g
        /\ Len(jobs) < MaxJobs
        /\ jobs' = Append(cancelled, NewJob("enable", p, g))
        /\ page' = [page EXCEPT ![p].owner = Len(jobs) + 1]
        /\ UNCHANGED <<usable, generation, warnings, work>>

-----------------------------------------------------------------------------
(* The worker loop: enqueue, claim. *)

Goto(w, pc) == work' = [work EXCEPT ![w].pc = pc]

\* One job per version and configuration, ever; none behind a newer generation.
Needed(g) ==
    /\ usable
    /\ Config[generation] # Config[g]
    /\ generation < g
    /\ \A i \in Reruns : Config[jobs[i].generation] # Config[g] /\ jobs[i].generation <= g

\* Run before each claim; the version may become stale or usable after it.
EnqueueStale(w) ==
    /\ work[w].pc = "idle"
    /\ Needed(GenOf[w])
    /\ jobs' = Append(jobs, NewJob("rerender", 0, GenOf[w]))
    /\ warnings' = [p \in Pages |-> {}]
    /\ UNCHANGED <<usable, generation, page, work>>

Exhausted == {i \in DOMAIN jobs : /\ jobs[i].status = "running"
                                  /\ jobs[i].timer = "lapsed"
                                  /\ jobs[i].attempts = MaxAttempts}

\* Mutant: nothing counts the attempts of a job whose lease has lapsed.
ClaimableAgain(w) ==
    {i \in DOMAIN jobs :
        /\ jobs[i].generation = GenOf[w]
        /\ \/ jobs[i].status = "queued"
           \/ jobs[i].status = "running" /\ jobs[i].timer = "lapsed"}

\* A process claims the jobs of its own generation only.
Claimable(w) ==
    {i \in DOMAIN jobs :
        /\ jobs[i].generation = GenOf[w]
        /\ jobs[i].attempts < MaxAttempts
        /\ \/ jobs[i].status = "queued"
           \/ jobs[i].status = "running" /\ jobs[i].timer = "lapsed"}

\* A retry may have to wait until its delay is over.
Due(w) == {i \in Claimable(w) : jobs[i].status = "running" \/ jobs[i].attempts = 0}

\* claim_next_job first fails every exhausted job, of whatever generation.
Claim(w) ==
    LET failed == [i \in DOMAIN jobs |-> IF i \in Exhausted THEN Ended(i)[i] ELSE jobs[i]]
    IN  /\ work[w].pc = "idle"
        /\ page' = [p \in Pages |-> IF page[p].owner \in Exhausted
                                    THEN Cleared(page[p].owner)[p] ELSE page[p]]
        /\ \/ /\ Due(w) = {}
              /\ jobs' = failed
              /\ UNCHANGED work
           \/ \E i \in Claimable(w) :
                /\ \A k \in Due(w) : i <= k
                /\ jobs' = [failed EXCEPT ![i].status = "running", ![i].timer = "lease",
                                          ![i].attempts = @ + 1]
                /\ work' = [work EXCEPT ![w] = [pc |-> "read", job |-> i, seen |-> {},
                                                attempt |-> jobs[i].attempts + 1]]
        /\ UNCHANGED <<usable, generation, warnings>>

-----------------------------------------------------------------------------
(* What a transaction of a job asserts before it writes. *)

Mine(w) == jobs[work[w].job]

\* The row carries this process's token ...
Holds(w) ==
    /\ work[w].job # 0
    /\ Mine(w).status = "running"
    /\ Mine(w).attempts = work[w].attempt

\* ... and the lease has not expired.
HoldsLive(w) == Holds(w) /\ Mine(w).timer = "lease"

\* Mutant: it is enough that the version does not have my configuration yet.
NotDone(w) == Config[generation] # Config[GenOf[w]]

\* No later re-render of the version was requested or done.
NotOvertaken(w) ==
    /\ generation <= GenOf[w]
    /\ \A i \in Reruns \ {work[w].job} :
         \/ jobs[i].generation < GenOf[w]
         \/ jobs[i].generation = GenOf[w] /\ i < work[w].job

\* The version can still be curated, at the generation the job was made for.
SameGeneration(w) == usable /\ UpToDate(GenOf[w])

Owns(w) == page[Mine(w).page].owner = work[w].job

\* Mutant: a re-render is compared with later ones in its last transaction only.
MayWriteWarnings(w) ==
    /\ HoldsLive(w)
    /\ work[w].pc = "commit" => NotOvertaken(w)
    /\ work[w].pc \in {"check", "draw", "warn", "activate"} => SameGeneration(w)
    /\ work[w].pc = "activate" => Owns(w) /\ Complete(Mine(w).page)
MayWrite(w) ==
    /\ HoldsLive(w)
    /\ work[w].pc \in {"audit", "commit"} => NotOvertaken(w)
    /\ work[w].pc \in {"check", "draw", "warn", "activate"} => SameGeneration(w)
    /\ work[w].pc = "activate" => Owns(w) /\ Complete(Mine(w).page)

\* Any assertion that fails ends the attempt without a retry.
Refused(w) ==
    /\ work[w].pc \in {"audit", "commit", "convert", "check", "draw", "warn", "activate"}
    /\ ~MayWrite(w)
    /\ Goto(w, "fail")
    /\ UNCHANGED rows

\* A stage fails, for good or for now.
StageError(w) ==
    /\ work[w].pc \in {"read", "audit", "commit", "convert", "check", "draw", "warn", "activate"}
    /\ \/ Goto(w, "fail")
       \/ work[w].attempt < MaxAttempts /\ Goto(w, "retry")
    /\ UNCHANGED rows

-----------------------------------------------------------------------------
(* version.rerender. *)

EnabledPages == {p \in Pages : page[p].enabled}

\* A version that is no longer the one to curate needs nothing: success.
ReadRerender(w) ==
    /\ work[w].pc = "read" /\ Mine(w).kind = "rerender"
    /\ work' = [work EXCEPT ![w].pc = IF usable THEN "audit" ELSE "finish",
                            ![w].seen = IF usable THEN EnabledPages ELSE {}]
    /\ UNCHANGED rows

\* replace_active_warnings.
Warn(S, g) == warnings' = [p \in Pages |-> IF p \in S THEN {g} ELSE warnings[p]]

AuditRerender(w) ==
    /\ work[w].pc = "audit" /\ MayWrite(w)
    /\ Warn(work[w].seen, GenOf[w])
    /\ Goto(w, "commit")
    /\ UNCHANGED <<usable, generation, page, jobs>>

\* The pages read at the start get their new renders, all at once.
CommitRerender(w) ==
    /\ work[w].pc = "commit" /\ MayWrite(w)
    /\ page' = [p \in Pages |-> IF p \in work[w].seen /\ page[p].enabled
                                THEN [page[p] EXCEPT !.render = {GenOf[w]}] ELSE page[p]]
    /\ Warn(work[w].seen, GenOf[w])
    /\ generation' = GenOf[w]
    /\ Goto(w, "finish")
    /\ UNCHANGED <<usable, jobs>>

\* finish_job, a transaction of its own; without the token it raises out of the
\* worker loop and the process is started again.
Finish(w) ==
    /\ work[w].pc = "finish"
    /\ \/ /\ Holds(w)
          /\ jobs' = Ended(work[w].job)
       \/ ~HoldsLive(w) /\ UNCHANGED jobs
    /\ work' = [work EXCEPT ![w] = Idle]
    /\ UNCHANGED <<usable, generation, page, warnings>>

-----------------------------------------------------------------------------
(* page.enable. *)

ReadEnable(w) ==
    LET p == Mine(w).page
    IN  /\ work[w].pc = "read" /\ Mine(w).kind = "enable"
        /\ Goto(w, IF ~HoldsLive(w) \/ ~Owns(w) THEN "fail"
                   ELSE IF page[p].content THEN "check" ELSE "convert")
        /\ UNCHANGED rows

Convert(w) ==
    /\ work[w].pc = "convert" /\ MayWrite(w)
    /\ page' = [page EXCEPT ![Mine(w).page].content = @ \/ Owns(w)]
    /\ Goto(w, "check")
    /\ UNCHANGED <<usable, generation, warnings, jobs>>

\* The warnings are replaced before the page is drawn, and again with its fonts.
CheckHidden(w) ==
    /\ work[w].pc \in {"check", "warn"} /\ MayWrite(w)
    /\ Warn({Mine(w).page}, GenOf[w])
    /\ Goto(w, IF work[w].pc = "check" THEN "draw" ELSE "activate")
    /\ UNCHANGED <<usable, generation, page, jobs>>

\* A render is reused when its key, and so its configuration, is the same.
\* Mutant: any render that is on record is.
AnyRender(w) == Owns(w) /\ page[Mine(w).page].render # {}
Reusable(w) ==
    Owns(w) /\ \E g \in page[Mine(w).page].render : Config[g] = Config[GenOf[w]]

Draw(w) ==
    LET p == Mine(w).page
    IN  /\ work[w].pc = "draw"
        /\ \/ Reusable(w) /\ Holds(w) /\ UNCHANGED page
           \/ /\ ~Reusable(w) /\ MayWrite(w)
              /\ page' = [page EXCEPT ![p].render = IF Owns(w) THEN {GenOf[w]} ELSE @]
        /\ Goto(w, "warn")
        /\ UNCHANGED <<usable, generation, warnings, jobs>>

\* Mutant: the page is made visible and its job ended by two transactions.
ActivateOnly(w) ==
    /\ work[w].pc = "activate" /\ MayWrite(w)
    /\ page' = [page EXCEPT ![Mine(w).page].enabled = TRUE]
    /\ Goto(w, "finish")
    /\ UNCHANGED <<usable, generation, warnings, jobs>>

\* The page and the end of its job become visible together.
Activate(w) ==
    /\ work[w].pc = "activate" /\ MayWrite(w)
    /\ page' = [page EXCEPT ![Mine(w).page].enabled = TRUE]
    /\ jobs' = Ended(work[w].job)
    /\ work' = [work EXCEPT ![w] = Idle]
    /\ UNCHANGED <<usable, generation, warnings>>

-----------------------------------------------------------------------------
(* Failures, crashes and time. *)

\* fail_rerender_job, fail_hidden_page_job: again later, or for good; then what a
\* failed enablement left on its page is taken back.  Without the token nothing.
Fail(w) ==
    LET i == work[w].job
        again == work[w].pc = "retry"
    IN  /\ work[w].pc \in {"fail", "retry"}
        /\ \/ /\ Holds(w)
              /\ jobs' = IF again
                         THEN [jobs EXCEPT ![i].status = "queued", ![i].timer = "none"]
                         ELSE Ended(i)
              /\ page' = IF again \/ Mine(w).kind = "rerender" THEN page ELSE Cleared(i)
           \/ ~HoldsLive(w) /\ UNCHANGED <<jobs, page>>
        /\ work' = [work EXCEPT ![w] = Idle]
        /\ UNCHANGED <<usable, generation, warnings>>

\* A checkpoint extends the lease, also one that has just lapsed.
Renew(w) ==
    /\ work[w].pc \notin {"fail", "retry", "finish"}
    /\ Holds(w) /\ Mine(w).timer = "lapsed"
    /\ jobs' = [jobs EXCEPT ![work[w].job].timer = "lease"]
    /\ UNCHANGED <<usable, generation, page, warnings, work>>

Lapse(i) ==
    /\ jobs[i].timer = "lease"
    /\ jobs' = [jobs EXCEPT ![i].timer = "lapsed"]
    /\ UNCHANGED <<usable, generation, page, warnings, work>>

Crash(w) ==
    /\ work[w].job # 0
    /\ work' = [work EXCEPT ![w] = Idle]
    /\ UNCHANGED rows

Rerender(w) == ReadRerender(w) \/ AuditRerender(w) \/ CommitRerender(w) \/ Finish(w)
\* The fingerprint follows the last warnings; its failure is one of "activate".
EnablePage(w) ==
    \/ ReadEnable(w) \/ Convert(w) \/ CheckHidden(w)
    \/ Draw(w) \/ Activate(w)
WorkerLoop(w) ==
    \/ EnqueueStale(w) \/ Claim(w) \/ Rerender(w) \/ EnablePage(w) \/ Refused(w) \/ Fail(w)

Next ==
    \/ ChangeUsable
    \/ \E w \in Workers, p \in Hidden : AcceptEnablement(w, p)
    \/ \E w \in Workers :
          WorkerLoop(w) \/ StageError(w) \/ Renew(w) \/ Crash(w)
    \/ \E i \in DOMAIN jobs : Lapse(i)

Spec == Init /\ [][Next]_vars

-----------------------------------------------------------------------------
(* Properties. *)

\* Types; a page's job is one of this page, a job never has more attempts than it may,
\* and only a job that runs has a lease.
TypeOK ==
    /\ usable \in BOOLEAN
    /\ generation \in {0} \cup Generations
    /\ page \in [Pages -> [enabled : BOOLEAN, content : BOOLEAN,
                          render : SUBSET ({0} \cup Generations), owner : 0..Len(jobs)]]
    /\ warnings \in [Pages -> SUBSET ({0} \cup Generations)]
    /\ jobs \in Seq([kind : {"enable", "rerender"}, page : Pages \cup {0},
                     generation : Generations, status : Active \cup {"ended"},
                     attempts : 0..MaxAttempts, timer : {"none", "lease", "lapsed"}])
    /\ work \in [Workers -> [pc : Places, job : 0..Len(jobs), attempt : 0..MaxAttempts,
                             seen : SUBSET Pages]]
    /\ \A p \in Pages : page[p].owner # 0 => jobs[page[p].owner].page = p
    /\ \A i \in DOMAIN jobs : jobs[i].status = "running" <=> jobs[i].timer # "none"

\* The version and the renders of its pages only move on to later generations: an
\* old service that is still at work never undoes what a newer one has done
\* (_assert_latest_render_generation and the WHERE of the last UPDATE).
NoDowngrade ==
    [][ /\ generation' >= generation
        /\ \A p \in Pages : page[p].enabled =>
             \A g \in page[p].render, h \in page'[p].render : h >= g ]_vars

\* A page that has been enabled stays enabled and complete: neither a late failure
\* nor an exhausted attempt of its job takes the results of a visible page back.
EnabledForGood ==
    [][\A p \in Pages : page[p].enabled => (page'[p].enabled /\ Complete(p)')]_vars

\* What becomes visible was rendered by the configuration the version has at that
\* moment, whatever earlier and cancelled jobs have left on the page.
EnabledAsConfigured ==
    [][\A p \in Pages : ~page[p].enabled /\ page'[p].enabled =>
          /\ usable
          /\ \A g \in page'[p].render : Config[g] = Config[generation]]_vars

\* Unless a later generation has been asked for, every visible page with a render
\* of the version's configuration shows the warnings of that configuration, so
\* that publication waits until they are confirmed.
WarningsAreShown ==
    (\A i \in Reruns : jobs[i].generation <= generation) =>
        \A p \in EnabledPages :
            (\A g \in page[p].render : Config[g] = Config[generation])
                => \E g \in warnings[p] : Config[g] = Config[generation]

\* Every visible page of a version was rendered by the configuration that the
\* version names: a changed configuration invalidates all renders.
RendersMatchVersion ==
    \A p \in EnabledPages : \A g \in page[p].render : Config[g] = Config[generation]
=============================================================================
