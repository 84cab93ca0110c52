------------------------ MODULE RenderGenerationProofs ------------------------
(***************************************************************************)
(* Proofs about RenderGeneration, for every set of processes and pages,    *)
(* every assignment of generations and configurations, and every limit on  *)
(* attempts and jobs.                                                      *)
(***************************************************************************)
EXTENDS RenderGeneration, SequenceTheorems, TLAPS

\* A page has one render, and none of a later generation than the version.
RendersAreOld ==
    \A p \in Pages : \A g \in page[p].render :
        g <= generation /\ \A h \in page[p].render : g = h

\* The job that made a page visible is over, so no failure of it clears the page.
EnabledIsDone ==
    \A p \in Pages : page[p].enabled =>
        /\ Complete(p)
        /\ page[p].owner # 0 => jobs[page[p].owner].status = "ended"

\* What a process remembers was issued, for a job of its generation.
ClaimsWereIssued ==
    \A w \in Workers : work[w].job # 0 =>
        /\ Mine(w).generation = GenOf[w]
        /\ Mine(w).status \in Active => work[w].attempt <= Mine(w).attempts

\* What an attempt is about to activate has a render of its configuration.
DrawnAsConfigured ==
    \A w \in Workers :
        work[w].pc \in {"warn", "activate"} /\ Holds(w) /\ Mine(w).page \in Pages /\ Owns(w) =>
            \A g \in page[Mine(w).page].render : Config[g] = Config[GenOf[w]]

\* The inductive invariant.
RenderInv ==
    /\ TypeOK
    /\ RendersAreOld
    /\ EnabledIsDone
    /\ ClaimsWereIssued
    /\ DrawnAsConfigured

-----------------------------------------------------------------------------
(* Types. *)

Cfgs == {0} \cup Generations
PageRows(n) == [enabled : BOOLEAN, content : BOOLEAN, render : SUBSET Cfgs, owner : 0..n]
JobRows == [kind : {"enable", "rerender"}, page : Pages \cup {0}, generation : Generations,
            status : Active \cup {"ended"}, attempts : 0..MaxAttempts,
            timer : {"none", "lease", "lapsed"}]
WorkRows(n) == [pc : Places, job : 0..n, attempt : 0..MaxAttempts, seen : SUBSET Pages]

OwnersMatch == \A p \in Pages : page[p].owner # 0 => jobs[page[p].owner].page = p
TimersRun == \A i \in DOMAIN jobs : jobs[i].status = "running" <=> jobs[i].timer # "none"

LEMMA Types ==
    TypeOK <=>
        /\ usable \in BOOLEAN /\ generation \in Cfgs
        /\ page \in [Pages -> PageRows(Len(jobs))]
        /\ warnings \in [Pages -> SUBSET Cfgs]
        /\ jobs \in Seq(JobRows)
        /\ work \in [Workers -> WorkRows(Len(jobs))]
        /\ OwnersMatch /\ TimersRun
  BY DEF TypeOK, Cfgs, PageRows, JobRows, WorkRows, OwnersMatch, TimersRun

LEMMA TypesNext ==
    ASSUME usable' \in BOOLEAN, generation' \in Cfgs,
           page' \in [Pages -> PageRows(Len(jobs'))],
           warnings' \in [Pages -> SUBSET Cfgs],
           jobs' \in Seq(JobRows),
           work' \in [Workers -> WorkRows(Len(jobs'))],
           OwnersMatch', TimersRun'
    PROVE  TypeOK'
  BY DEF TypeOK, Cfgs, PageRows, JobRows, WorkRows, OwnersMatch, TimersRun

LEMMA GenType == \A w \in Workers : GenOf[w] \in Generations /\ GenOf[w] \in Nat
  BY RenderAssumption DEF Generations

LEMMA CfgsNat == Cfgs \subseteq Nat
  BY RenderAssumption DEF Cfgs, Generations

LEMMA AttemptsNat == 0..MaxAttempts \subseteq Nat
  BY RenderAssumption

LEMMA IdleType == ASSUME NEW n \in Nat PROVE Idle \in WorkRows(n)
  BY RenderAssumption DEF Idle, WorkRows, Places

\* A sequence rewritten place by place.
LEMMA Rewritten ==
    ASSUME NEW S, NEW s \in Seq(S), NEW f \in [DOMAIN s -> S]
    PROVE  f \in Seq(S) /\ Len(f) = Len(s) /\ DOMAIN f = DOMAIN s
<1>1. DOMAIN s = 1..Len(s) /\ Len(s) \in Nat
  OBVIOUS
<1>2. f \in Seq(S)
  BY <1>1
<1> QED
  BY <1>1, <1>2

LEMMA NewJobType ==
    ASSUME NEW k \in {"enable", "rerender"}, NEW p \in Pages \cup {0}, NEW g \in Generations
    PROVE  NewJob(k, p, g) \in JobRows
  BY RenderAssumption DEF NewJob, JobRows, Active

-----------------------------------------------------------------------------
(* What a step does to jobs. *)

\* A job keeps what it is about and never comes back; it runs on as it was, or is
\* claimed and counts an attempt.
Moves(a, b) ==
    /\ b.kind = a.kind /\ b.page = a.page /\ b.generation = a.generation
    /\ b.status = "running" <=> b.timer # "none"
    /\ b.status \in Active => a.status \in Active /\ a.attempts <= b.attempts
    /\ b.status = "running" => \/ a.status = "running" /\ a.attempts = b.attempts
                              \/ b.attempts = a.attempts + 1

JobsMove ==
    /\ jobs' \in Seq(JobRows)
    /\ Len(jobs') \in {Len(jobs), Len(jobs) + 1}
    /\ \A i \in DOMAIN jobs : Moves(jobs[i], jobs'[i])
    /\ TimersRun'

LEMMA JobsStay == ASSUME TypeOK, UNCHANGED jobs PROVE JobsMove
<1>1. jobs \in Seq(JobRows) /\ TimersRun
  BY Types
<1>2. \A i \in DOMAIN jobs : jobs[i] \in JobRows
  BY <1>1
<1> QED
  BY <1>1, <1>2 DEF JobsMove, TimersRun, Moves, JobRows, Active

LEMMA JobsRewritten ==
    ASSUME TypeOK, NEW f \in [DOMAIN jobs -> JobRows], jobs' = f,
           \A i \in DOMAIN jobs : Moves(jobs[i], f[i])
    PROVE  JobsMove /\ Len(jobs') = Len(jobs)
<1>1. jobs \in Seq(JobRows)
  BY Types
<1>2. f \in Seq(JobRows) /\ Len(f) = Len(jobs) /\ DOMAIN f = DOMAIN jobs
  BY <1>1, Rewritten
<1> QED
  BY <1>1, <1>2 DEF JobsMove, TimersRun, Moves

LEMMA JobsAppended ==
    ASSUME TypeOK, NEW f \in [DOMAIN jobs -> JobRows], NEW n \in JobRows,
           jobs' = Append(f, n), n.status = "queued", n.timer = "none",
           \A i \in DOMAIN jobs : Moves(jobs[i], f[i])
    PROVE  /\ JobsMove /\ Len(jobs') = Len(jobs) + 1
           /\ jobs'[Len(jobs) + 1] = n
           /\ \A i \in DOMAIN jobs : jobs'[i] = f[i]
<1>1. jobs \in Seq(JobRows)
  BY Types
<1>2. f \in Seq(JobRows) /\ Len(f) = Len(jobs) /\ DOMAIN f = DOMAIN jobs
  BY <1>1, Rewritten
<1>3. /\ jobs' \in Seq(JobRows) /\ Len(jobs') = Len(jobs) + 1
      /\ jobs'[Len(jobs) + 1] = n /\ \A i \in DOMAIN jobs : jobs'[i] = f[i]
  BY <1>1, <1>2
<1>4. TimersRun'
  BY <1>1, <1>2, <1>3 DEF TimersRun, Moves
<1> QED
  BY <1>3, <1>4 DEF JobsMove

LEMMA SameMoves ==
    ASSUME TypeOK, NEW i \in DOMAIN jobs
    PROVE  jobs[i] \in JobRows /\ Moves(jobs[i], jobs[i])
<1>1. jobs[i] \in JobRows /\ TimersRun
  BY Types
<1> QED
  BY <1>1 DEF TimersRun, Moves, JobRows

LEMMA EndedMoves ==
    ASSUME TypeOK, NEW i \in DOMAIN jobs
    PROVE  /\ Ended(i) \in [DOMAIN jobs -> JobRows]
           /\ \A k \in DOMAIN jobs : k # i => Ended(i)[k] = jobs[k]
           /\ Ended(i)[i].status = "ended"
           /\ \A k \in DOMAIN jobs : Moves(jobs[k], Ended(i)[k])
<1>1. \A k \in DOMAIN jobs : jobs[k] \in JobRows /\ Moves(jobs[k], jobs[k])
  BY SameMoves
<1>2. Ended(i) = [k \in DOMAIN jobs |-> IF k = i
                   THEN [jobs[i] EXCEPT !.status = "ended", !.attempts = 0, !.timer = "none"]
                   ELSE jobs[k]]
  BY Types DEF Ended
<1>3. [jobs[i] EXCEPT !.status = "ended", !.attempts = 0, !.timer = "none"] \in JobRows
  <2>1. jobs[i] \in JobRows /\ 0 \in 0..MaxAttempts
    BY <1>1, RenderAssumption
  <2> QED
    BY <2>1 DEF JobRows
<1>4. Moves(jobs[i], [jobs[i] EXCEPT !.status = "ended", !.attempts = 0, !.timer = "none"])
  BY <1>1 DEF JobRows, Moves, Active
<1> QED
  <2>1. \A k \in DOMAIN jobs : Ended(i)[k] \in JobRows
    BY <1>1, <1>2, <1>3
  <2>2. Ended(i)[i].status = "ended"
    BY <1>1, <1>2 DEF JobRows
  <2>3. \A k \in DOMAIN jobs : k # i => Ended(i)[k] = jobs[k]
    BY <1>2
  <2>4. \A k \in DOMAIN jobs : Moves(jobs[k], Ended(i)[k])
    <3>1. Moves(jobs[i], Ended(i)[i])
      BY <1>2, <1>4
    <3> QED
      BY <1>1, <2>3, <3>1
  <2> QED
    BY <1>2, <2>1, <2>2, <2>3, <2>4

-----------------------------------------------------------------------------
(* What a step does to pages and to processes. *)

\* A page keeps its render, loses it, or gets one of the version's generation, because
\* it is visible or by its own job; it gets another job while it is hidden; once
\* visible and complete it stays so; and it becomes visible with the end of its job.
PageMoves(p) ==
    LET a == page[p]
        b == page'[p]
    IN  /\ b \in PageRows(Len(jobs'))
        /\ \/ b.render = a.render \/ b.render = {}
           \/ /\ b.render = {generation'}
              /\ \/ a.enabled
                 \/ a.owner # 0 /\ jobs[a.owner].generation = generation'
        /\ \/ b.owner = a.owner
           \/ ~a.enabled /\ b.owner = Len(jobs) + 1 /\ b.owner = Len(jobs') /\ jobs'[b.owner].page = p
        /\ a.enabled => b.enabled /\ b.content /\ b.render # {} /\ b.owner = a.owner
        /\ ~a.enabled /\ b.enabled =>
             /\ b.content /\ b.render # {}
             /\ b.owner = a.owner /\ a.owner # 0 /\ jobs'[a.owner].status = "ended"
             /\ usable /\ \A g \in b.render : Config[g] = Config[generation]

\* A process forgets its job, goes on with it, or claims one.
Drawing == {"warn", "activate"}
Drawn(v) ==
    Mine(v).page \in Pages /\ Owns(v) =>
        \A g \in page'[Mine(v).page].render : Config[g] = Config[GenOf[v]]
ProcessMoves(v) ==
    LET a == work[v]
        b == work'[v]
    IN  /\ b \in WorkRows(Len(jobs'))
        /\ \/ b.job = 0
           \/ /\ b.job = a.job /\ b.attempt = a.attempt
              /\ b.pc \in Drawing => a.pc \in Drawing \/ Drawn(v)
           \/ /\ b.pc = "read" /\ b.job \in DOMAIN jobs
              /\ jobs[b.job].generation = GenOf[v] /\ jobs'[b.job].attempts = b.attempt

Step ==
    /\ usable' \in BOOLEAN
    /\ generation' \in Cfgs /\ generation <= generation'
    /\ warnings' \in [Pages -> SUBSET Cfgs]
    /\ JobsMove
    /\ page' \in [Pages -> PageRows(Len(jobs'))] /\ \A p \in Pages : PageMoves(p)
    /\ work' \in [Workers -> WorkRows(Len(jobs'))] /\ \A v \in Workers : ProcessMoves(v)

LEMMA PageStays ==
    ASSUME RenderInv, JobsMove, NEW p \in Pages, page'[p] = page[p]
    PROVE  PageMoves(p)
<1>1. page[p] \in PageRows(Len(jobs)) /\ Len(jobs) \in Nat /\ Len(jobs') \in {Len(jobs), Len(jobs) + 1}
  BY Types DEF RenderInv, JobsMove
<1>2. PageRows(Len(jobs)) \subseteq PageRows(Len(jobs'))
  BY <1>1 DEF PageRows
<1>3. page[p].enabled => page[p].content /\ page[p].render # {}
  BY DEF RenderInv, EnabledIsDone, Complete
<1> QED
  BY <1>1, <1>2, <1>3 DEF PageMoves

LEMMA PagesStay ==
    ASSUME RenderInv, JobsMove, UNCHANGED page
    PROVE  page' \in [Pages -> PageRows(Len(jobs'))] /\ \A p \in Pages : PageMoves(p)
<1>1. \A p \in Pages : PageMoves(p)
  BY PageStays
<1>2. page' \in [Pages -> PageRows(Len(jobs'))]
  BY <1>1, Types DEF RenderInv, PageMoves
<1> QED
  BY <1>1, <1>2

LEMMA ProcessStays ==
    ASSUME RenderInv, JobsMove, NEW v \in Workers, work'[v] = work[v]
    PROVE  ProcessMoves(v)
<1>1. work[v] \in WorkRows(Len(jobs)) /\ Len(jobs) \in Nat /\ Len(jobs') \in {Len(jobs), Len(jobs) + 1}
  BY Types DEF RenderInv, JobsMove
<1>2. WorkRows(Len(jobs)) \subseteq WorkRows(Len(jobs'))
  BY <1>1 DEF WorkRows
<1> QED
  BY <1>1, <1>2 DEF ProcessMoves

LEMMA OneProcess ==
    ASSUME RenderInv, JobsMove, NEW w \in Workers, NEW r, work' = [work EXCEPT ![w] = r],
           ProcessMoves(w)
    PROVE  work' \in [Workers -> WorkRows(Len(jobs'))] /\ \A v \in Workers : ProcessMoves(v)
<1>1. work \in [Workers -> WorkRows(Len(jobs))]
  BY Types DEF RenderInv
<1>2. \A v \in Workers \ {w} : work'[v] = work[v]
  BY <1>1
<1>3. \A v \in Workers : ProcessMoves(v)
  BY <1>2, ProcessStays
<1>4. \A v \in Workers : work'[v] \in WorkRows(Len(jobs'))
  BY <1>3 DEF ProcessMoves
<1> QED
  BY <1>1, <1>3, <1>4

LEMMA ProcessesStay ==
    ASSUME RenderInv, JobsMove, UNCHANGED work
    PROVE  work' \in [Workers -> WorkRows(Len(jobs'))] /\ \A v \in Workers : ProcessMoves(v)
<1>1. \A v \in Workers : ProcessMoves(v)
  BY ProcessStays
<1>2. work' \in [Workers -> WorkRows(Len(jobs'))]
  BY <1>1, Types DEF RenderInv, ProcessMoves
<1> QED
  BY <1>1, <1>2

LEMMA ProcessIdles ==
    ASSUME RenderInv, JobsMove, NEW w \in Workers, work' = [work EXCEPT ![w] = Idle]
    PROVE  work' \in [Workers -> WorkRows(Len(jobs'))] /\ \A v \in Workers : ProcessMoves(v)
<1>1. work \in [Workers -> WorkRows(Len(jobs))] /\ Len(jobs') \in Nat
  BY Types DEF RenderInv, JobsMove
<1>2. work'[w] = Idle /\ Idle \in WorkRows(Len(jobs')) /\ Idle.job = 0
  BY <1>1, IdleType DEF Idle
<1>3. ProcessMoves(w)
  BY <1>2 DEF ProcessMoves
<1> QED
  BY <1>3, OneProcess

LEMMA ProcessGoes ==
    ASSUME RenderInv, JobsMove, NEW w \in Workers, NEW pc \in Places, NEW S \in SUBSET Pages,
           work' = [work EXCEPT ![w].pc = pc] \/ work' = [work EXCEPT ![w].pc = pc, ![w].seen = S],
           pc \in Drawing => work[w].pc \in Drawing \/ Drawn(w)
    PROVE  work' \in [Workers -> WorkRows(Len(jobs'))] /\ \A v \in Workers : ProcessMoves(v)
<1>1. /\ work \in [Workers -> WorkRows(Len(jobs))] /\ Len(jobs) \in Nat
      /\ Len(jobs') \in {Len(jobs), Len(jobs) + 1}
  BY Types DEF RenderInv, JobsMove
<1>2. work[w] \in WorkRows(Len(jobs'))
  BY <1>1 DEF WorkRows
<1>3. /\ work'[w].pc = pc /\ work'[w].job = work[w].job /\ work'[w].attempt = work[w].attempt
      /\ work'[w] \in WorkRows(Len(jobs'))
  BY <1>1, <1>2 DEF WorkRows
<1>4. ProcessMoves(w)
  BY <1>3 DEF ProcessMoves
<1>5. work' = [work EXCEPT ![w] = work'[w]]
  BY <1>1
<1> QED
  BY <1>4, <1>5, OneProcess

-----------------------------------------------------------------------------
(* A step of this kind preserves the invariant. *)

LEMMA StepKeepsTypes == ASSUME RenderInv, Step PROVE TypeOK'
<1>1. OwnersMatch'
  <2> SUFFICES ASSUME NEW p \in Pages, page'[p].owner # 0 PROVE jobs'[page'[p].owner].page = p
    BY DEF OwnersMatch
  <2>1. page[p] \in PageRows(Len(jobs)) /\ jobs \in Seq(JobRows) /\ OwnersMatch
    BY Types DEF RenderInv
  <2>2. page'[p].owner = page[p].owner => page[p].owner \in DOMAIN jobs
    BY <2>1 DEF PageRows
  <2> QED
    BY <2>1, <2>2 DEF Step, PageMoves, JobsMove, Moves, OwnersMatch
<1> QED
  BY <1>1, TypesNext DEF Step, JobsMove

LEMMA StepKeepsRenders == ASSUME RenderInv, Step PROVE RendersAreOld'
<1> SUFFICES ASSUME NEW p \in Pages
             PROVE  \A g \in page'[p].render : g <= generation' /\ \A h \in page'[p].render : g = h
  BY DEF RendersAreOld
<1>1. page[p].render \subseteq Nat /\ generation \in Nat /\ generation' \in Nat /\ generation <= generation'
  BY Types, CfgsNat DEF RenderInv, PageRows, Step
<1> QED
  BY <1>1 DEF Step, PageMoves, RenderInv, RendersAreOld

LEMMA StepKeepsEnabled == ASSUME RenderInv, Step PROVE EnabledIsDone'
<1> SUFFICES ASSUME NEW p \in Pages, page'[p].enabled
             PROVE  /\ page'[p].content /\ page'[p].render # {}
                    /\ page'[p].owner # 0 => jobs'[page'[p].owner].status = "ended"
  BY DEF EnabledIsDone, Complete
<1>1. page[p] \in PageRows(Len(jobs)) /\ jobs \in Seq(JobRows) /\ jobs' \in Seq(JobRows)
  BY Types DEF RenderInv, Step, JobsMove
<1>2. CASE page[p].enabled
  <2>1. page'[p].owner = page[p].owner /\ page'[p].content /\ page'[p].render # {}
    BY <1>2 DEF Step, PageMoves
  <2>2. ASSUME page[p].owner # 0 PROVE jobs'[page[p].owner].status = "ended"
    <3>1. page[p].owner \in DOMAIN jobs /\ jobs[page[p].owner].status = "ended"
      BY <1>1, <1>2, <2>2 DEF PageRows, RenderInv, EnabledIsDone
    <3>2. jobs'[page[p].owner] \in JobRows
      BY <1>1, <3>1 DEF Step, JobsMove
    <3> QED
      BY <3>1, <3>2 DEF Step, JobsMove, Moves, JobRows, Active
  <2> QED
    BY <2>1, <2>2
<1>3. CASE ~page[p].enabled
  BY <1>3 DEF Step, PageMoves
<1> QED
  BY <1>2, <1>3

LEMMA StepKeepsClaims == ASSUME RenderInv, Step PROVE ClaimsWereIssued'
<1> SUFFICES ASSUME NEW w \in Workers, work'[w].job # 0
             PROVE  /\ jobs'[work'[w].job].generation = GenOf[w]
                    /\ jobs'[work'[w].job].status \in Active =>
                         work'[w].attempt <= jobs'[work'[w].job].attempts
  BY DEF ClaimsWereIssued, Mine
<1>1. /\ work[w] \in WorkRows(Len(jobs)) /\ jobs \in Seq(JobRows) /\ jobs' \in Seq(JobRows)
      /\ Len(jobs) <= Len(jobs') /\ work'[w] \in WorkRows(Len(jobs'))
  BY Types DEF RenderInv, Step, JobsMove
<1>2. CASE work'[w].job = work[w].job /\ work'[w].attempt = work[w].attempt
  <2>1. work[w].job \in DOMAIN jobs
    BY <1>1, <1>2 DEF WorkRows
  <2>2. jobs[work[w].job] \in JobRows /\ jobs'[work[w].job] \in JobRows
    BY <1>1, <2>1
  <2>3. Moves(jobs[work[w].job], jobs'[work[w].job])
    BY <2>1 DEF Step, JobsMove
  <2>4. /\ jobs[work[w].job].generation = GenOf[w]
        /\ jobs[work[w].job].status \in Active => work[w].attempt <= jobs[work[w].job].attempts
    BY <1>2 DEF RenderInv, ClaimsWereIssued, Mine
  <2>5. work[w].attempt \in Nat /\ jobs[work[w].job].attempts \in Nat /\ jobs'[work[w].job].attempts \in Nat
    <3>1. work[w].attempt \in 0..MaxAttempts
      BY <1>1 DEF WorkRows
    <3>2. jobs[work[w].job].attempts \in 0..MaxAttempts /\ jobs'[work[w].job].attempts \in 0..MaxAttempts
      BY <2>2 DEF JobRows
    <3> QED
      BY <3>1, <3>2, AttemptsNat
  <2> QED
    BY <1>2, <2>3, <2>4, <2>5 DEF Moves
<1>3. CASE /\ work'[w].job \in DOMAIN jobs /\ jobs[work'[w].job].generation = GenOf[w]
           /\ jobs'[work'[w].job].attempts = work'[w].attempt
  <2>1. work'[w].attempt \in Nat
    BY <1>1, RenderAssumption DEF WorkRows
  <2> QED
    BY <1>3, <2>1 DEF Step, JobsMove, Moves
<1> QED
  BY <1>2, <1>3 DEF Step, ProcessMoves

LEMMA StepKeepsDrawn == ASSUME RenderInv, Step PROVE DrawnAsConfigured'
<1> SUFFICES ASSUME NEW w \in Workers, work'[w].pc \in Drawing, Holds(w)',
                    Mine(w)'.page \in Pages, Owns(w)',
                    NEW g \in page'[Mine(w)'.page].render
             PROVE  Config[g] = Config[GenOf[w]]
  BY DEF DrawnAsConfigured, Drawing
<1> DEFINE i == work[w].job
           p == Mine(w).page
<1>0. /\ work[w] \in WorkRows(Len(jobs)) /\ jobs \in Seq(JobRows) /\ jobs' \in Seq(JobRows)
      /\ page[p] \in PageRows(Len(jobs)) \/ p \notin Pages
      /\ Len(jobs) <= Len(jobs') /\ work'[w] \in WorkRows(Len(jobs'))
  BY Types DEF RenderInv, Step, JobsMove
<1>1. work'[w].job = i /\ work'[w].attempt = work[w].attempt /\ i # 0
  BY DEF Step, ProcessMoves, Drawing, Holds
<1>2. i \in DOMAIN jobs /\ i \in DOMAIN jobs'
  BY <1>0, <1>1 DEF WorkRows
<1>3. Moves(jobs[i], jobs'[i]) /\ jobs[i] \in JobRows /\ jobs'[i] \in JobRows
  BY <1>0, <1>2 DEF Step, JobsMove
<1>4. Mine(w)' = jobs'[i] /\ Mine(w) = jobs[i] /\ p \in Pages /\ Mine(w)'.page = p
  BY <1>1, <1>3 DEF Mine, Moves
<1>5. Holds(w)
  <2>1. jobs[i].status \in Active /\ work[w].attempt <= jobs[i].attempts
    BY <1>1, <1>3, <1>4 DEF Holds, Moves, Active, RenderInv, ClaimsWereIssued
  <2>2. jobs'[i].status = "running" /\ jobs'[i].attempts = work[w].attempt
    BY <1>1, <1>4 DEF Holds
  <2>3. jobs[i].attempts \in Nat
    BY <1>3, AttemptsNat DEF JobRows
  <2>4. jobs[i].status = "running" /\ jobs[i].attempts = work[w].attempt
    BY <1>3, <2>1, <2>2, <2>3 DEF Moves
  <2> QED
    BY <1>1, <1>4, <2>4 DEF Holds
<1>6. Owns(w)
  <2>1. page'[p].owner = i
    BY <1>1, <1>4 DEF Owns
  <2>2. i < Len(jobs) + 1
    BY <1>0, <1>2
  <2> QED
    BY <1>4, <2>1, <2>2 DEF Owns, Step, PageMoves
<1>7. page[p].owner = i /\ ~page[p].enabled
  <2>1. jobs[i].status = "running"
    BY <1>4, <1>5 DEF Holds
  <2> QED
    BY <1>1, <1>4, <1>6, <2>1 DEF Owns, RenderInv, EnabledIsDone
<1>8. CASE Drawn(w)
  BY <1>4, <1>6, <1>8 DEF Drawn
<1>9. CASE work[w].pc \in Drawing
  <2>1. \A h \in page[p].render : Config[h] = Config[GenOf[w]]
    BY <1>4, <1>5, <1>6, <1>9 DEF RenderInv, DrawnAsConfigured, Drawing
  <2>2. jobs[i].generation = GenOf[w]
    BY <1>1, <1>4 DEF RenderInv, ClaimsWereIssued
  <2>3. page'[p].render = page[p].render \/ page'[p].render = {} \/ page'[p].render = {GenOf[w]}
    BY <1>4, <1>7, <2>2 DEF Step, PageMoves
  <2> QED
    BY <1>4, <2>1, <2>3
<1> QED
  BY <1>1, <1>8, <1>9 DEF Step, ProcessMoves, Drawing

LEMMA StepKeepsInv == ASSUME RenderInv, Step PROVE RenderInv'
  BY StepKeepsTypes, StepKeepsRenders, StepKeepsEnabled, StepKeepsClaims, StepKeepsDrawn
  DEF RenderInv

-----------------------------------------------------------------------------
(* Every action is such a step. *)

LEMMA GenerationStays == ASSUME RenderInv PROVE generation \in Cfgs /\ generation <= generation
<1>1. generation \in Cfgs
  BY Types DEF RenderInv
<1>2. generation \in Nat
  BY <1>1, CfgsNat
<1> QED
  BY <1>1, <1>2

\* Only the processes, or the version's place in the life cycle, change.
LEMMA QuietStep ==
    ASSUME RenderInv, UNCHANGED <<generation, page, warnings, jobs>>, usable' \in BOOLEAN,
           JobsMove => work' \in [Workers -> WorkRows(Len(jobs'))] /\ \A v \in Workers : ProcessMoves(v)
    PROVE  Step
<1>1. JobsMove
  BY JobsStay DEF RenderInv
<1>2. warnings \in [Pages -> SUBSET Cfgs]
  BY Types DEF RenderInv
<1> QED
  BY <1>1, <1>2, PagesStay, GenerationStays DEF Step

LEMMA GoStep ==
    ASSUME RenderInv, NEW w \in Workers,
           Refused(w) \/ StageError(w) \/ ReadRerender(w) \/ ReadEnable(w) \/ Crash(w)
    PROVE  Step
<1>1. UNCHANGED rows /\ usable' \in BOOLEAN
  BY Types DEF RenderInv, Refused, StageError, ReadRerender, ReadEnable, Crash, rows
<1>2. EnabledPages \in SUBSET Pages
  BY DEF EnabledPages
<1>3. \/ \E pc \in Places \ Drawing, S \in SUBSET Pages :
            work' = [work EXCEPT ![w].pc = pc] \/ work' = [work EXCEPT ![w].pc = pc, ![w].seen = S]
      \/ work' = [work EXCEPT ![w] = Idle]
  <2>1. ASSUME ReadRerender(w)
        PROVE  \E pc \in Places \ Drawing, S \in SUBSET Pages : work' = [work EXCEPT ![w].pc = pc, ![w].seen = S]
    <3>1. CASE usable
      BY <1>2, <2>1, <3>1 DEF ReadRerender, Places, Drawing
    <3>2. CASE ~usable
      BY <2>1, <3>2 DEF ReadRerender, Places, Drawing
    <3> QED
      BY <3>1, <3>2
  <2>2. ASSUME Refused(w) \/ StageError(w) \/ ReadEnable(w)
        PROVE  \E pc \in Places \ Drawing : work' = [work EXCEPT ![w].pc = pc]
    BY <2>2 DEF Refused, StageError, ReadEnable, Goto, Places, Drawing
  <2> QED
    BY <2>1, <2>2 DEF Crash
<1>4. JobsMove => work' \in [Workers -> WorkRows(Len(jobs'))] /\ \A v \in Workers : ProcessMoves(v)
  BY <1>3, ProcessGoes, ProcessIdles
<1> QED
  BY <1>1, <1>4, QuietStep DEF rows

LEMMA UsableStep == ASSUME RenderInv, ChangeUsable PROVE Step
<1>1. usable' \in BOOLEAN
  BY Types DEF RenderInv, ChangeUsable
<1> QED
  BY <1>1, QuietStep, ProcessesStay DEF ChangeUsable

\* Leases lapse and are renewed.
LEMMA TimerStep ==
    ASSUME RenderInv, NEW i \in DOMAIN jobs, NEW t \in {"lease", "lapsed"}, jobs[i].timer # "none",
           jobs' = [jobs EXCEPT ![i].timer = t], UNCHANGED <<usable, generation, page, warnings, work>>
    PROVE  Step
<1>1. \A k \in DOMAIN jobs : jobs[k] \in JobRows /\ Moves(jobs[k], jobs[k])
  BY SameMoves DEF RenderInv
<1>2. [jobs[i] EXCEPT !.timer = t] \in JobRows /\ Moves(jobs[i], [jobs[i] EXCEPT !.timer = t])
  BY <1>1 DEF JobRows, Moves
<1> DEFINE f == [k \in DOMAIN jobs |-> IF k = i THEN [jobs[i] EXCEPT !.timer = t] ELSE jobs[k]]
<1>3. jobs' = f
  BY Types DEF RenderInv
<1>4. f \in [DOMAIN jobs -> JobRows] /\ \A k \in DOMAIN jobs : Moves(jobs[k], f[k])
  BY <1>1, <1>2
<1> HIDE DEF f
<1>5. JobsMove
  BY <1>3, <1>4, JobsRewritten DEF RenderInv
<1>6. usable' \in BOOLEAN /\ warnings' \in [Pages -> SUBSET Cfgs]
  BY Types DEF RenderInv
<1> QED
  BY <1>5, <1>6, PagesStay, ProcessesStay, GenerationStays DEF Step

LEMMA WarnType ==
    ASSUME RenderInv, NEW S, NEW w \in Workers, Warn(S, GenOf[w])
    PROVE  warnings' \in [Pages -> SUBSET Cfgs]
<1>1. warnings \in [Pages -> SUBSET Cfgs]
  BY Types DEF RenderInv
<1>2. {GenOf[w]} \in SUBSET Cfgs
  BY GenType DEF Cfgs
<1> QED
  BY <1>1, <1>2 DEF Warn

LEMMA WarnStep ==
    ASSUME RenderInv, NEW w \in Workers, AuditRerender(w) \/ CheckHidden(w)
    PROVE  Step
<1>1. UNCHANGED <<usable, generation, page, jobs>> /\ usable' \in BOOLEAN
  BY Types DEF RenderInv, AuditRerender, CheckHidden
<1>2. warnings' \in [Pages -> SUBSET Cfgs]
  BY WarnType DEF AuditRerender, CheckHidden
<1>3. JobsMove
  BY <1>1, JobsStay DEF RenderInv
<1>4. \E pc \in Places : /\ work' = [work EXCEPT ![w].pc = pc]
                         /\ pc \in Drawing => work[w].pc \in Drawing
  BY DEF AuditRerender, CheckHidden, Goto, Places, Drawing
<1> QED
  BY <1>1, <1>2, <1>3, <1>4, PagesStay, ProcessGoes, GenerationStays DEF Step

\* What a job that is at work stands for.
LEMMA Working ==
    ASSUME RenderInv, NEW w \in Workers, Holds(w)
    PROVE  /\ work[w].job \in DOMAIN jobs /\ Mine(w) \in JobRows
           /\ Mine(w).generation = GenOf[w] /\ Mine(w).status = "running"
           /\ work[w].job # 0
<1>1. jobs \in Seq(JobRows) /\ work[w] \in WorkRows(Len(jobs)) /\ work[w].job # 0
  BY Types DEF RenderInv, Holds
<1>2. work[w].job \in DOMAIN jobs
  BY <1>1 DEF WorkRows
<1> QED
  BY <1>1, <1>2 DEF Mine, Holds, RenderInv, ClaimsWereIssued

\* A hidden page is what an active job is about.
LEMMA OwnedIsHidden ==
    ASSUME RenderInv, NEW i \in DOMAIN jobs, jobs[i].status # "ended",
           NEW p \in Pages, page[p].owner = i
    PROVE  ~page[p].enabled /\ page[p].owner # 0
<1>1. i # 0
  BY Types DEF RenderInv
<1> QED
  BY <1>1 DEF RenderInv, EnabledIsDone

\* One page changes.
LEMMA OnePage ==
    ASSUME RenderInv, JobsMove, NEW p, \A q \in Pages \ {p} : page'[q] = page[q],
           DOMAIN page' = DOMAIN page, page' = [q \in DOMAIN page' |-> page'[q]],
           p \in Pages => PageMoves(p)
    PROVE  page' \in [Pages -> PageRows(Len(jobs'))] /\ \A q \in Pages : PageMoves(q)
<1>1. \A q \in Pages : PageMoves(q)
  BY PageStays
<1>2. DOMAIN page = Pages
  BY Types DEF RenderInv
<1>3. \A q \in Pages : page'[q] \in PageRows(Len(jobs'))
  BY <1>1 DEF PageMoves
<1> QED
  BY <1>1, <1>2, <1>3

LEMMA CommitStep == ASSUME RenderInv, NEW w \in Workers, CommitRerender(w) PROVE Step
<1>1. UNCHANGED <<usable, jobs>> /\ usable' \in BOOLEAN /\ generation' = GenOf[w]
  BY Types DEF RenderInv, CommitRerender
<1>2. warnings' \in [Pages -> SUBSET Cfgs]
  BY WarnType DEF CommitRerender
<1>3. JobsMove
  BY <1>1, JobsStay DEF RenderInv
<1>4. generation <= generation' /\ generation' \in Cfgs
  BY <1>1, GenType DEF CommitRerender, MayWrite, NotOvertaken, Cfgs
<1>5. \A p \in Pages : PageMoves(p)
  <2> SUFFICES ASSUME NEW p \in Pages PROVE PageMoves(p)
    OBVIOUS
  <2>1. CASE p \in work[w].seen /\ page[p].enabled
    <3>1. page'[p] = [page[p] EXCEPT !.render = {GenOf[w]}]
      BY <2>1 DEF CommitRerender
    <3>2. page[p] \in PageRows(Len(jobs')) /\ {GenOf[w]} \in SUBSET Cfgs
      BY <1>1, <1>4, Types DEF RenderInv
    <3>3. page[p].content
      BY <2>1 DEF RenderInv, EnabledIsDone, Complete
    <3> QED
      BY <1>1, <2>1, <3>1, <3>2, <3>3 DEF PageMoves, PageRows
  <2>2. CASE ~(p \in work[w].seen /\ page[p].enabled)
    <3>1. page'[p] = page[p]
      BY <2>2 DEF CommitRerender
    <3> QED
      BY <1>3, <3>1, PageStays
  <2> QED
    BY <2>1, <2>2
<1>6. page' \in [Pages -> PageRows(Len(jobs'))]
  BY <1>5 DEF CommitRerender, PageMoves
<1>7. work' \in [Workers -> WorkRows(Len(jobs'))] /\ \A v \in Workers : ProcessMoves(v)
  <2>1. work' = [work EXCEPT ![w].pc = "finish"]
    BY DEF CommitRerender, Goto
  <2> QED
    BY <1>3, <2>1, ProcessGoes DEF Places, Drawing
<1> QED
  BY <1>1, <1>2, <1>3, <1>4, <1>5, <1>6, <1>7 DEF Step

LEMMA ConvertStep == ASSUME RenderInv, NEW w \in Workers, Convert(w) PROVE Step
<1> DEFINE p == Mine(w).page
<1>1. UNCHANGED <<usable, generation, warnings, jobs>> /\ usable' \in BOOLEAN /\ warnings \in [Pages -> SUBSET Cfgs]
  BY Types DEF RenderInv, Convert
<1>2. JobsMove
  BY <1>1, JobsStay DEF RenderInv
<1>3. p \in Pages => PageMoves(p)
  <2> SUFFICES ASSUME p \in Pages PROVE PageMoves(p)
    OBVIOUS
  <2>1. page[p] \in PageRows(Len(jobs')) /\ Owns(w) \in BOOLEAN
    BY <1>1, Types DEF RenderInv, Owns
  <2>2. page'[p] = [page[p] EXCEPT !.content = page[p].content \/ Owns(w)]
    BY Types DEF RenderInv, Convert
  <2>3. page[p].enabled => page[p].content /\ page[p].render # {}
    BY DEF RenderInv, EnabledIsDone, Complete
  <2> QED
    BY <2>1, <2>2, <2>3 DEF PageMoves, PageRows
<1>4. page' \in [Pages -> PageRows(Len(jobs'))] /\ \A q \in Pages : PageMoves(q)
  <2>1. \A q \in Pages \ {p} : page'[q] = page[q]
    BY Types DEF RenderInv, Convert
  <2> QED
    BY <1>2, <1>3, <2>1, OnePage DEF Convert
<1>5. work' = [work EXCEPT ![w].pc = "check"]
  BY DEF Convert, Goto
<1>6. work' \in [Workers -> WorkRows(Len(jobs'))] /\ \A v \in Workers : ProcessMoves(v)
  BY <1>2, <1>5, ProcessGoes DEF Places, Drawing
<1> QED
  BY <1>1, <1>2, <1>4, <1>6, GenerationStays DEF Step

LEMMA DrawStep == ASSUME RenderInv, NEW w \in Workers, Draw(w) PROVE Step
<1> DEFINE p == Mine(w).page
<1>1. UNCHANGED <<usable, generation, warnings, jobs>> /\ usable' \in BOOLEAN /\ warnings \in [Pages -> SUBSET Cfgs]
  BY Types DEF RenderInv, Draw
<1>2. JobsMove
  BY <1>1, JobsStay DEF RenderInv
<1>3. work' = [work EXCEPT ![w].pc = "warn"] /\ Holds(w)
  BY DEF Draw, Goto, MayWrite, HoldsLive
<1>4. /\ work[w].job \in DOMAIN jobs /\ Mine(w) = jobs[work[w].job] /\ work[w].job # 0
      /\ jobs[work[w].job].generation = GenOf[w] /\ jobs[work[w].job].status = "running"
  BY <1>3, Working DEF Mine
<1>5. CASE Reusable(w) /\ UNCHANGED page
  <2>1. Drawn(w)
    <3>1. ASSUME p \in Pages PROVE \A g, h \in page[p].render : g = h
      BY <3>1 DEF RenderInv, RendersAreOld
    <3> QED
      BY <1>5, <3>1 DEF Drawn, Reusable
  <2>2. work' \in [Workers -> WorkRows(Len(jobs'))] /\ \A v \in Workers : ProcessMoves(v)
    BY <1>2, <1>3, <2>1, ProcessGoes DEF Places
  <2> QED
    BY <1>1, <1>2, <1>5, <2>2, PagesStay, GenerationStays DEF Step
<1>6. CASE /\ ~Reusable(w) /\ MayWrite(w)
           /\ page' = [page EXCEPT ![p].render = IF Owns(w) THEN {GenOf[w]} ELSE @]
  <2>1. generation = GenOf[w]
    BY <1>6 DEF Draw, MayWrite, SameGeneration, UpToDate
  <2>2. ASSUME p \in Pages
        PROVE  /\ page'[p] = [page[p] EXCEPT !.render = IF Owns(w) THEN {GenOf[w]} ELSE page[p].render]
               /\ page[p] \in PageRows(Len(jobs')) /\ {GenOf[w]} \in SUBSET Cfgs
    BY <1>1, <1>6, <2>1, <2>2, Types DEF RenderInv
  <2>3. p \in Pages => PageMoves(p)
    <3> SUFFICES ASSUME p \in Pages PROVE PageMoves(p)
      OBVIOUS
    <3>1. CASE Owns(w)
      <4>1. page[p].owner = work[w].job
        BY <3>1 DEF Owns
      <4>2. ~page[p].enabled
        BY <1>4, <4>1, OwnedIsHidden
      <4> QED
        BY <1>1, <1>4, <2>1, <2>2, <3>1, <4>1, <4>2 DEF PageMoves, PageRows
    <3>2. CASE ~Owns(w)
      <4>1. page'[p] = page[p]
        BY <2>2, <3>2 DEF PageRows
      <4> QED
        BY <1>2, <4>1, PageStays
    <3> QED
      BY <3>1, <3>2
  <2>4. Drawn(w)
    BY <2>2 DEF Drawn, PageRows
  <2>5. page' \in [Pages -> PageRows(Len(jobs'))] /\ \A q \in Pages : PageMoves(q)
    <3>1. \A q \in Pages \ {p} : page'[q] = page[q]
      BY <1>6, Types DEF RenderInv
    <3> QED
      BY <1>2, <1>6, <2>3, <3>1, OnePage
  <2>6. work' \in [Workers -> WorkRows(Len(jobs'))] /\ \A v \in Workers : ProcessMoves(v)
    BY <1>2, <1>3, <2>4, ProcessGoes DEF Places
  <2> QED
    BY <1>1, <1>2, <2>5, <2>6, GenerationStays DEF Step
<1> QED
  BY <1>5, <1>6 DEF Draw

LEMMA ActivateStep == ASSUME RenderInv, NEW w \in Workers, Activate(w) PROVE Step
<1> DEFINE p == Mine(w).page
<1>1. UNCHANGED <<usable, generation, warnings>> /\ usable' \in BOOLEAN /\ warnings \in [Pages -> SUBSET Cfgs]
  BY Types DEF RenderInv, Activate
<1>2. Holds(w) /\ Owns(w) /\ Complete(p) /\ usable /\ generation = GenOf[w] /\ work[w].pc \in Drawing
  BY DEF Activate, MayWrite, HoldsLive, SameGeneration, UpToDate, Drawing
<1>3. work[w].job \in DOMAIN jobs /\ work[w].job # 0
  BY <1>2, Working
<1>4. JobsMove /\ jobs'[work[w].job].status = "ended" /\ Len(jobs') = Len(jobs)
  <2>1. jobs' = Ended(work[w].job)
    BY DEF Activate
  <2> QED
    BY <1>3, <2>1, EndedMoves, JobsRewritten DEF RenderInv
<1>5. p \in Pages => PageMoves(p)
  <2> SUFFICES ASSUME p \in Pages PROVE PageMoves(p)
    OBVIOUS
  <2>1. page'[p] = [page[p] EXCEPT !.enabled = TRUE] /\ page[p] \in PageRows(Len(jobs'))
    BY <1>4, Types DEF RenderInv, Activate
  <2>2. page[p].owner = work[w].job
    BY <1>2 DEF Owns
  <2>3. \A g \in page[p].render : Config[g] = Config[generation]
    BY <1>2 DEF RenderInv, DrawnAsConfigured, Drawing
  <2> QED
    BY <1>1, <1>2, <1>3, <1>4, <2>1, <2>2, <2>3 DEF PageMoves, PageRows, Complete
<1>6. page' \in [Pages -> PageRows(Len(jobs'))] /\ \A q \in Pages : PageMoves(q)
  <2>1. \A q \in Pages \ {p} : page'[q] = page[q]
    BY Types DEF RenderInv, Activate
  <2> QED
    BY <1>4, <1>5, <2>1, OnePage DEF Activate
<1>7. work' \in [Workers -> WorkRows(Len(jobs'))] /\ \A v \in Workers : ProcessMoves(v)
  BY <1>4, ProcessIdles DEF Activate
<1> QED
  BY <1>1, <1>4, <1>6, <1>7, GenerationStays DEF Step

LEMMA FinishStep == ASSUME RenderInv, NEW w \in Workers, Finish(w) PROVE Step
<1>1. UNCHANGED <<usable, generation, page, warnings>> /\ usable' \in BOOLEAN /\ warnings \in [Pages -> SUBSET Cfgs]
  BY Types DEF RenderInv, Finish
<1>2. JobsMove
  <2>1. CASE Holds(w) /\ jobs' = Ended(work[w].job)
    BY <2>1, Working, EndedMoves, JobsRewritten DEF RenderInv
  <2>2. CASE UNCHANGED jobs
    BY <2>2, JobsStay DEF RenderInv
  <2> QED
    BY <2>1, <2>2 DEF Finish
<1>3. work' = [work EXCEPT ![w] = Idle]
  BY DEF Finish
<1> QED
  BY <1>1, <1>2, <1>3, PagesStay, ProcessIdles, GenerationStays DEF Step

\* Taking back the results of a job that was active.
LEMMA ClearedMoves ==
    ASSUME RenderInv, JobsMove, NEW p \in Pages, page[p].owner \in DOMAIN jobs,
           jobs[page[p].owner].status # "ended",
           page'[p] = [Blank EXCEPT !.owner = page[p].owner]
    PROVE  PageMoves(p)
<1>1. page[p].owner \in 0..Len(jobs') /\ ~page[p].enabled
  <2>1. page[p] \in PageRows(Len(jobs)) /\ Len(jobs) \in Nat /\ Len(jobs') \in {Len(jobs), Len(jobs) + 1}
    BY Types DEF RenderInv, JobsMove
  <2>2. page[p].owner \in 0..Len(jobs')
    BY <2>1 DEF PageRows
  <2> QED
    BY <2>2, OwnedIsHidden
<1> QED
  BY <1>1 DEF PageMoves, PageRows, Blank

LEMMA FailStep == ASSUME RenderInv, NEW w \in Workers, Fail(w) PROVE Step
<1> DEFINE i == work[w].job
<1>1. UNCHANGED <<usable, generation, warnings>> /\ usable' \in BOOLEAN /\ warnings \in [Pages -> SUBSET Cfgs]
  BY Types DEF RenderInv, Fail
<1>2. work' = [work EXCEPT ![w] = Idle]
  BY DEF Fail
<1>3. CASE UNCHANGED <<jobs, page>>
  <2>1. JobsMove
    BY <1>3, JobsStay DEF RenderInv
  <2> QED
    BY <1>1, <1>2, <1>3, <2>1, PagesStay, ProcessIdles, GenerationStays DEF Step
<1>4. CASE Holds(w) /\ jobs' = [jobs EXCEPT ![i].status = "queued", ![i].timer = "none"] /\ UNCHANGED page
  <2>1. \A k \in DOMAIN jobs : jobs[k] \in JobRows /\ Moves(jobs[k], jobs[k])
    BY SameMoves DEF RenderInv
  <2>2. i \in DOMAIN jobs /\ jobs[i].status = "running"
    BY <1>4, Working DEF Mine
  <2> DEFINE r == [jobs[i] EXCEPT !.status = "queued", !.timer = "none"]
             f == [k \in DOMAIN jobs |-> IF k = i THEN r ELSE jobs[k]]
  <2>3. jobs[i].attempts \in Nat
    BY <2>1, <2>2, AttemptsNat DEF JobRows
  <2>4. r \in JobRows /\ Moves(jobs[i], r)
    <3>1. jobs[i] \in JobRows /\ Moves(jobs[i], jobs[i])
      BY <2>1, <2>2
    <3>2. r \in JobRows
      BY <3>1 DEF JobRows, Active
    <3>3. /\ r.status = "queued" /\ r.timer = "none" /\ r.attempts = jobs[i].attempts
          /\ r.kind = jobs[i].kind /\ r.page = jobs[i].page /\ r.generation = jobs[i].generation
      BY <3>1 DEF JobRows
    <3> HIDE DEF r
    <3> QED
      BY <2>2, <2>3, <3>2, <3>3 DEF Moves, Active
  <2>5. jobs' = f
    BY <1>4, Types DEF RenderInv
  <2> HIDE DEF r
  <2>6. f \in [DOMAIN jobs -> JobRows] /\ \A k \in DOMAIN jobs : Moves(jobs[k], f[k])
    BY <2>1, <2>4
  <2> HIDE DEF f
  <2>7. JobsMove
    BY <2>5, <2>6, JobsRewritten DEF RenderInv
  <2> QED
    BY <1>1, <1>2, <1>4, <2>7, PagesStay, ProcessIdles, GenerationStays DEF Step
<1>5. CASE Holds(w) /\ jobs' = Ended(i) /\ page' \in {page, Cleared(i)}
  <2>1. i \in DOMAIN jobs /\ jobs[i].status = "running"
    BY <1>5, Working DEF Mine
  <2>2. JobsMove
    BY <1>5, <2>1, EndedMoves, JobsRewritten DEF RenderInv
  <2>3. CASE page' = Cleared(i)
    <3>1. \A p \in Pages : PageMoves(p)
      <4> SUFFICES ASSUME NEW p \in Pages PROVE PageMoves(p)
        OBVIOUS
      <4>1. CASE page[p].owner = i
        BY <2>1, <2>2, <2>3, <4>1, ClearedMoves DEF Cleared
      <4>2. CASE page[p].owner # i
        BY <2>2, <2>3, <4>2, PageStays DEF Cleared
      <4> QED
        BY <4>1, <4>2
    <3>2. page' \in [Pages -> PageRows(Len(jobs'))]
      BY <2>3, <3>1 DEF Cleared, PageMoves
    <3> QED
      BY <1>1, <1>2, <2>2, <3>1, <3>2, ProcessIdles, GenerationStays DEF Step
  <2> QED
    BY <1>1, <1>2, <1>5, <2>2, <2>3, PagesStay, ProcessIdles, GenerationStays DEF Step
<1> QED
  BY <1>3, <1>4, <1>5 DEF Fail

LEMMA AcceptStep ==
    ASSUME RenderInv, NEW w \in Workers, NEW p \in Hidden, AcceptEnablement(w, p)
    PROVE  Step
<1> DEFINE g == GenOf[w]
           f == [i \in DOMAIN jobs |-> IF i \in ActiveEnable(p) THEN Ended(i)[i] ELSE jobs[i]]
           n == NewJob("enable", p, g)
<1>1. /\ UNCHANGED <<usable, generation, warnings, work>> /\ usable' \in BOOLEAN
      /\ warnings \in [Pages -> SUBSET Cfgs] /\ page \in [Pages -> PageRows(Len(jobs))]
      /\ Len(jobs) \in Nat
  BY Types DEF RenderInv, AcceptEnablement
<1>2. /\ f \in [DOMAIN jobs -> JobRows]
      /\ \A i \in DOMAIN jobs : Moves(jobs[i], f[i])
  BY SameMoves, EndedMoves DEF RenderInv
<1>3. n \in JobRows /\ n.status = "queued" /\ n.timer = "none" /\ n.page = p
  <2>1. p \in Pages
    BY DEF Pages
  <2>2. n \in JobRows
    BY <2>1, GenType, NewJobType
  <2> QED
    BY <2>2 DEF NewJob
<1>4. jobs' = Append(f, n)
  BY DEF AcceptEnablement
<1> HIDE DEF f, n
<1>5. /\ JobsMove /\ Len(jobs') = Len(jobs) + 1 /\ jobs'[Len(jobs) + 1].page = p
  BY <1>2, <1>3, <1>4, JobsAppended DEF RenderInv
<1>6. p \in Pages => PageMoves(p)
  <2> SUFFICES ASSUME p \in Pages PROVE PageMoves(p)
    OBVIOUS
  <2>1. page'[p] = [page[p] EXCEPT !.owner = Len(jobs) + 1] /\ ~page[p].enabled
    BY <1>1 DEF AcceptEnablement
  <2>2. page[p] \in PageRows(Len(jobs))
    BY <1>1
  <2>3. page'[p] \in PageRows(Len(jobs'))
    BY <1>1, <1>5, <2>1, <2>2 DEF PageRows
  <2>4. /\ page'[p].owner = Len(jobs) + 1 /\ page'[p].render = page[p].render
        /\ ~page'[p].enabled
    BY <2>1, <2>2 DEF PageRows
  <2> QED
    BY <1>5, <2>1, <2>3, <2>4 DEF PageMoves
<1>7. page' \in [Pages -> PageRows(Len(jobs'))] /\ \A q \in Pages : PageMoves(q)
  <2>1. \A q \in Pages \ {p} : page'[q] = page[q]
    BY <1>1 DEF AcceptEnablement
  <2> QED
    BY <1>5, <1>6, <2>1, OnePage DEF AcceptEnablement
<1> QED
  BY <1>1, <1>5, <1>7, ProcessesStay, GenerationStays DEF Step

LEMMA EnqueueStep == ASSUME RenderInv, NEW w \in Workers, EnqueueStale(w) PROVE Step
<1> DEFINE n == NewJob("rerender", 0, GenOf[w])
<1>1. /\ UNCHANGED <<usable, generation, page, work>> /\ usable' \in BOOLEAN
      /\ warnings' \in [Pages -> SUBSET Cfgs]
  BY Types DEF RenderInv, EnqueueStale
<1>2. jobs \in [DOMAIN jobs -> JobRows] /\ \A i \in DOMAIN jobs : Moves(jobs[i], jobs[i])
  <2>1. jobs \in Seq(JobRows)
    BY Types DEF RenderInv
  <2> QED
    BY <2>1, SameMoves DEF RenderInv
<1>3. n \in JobRows
  BY GenType, NewJobType
<1>4. n.status = "queued" /\ n.timer = "none"
  BY DEF NewJob
<1>5. jobs' = Append(jobs, n)
  BY DEF EnqueueStale
<1> HIDE DEF n
<1>6. JobsMove
  BY <1>2, <1>3, <1>4, <1>5, JobsAppended DEF RenderInv
<1> QED
  BY <1>1, <1>6, PagesStay, ProcessesStay, GenerationStays DEF Step

LEMMA ClaimStep == ASSUME RenderInv, NEW w \in Workers, Claim(w) PROVE Step
<1> DEFINE f == [i \in DOMAIN jobs |-> IF i \in Exhausted THEN Ended(i)[i] ELSE jobs[i]]
<1>1. /\ UNCHANGED <<usable, generation, warnings>> /\ usable' \in BOOLEAN
      /\ warnings \in [Pages -> SUBSET Cfgs] /\ page \in [Pages -> PageRows(Len(jobs))]
      /\ jobs \in Seq(JobRows) /\ work \in [Workers -> WorkRows(Len(jobs))]
  BY Types DEF RenderInv, Claim
<1>2. /\ f \in [DOMAIN jobs -> JobRows]
      /\ \A i \in DOMAIN jobs : Moves(jobs[i], f[i])
  BY SameMoves, EndedMoves DEF RenderInv
<1>3. \A i \in DOMAIN jobs \ Exhausted : f[i] = jobs[i]
  OBVIOUS
<1>4. \/ jobs' = f /\ UNCHANGED work
      \/ \E i \in Claimable(w) :
           /\ jobs' = [f EXCEPT ![i].status = "running", ![i].timer = "lease", ![i].attempts = @ + 1]
           /\ work' = [work EXCEPT ![w] = [pc |-> "read", job |-> i, seen |-> {},
                                           attempt |-> jobs[i].attempts + 1]]
  BY DEF Claim
<1> HIDE DEF f
<1>5. JobsMove => page' \in [Pages -> PageRows(Len(jobs'))] /\ \A p \in Pages : PageMoves(p)
  <2> SUFFICES ASSUME JobsMove
               PROVE  page' \in [Pages -> PageRows(Len(jobs'))] /\ \A p \in Pages : PageMoves(p)
    OBVIOUS
  <2>1. \A p \in Pages : PageMoves(p)
    <3> SUFFICES ASSUME NEW p \in Pages PROVE PageMoves(p)
      OBVIOUS
    <3>1. CASE page[p].owner \in Exhausted
      <4>1. page'[p] = [Blank EXCEPT !.owner = page[p].owner]
        BY <3>1 DEF Claim, Cleared
      <4>2. page[p].owner \in DOMAIN jobs /\ jobs[page[p].owner].status # "ended"
        BY <3>1 DEF Exhausted
      <4> QED
        BY <4>1, <4>2, ClearedMoves
    <3>2. CASE page[p].owner \notin Exhausted
      <4>1. page'[p] = page[p]
        BY <3>2 DEF Claim
      <4> QED
        BY <4>1, PageStays
    <3> QED
      BY <3>1, <3>2
  <2> QED
    BY <2>1 DEF Claim, PageMoves
<1>6. CASE jobs' = f /\ UNCHANGED work
  <2>1. JobsMove
    BY <1>2, <1>6, JobsRewritten DEF RenderInv
  <2> QED
    BY <1>1, <1>5, <1>6, <2>1, ProcessesStay, GenerationStays DEF Step
<1>7. ASSUME NEW i \in Claimable(w),
             jobs' = [f EXCEPT ![i].status = "running", ![i].timer = "lease", ![i].attempts = @ + 1],
             work' = [work EXCEPT ![w] = [pc |-> "read", job |-> i, seen |-> {},
                                          attempt |-> jobs[i].attempts + 1]]
      PROVE  Step
  <2>1. /\ i \in DOMAIN jobs /\ i \notin Exhausted /\ jobs[i].attempts < MaxAttempts
        /\ jobs[i].generation = GenOf[w] /\ jobs[i].status \in Active
    <3>1. /\ i \in DOMAIN jobs /\ jobs[i].attempts < MaxAttempts
          /\ jobs[i].generation = GenOf[w] /\ jobs[i].status \in Active
      BY DEF Claimable, Active
    <3>2. jobs[i].attempts # MaxAttempts
      BY <1>1, <3>1, RenderAssumption DEF JobRows
    <3> QED
      BY <3>1, <3>2 DEF Exhausted
  <2>2. jobs[i] \in JobRows /\ f[i] = jobs[i]
    BY <1>1, <1>3, <2>1
  <2>3. jobs[i].attempts \in Nat /\ jobs[i].attempts + 1 \in 0..MaxAttempts
    BY <2>1, <2>2, RenderAssumption DEF JobRows
  <2> DEFINE r == [jobs[i] EXCEPT !.status = "running", !.timer = "lease",
                                  !.attempts = jobs[i].attempts + 1]
             h == [k \in DOMAIN jobs |-> IF k = i THEN r ELSE f[k]]
  <2>4. r \in JobRows
    BY <2>2, <2>3 DEF JobRows, Active
  <2>5. /\ r.status = "running" /\ r.timer = "lease" /\ r.attempts = jobs[i].attempts + 1
        /\ r.kind = jobs[i].kind /\ r.page = jobs[i].page /\ r.generation = jobs[i].generation
    BY <2>2 DEF JobRows
  <2>6. jobs' = h
    BY <1>2, <1>7, <2>1, <2>2
  <2> HIDE DEF r
  <2>7. Moves(jobs[i], r)
    BY <2>1, <2>3, <2>5 DEF Moves
  <2>8. h \in [DOMAIN jobs -> JobRows] /\ (\A k \in DOMAIN jobs : Moves(jobs[k], h[k])) /\ h[i] = r
    BY <1>2, <2>1, <2>4, <2>7
  <2> HIDE DEF h
  <2>9. JobsMove /\ Len(jobs') = Len(jobs)
    BY <2>6, <2>8, JobsRewritten DEF RenderInv
  <2>10. ProcessMoves(w)
    <3>1. work'[w] = [pc |-> "read", job |-> i, seen |-> {}, attempt |-> jobs[i].attempts + 1]
      BY <1>1, <1>7
    <3>2. work'[w] \in WorkRows(Len(jobs'))
      BY <1>1, <2>1, <2>3, <2>9, <3>1 DEF WorkRows, Places
    <3> QED
      BY <2>1, <2>5, <2>6, <2>8, <3>1, <3>2 DEF ProcessMoves
  <2>11. work' \in [Workers -> WorkRows(Len(jobs'))] /\ \A v \in Workers : ProcessMoves(v)
    BY <1>7, <2>9, <2>10, OneProcess
  <2> QED
    BY <1>1, <1>5, <2>9, <2>11, GenerationStays DEF Step
<1> QED
  BY <1>4, <1>6, <1>7

LEMMA NextIsStep == ASSUME RenderInv, [Next]_vars PROVE Step
<1>1. CASE UNCHANGED vars
  <2>1. usable' \in BOOLEAN
    BY <1>1, Types DEF RenderInv, vars, rows
  <2> QED
    BY <1>1, <2>1, QuietStep, ProcessesStay DEF vars, rows
<1>2. ASSUME NEW w \in Workers, WorkerLoop(w) \/ StageError(w) \/ Crash(w) PROVE Step
  BY <1>2, GoStep, WarnStep, CommitStep, ConvertStep, DrawStep, ActivateStep, FinishStep,
     FailStep, EnqueueStep, ClaimStep DEF WorkerLoop, Rerender, EnablePage
<1>3. ASSUME NEW w \in Workers, Renew(w) PROVE Step
  <2>1. work[w].job \in DOMAIN jobs
    BY <1>3, Working DEF Renew
  <2> QED
    BY <1>3, <2>1, TimerStep DEF Renew, Mine
<1>4. ASSUME NEW i \in DOMAIN jobs, Lapse(i) PROVE Step
  BY <1>4, TimerStep DEF Lapse
<1> QED
  BY <1>1, <1>2, <1>3, <1>4, UsableStep, AcceptStep DEF Next

LEMMA InitRenderInv == Init => RenderInv
<1> SUFFICES ASSUME Init PROVE RenderInv
  OBVIOUS
<1>1. /\ generation \in Cfgs /\ jobs = <<>> /\ jobs \in Seq(JobRows) /\ Len(jobs) = 0
      /\ \A w \in Workers : work[w] = Idle
  BY DEF Init, Cfgs
<1>2. generation \in Nat
  BY <1>1, CfgsNat
<1>3. \A p \in Pages : /\ page[p] \in PageRows(0) /\ page[p].owner = 0
                       /\ page[p].enabled => Complete(p)
                       /\ page[p].render \subseteq {generation}
  BY <1>1 DEF Init, PageRows, Blank, Complete
<1>4. TypeOK
  <2>1. page \in [Pages -> PageRows(0)]
    BY <1>3 DEF Init
  <2>2. work \in [Workers -> WorkRows(0)]
    BY IdleType DEF Init
  <2>3. warnings \in [Pages -> SUBSET Cfgs]
    BY <1>1 DEF Init
  <2>4. OwnersMatch /\ TimersRun
    BY <1>1, <1>3 DEF OwnersMatch, TimersRun
  <2>5. usable \in BOOLEAN
    BY DEF Init
  <2> QED
    BY <1>1, <2>1, <2>2, <2>3, <2>4, <2>5, Types
<1>5. RendersAreOld /\ EnabledIsDone
  BY <1>2, <1>3 DEF RendersAreOld, EnabledIsDone
<1>6. ClaimsWereIssued /\ DrawnAsConfigured
  BY <1>1 DEF ClaimsWereIssued, DrawnAsConfigured, Idle
<1> QED
  BY <1>4, <1>5, <1>6 DEF RenderInv

LEMMA RenderInductive == Spec => []RenderInv
<1>1. RenderInv /\ [Next]_vars => RenderInv'
  BY NextIsStep, StepKeepsInv
<1> QED
  BY <1>1, InitRenderInv, PTL DEF Spec

-----------------------------------------------------------------------------
(* What shows the warnings of what is visible. *)

\* No later generation has been asked for.
NoneAhead == \A i \in Reruns : jobs[i].generation <= generation

\* A process is at a stage of its job's kind.
KindsMatch ==
    \A w \in Workers :
        /\ work[w].pc # "idle" => work[w].job \in DOMAIN jobs
        /\ work[w].pc \in {"audit", "commit"} => work[w].job \in Reruns
        /\ work[w].pc \in {"convert", "check", "draw", "warn", "activate"} => work[w].job \in Enables

\* Hidden pages are enabled for the generation of the version, re-renders that are still
\* to come change its configuration.
JobsFollow ==
    /\ \A i \in Enables : jobs[i].generation <= generation
    /\ \A i \in Reruns :
         jobs[i].generation > generation => Config[jobs[i].generation] # Config[generation]

\* What a re-render has not seen was made visible for the version as it was.
UnseenAsConfigured ==
    \A w \in Workers :
        work[w].pc \in {"audit", "commit"} /\ generation < GenOf[w] =>
            \A p \in Pages \ work[w].seen : page[p].enabled =>
                \A g \in page[p].render : Config[g] = Config[generation]

\* What is about to become visible shows its warnings.
CheckedIsShown ==
    \A w \in Workers :
        /\ work[w].pc \in {"draw", "warn", "activate"}
        /\ Mine(w).page \in Pages
        /\ generation = GenOf[w]
        /\ NoneAhead
        => \E g \in warnings[Mine(w).page] : Config[g] = Config[generation]

WarningsInv ==
    /\ RenderInv
    /\ KindsMatch
    /\ JobsFollow
    /\ UnseenAsConfigured
    /\ CheckedIsShown
    /\ WarningsAreShown

Redoing == {"audit", "commit"}
Shown == {"draw", "warn", "activate"}
Enabling == {"convert", "check"} \cup Shown

\* A process comes to a stage of its job from one before it.
StageMoves(v) ==
    LET a == work[v]
        b == work'[v]
    IN  /\ b.pc # "idle" => b.job \in DOMAIN jobs
        /\ b.pc \in Redoing =>
             /\ b.job = a.job /\ a.job \in Reruns
             /\ \/ a.pc \in Redoing /\ b.seen = a.seen
                \/ EnabledPages \subseteq b.seen
        /\ b.pc \in Enabling =>
             /\ b.job = a.job /\ a.job \in Enables
             /\ b.pc \in Shown =>
                  \/ a.pc \in Shown
                  \/ Mine(v).page \in Pages => GenOf[v] \in warnings'[Mine(v).page]

LEMMA StageStays ==
    ASSUME KindsMatch, NEW v \in Workers, work'[v] = work[v]
    PROVE  StageMoves(v)
  BY DEF KindsMatch, StageMoves, Redoing, Shown, Enabling

LEMMA StageGoes ==
    ASSUME WarningsInv, NEW w \in Workers, work[w].pc # "idle", NEW pc,
           work' = [work EXCEPT ![w].pc = pc],
           pc \in Redoing => work[w].pc \in Redoing,
           pc \in Enabling => work[w].job \in Enables,
           pc \in Shown =>
             \/ work[w].pc \in Shown
             \/ Mine(w).page \in Pages => GenOf[w] \in warnings'[Mine(w).page]
    PROVE  \A v \in Workers : StageMoves(v)
<1>1. work \in [Workers -> WorkRows(Len(jobs))]
  BY Types DEF WarningsInv, RenderInv
<1>2. \A v \in Workers \ {w} : work'[v] = work[v]
  BY <1>1
<1>3. /\ work'[w].pc = pc /\ work'[w].job = work[w].job /\ work'[w].seen = work[w].seen
  BY <1>1 DEF WorkRows
<1>4. StageMoves(w)
  BY <1>3 DEF StageMoves, WarningsInv, KindsMatch, Redoing
<1> QED
  BY <1>2, <1>4, StageStays DEF WarningsInv

LEMMA StageIdles ==
    ASSUME WarningsInv, NEW w \in Workers, work' = [work EXCEPT ![w] = Idle]
    PROVE  \A v \in Workers : StageMoves(v)
<1>1. work \in [Workers -> WorkRows(Len(jobs))]
  BY Types DEF WarningsInv, RenderInv
<1>2. \A v \in Workers \ {w} : work'[v] = work[v]
  BY <1>1
<1>3. StageMoves(w)
  BY <1>1 DEF StageMoves, Idle, Redoing, Shown, Enabling
<1> QED
  BY <1>2, <1>3, StageStays DEF WarningsInv

LEMMA StagesStay ==
    ASSUME WarningsInv, UNCHANGED work
    PROVE  \A v \in Workers : StageMoves(v)
  BY StageStays DEF WarningsInv

LEMMA StagesMove == ASSUME WarningsInv, [Next]_vars PROVE \A v \in Workers : StageMoves(v)
<1>0. work \in [Workers -> WorkRows(Len(jobs))] /\ KindsMatch
  BY Types DEF WarningsInv, RenderInv
<1>1. ASSUME NEW w \in Workers, Refused(w) \/ StageError(w) PROVE \A v \in Workers : StageMoves(v)
  <2>1. work[w].pc # "idle" /\ \E pc \in {"fail", "retry"} : work' = [work EXCEPT ![w].pc = pc]
    BY <1>1 DEF Refused, StageError, Goto
  <2> QED
    BY <2>1, StageGoes DEF Redoing, Shown, Enabling
<1>2. ASSUME NEW w \in Workers, ReadRerender(w) PROVE \A v \in Workers : StageMoves(v)
  <2>1. work[w].pc = "read" /\ work[w].job \in Reruns
    BY <1>0, <1>2 DEF ReadRerender, KindsMatch, Reruns, Mine
  <2>2. \A v \in Workers \ {w} : work'[v] = work[v]
    BY <1>0, <1>2 DEF ReadRerender
  <2>3. /\ work'[w].job = work[w].job
        /\ \/ work'[w].pc = "audit" /\ work'[w].seen = EnabledPages
           \/ work'[w].pc = "finish"
    BY <1>0, <1>2 DEF ReadRerender, WorkRows
  <2>4. StageMoves(w)
    BY <2>1, <2>3 DEF StageMoves, Redoing, Shown, Enabling, Reruns
  <2> QED
    BY <1>0, <2>2, <2>4, StageStays
<1>3. ASSUME NEW w \in Workers, ReadEnable(w) PROVE \A v \in Workers : StageMoves(v)
  <2>1. work[w].pc = "read" /\ work[w].job \in Enables
    BY <1>0, <1>3 DEF ReadEnable, KindsMatch, Enables, Mine
  <2>2. \E pc \in {"fail", "check", "convert"} : work' = [work EXCEPT ![w].pc = pc]
    BY <1>3 DEF ReadEnable, Goto
  <2> QED
    BY <2>1, <2>2, StageGoes DEF Redoing, Shown
<1>4. ASSUME NEW w \in Workers, Crash(w) \/ Finish(w) \/ Fail(w) \/ Activate(w)
      PROVE  \A v \in Workers : StageMoves(v)
  BY <1>4, StageIdles DEF Crash, Finish, Fail, Activate
<1>5. ASSUME NEW w \in Workers, AuditRerender(w) \/ CommitRerender(w)
      PROVE  \A v \in Workers : StageMoves(v)
  <2>1. work[w].pc \in Redoing /\ \E pc \in {"commit", "finish"} : work' = [work EXCEPT ![w].pc = pc]
    BY <1>5 DEF AuditRerender, CommitRerender, Goto, Redoing
  <2>2. work[w].pc # "idle"
    BY <2>1 DEF Redoing
  <2> QED
    BY <2>1, <2>2, StageGoes DEF Redoing, Shown, Enabling
<1>6. ASSUME NEW w \in Workers, Convert(w) \/ Draw(w) PROVE \A v \in Workers : StageMoves(v)
  <2>1. work[w].pc \in {"convert", "draw"} /\ work[w].job \in Enables
    BY <1>0, <1>6 DEF Convert, Draw, KindsMatch
  <2>2. \/ work' = [work EXCEPT ![w].pc = "check"]
        \/ work[w].pc = "draw" /\ work' = [work EXCEPT ![w].pc = "warn"]
    BY <1>6 DEF Convert, Draw, Goto
  <2> QED
    BY <2>1, <2>2, StageGoes DEF Redoing, Shown
<1>7. ASSUME NEW w \in Workers, CheckHidden(w) PROVE \A v \in Workers : StageMoves(v)
  <2>1. work[w].pc \in {"check", "warn"} /\ work[w].job \in Enables
    BY <1>0, <1>7 DEF CheckHidden, KindsMatch
  <2>2. Mine(w).page \in Pages => GenOf[w] \in warnings'[Mine(w).page]
    BY <1>7 DEF CheckHidden, Warn
  <2>3. \E pc \in {"draw", "activate"} : work' = [work EXCEPT ![w].pc = pc]
    BY <1>7 DEF CheckHidden, Goto
  <2> QED
    BY <2>1, <2>2, <2>3, StageGoes DEF Redoing, Shown
<1>8. ASSUME NEW w \in Workers, Claim(w) PROVE \A v \in Workers : StageMoves(v)
  <2>1. CASE UNCHANGED work
    BY <2>1, StagesStay
  <2>2. ASSUME NEW i \in Claimable(w),
               work' = [work EXCEPT ![w] = [pc |-> "read", job |-> i, seen |-> {},
                                            attempt |-> jobs[i].attempts + 1]]
        PROVE  \A v \in Workers : StageMoves(v)
    <3>1. \A v \in Workers \ {w} : work'[v] = work[v]
      BY <1>0, <2>2
    <3>2. work'[w].pc = "read" /\ work'[w].job \in DOMAIN jobs
      BY <1>0, <2>2 DEF Claimable
    <3>3. StageMoves(w)
      BY <3>2 DEF StageMoves, Redoing, Shown, Enabling
    <3> QED
      BY <1>0, <3>1, <3>3, StageStays
  <2> QED
    BY <1>8, <2>1, <2>2 DEF Claim
<1>9. ASSUME UNCHANGED work PROVE \A v \in Workers : StageMoves(v)
  BY <1>9, StagesStay
<1>10. \/ \E w \in Workers : \/ Refused(w) \/ StageError(w) \/ ReadRerender(w) \/ ReadEnable(w)
                             \/ Crash(w) \/ Finish(w) \/ Fail(w) \/ Activate(w)
                             \/ AuditRerender(w) \/ CommitRerender(w) \/ Convert(w) \/ Draw(w)
                             \/ CheckHidden(w) \/ Claim(w)
       \/ UNCHANGED work
  BY DEF Next, WorkerLoop, Rerender, EnablePage, ChangeUsable, AcceptEnablement, EnqueueStale,
         Renew, Lapse, vars
<1> QED
  BY <1>1, <1>2, <1>3, <1>4, <1>5, <1>6, <1>7, <1>8, <1>9, <1>10

\* A new job enables a page for the version as it is, or changes its configuration.
NewJobs ==
    \A i \in DOMAIN jobs' \ DOMAIN jobs :
        \/ jobs'[i].kind = "enable" /\ jobs'[i].generation = generation
        \/ /\ jobs'[i].kind = "rerender" /\ jobs'[i].generation > generation
           /\ Config[jobs'[i].generation] # Config[generation]

LEMMA JobsAreNew == ASSUME RenderInv, [Next]_vars PROVE NewJobs
<1>0. jobs \in Seq(JobRows) /\ jobs' \in Seq(JobRows) /\ Step
  BY NextIsStep, Types DEF RenderInv, Step, JobsMove
<1>1. ASSUME NEW w \in Workers, NEW p \in Hidden, AcceptEnablement(w, p) PROVE NewJobs
  <2>1. generation = GenOf[w]
    BY <1>1 DEF AcceptEnablement, UpToDate
  <2> DEFINE n == NewJob("enable", p, GenOf[w])
             f == [i \in DOMAIN jobs |-> IF i \in ActiveEnable(p) THEN Ended(i)[i] ELSE jobs[i]]
  <2>2. jobs' = Append(f, n) /\ n.kind = "enable" /\ n.generation = GenOf[w]
    BY <1>1 DEF AcceptEnablement, NewJob
  <2>3. f \in [DOMAIN jobs -> JobRows] /\ n \in JobRows /\ n.status = "queued" /\ n.timer = "none"
    <3>1. p \in Pages
      BY DEF Pages
    <3> QED
      BY <3>1, SameMoves, EndedMoves, GenType, NewJobType DEF RenderInv, NewJob
  <2> HIDE DEF f, n
  <2>4. f \in Seq(JobRows) /\ Len(f) = Len(jobs)
    BY <1>0, <2>3, Rewritten
  <2>5. Len(jobs') = Len(jobs) + 1 /\ jobs'[Len(jobs) + 1] = n
    BY <2>2, <2>3, <2>4
  <2>6. \A i \in DOMAIN jobs' \ DOMAIN jobs : i = Len(jobs) + 1
    BY <1>0, <2>5
  <2> QED
    BY <2>1, <2>2, <2>5, <2>6 DEF NewJobs
<1>2. ASSUME NEW w \in Workers, EnqueueStale(w) PROVE NewJobs
  <2> DEFINE n == NewJob("rerender", 0, GenOf[w])
  <2>1. /\ jobs' = Append(jobs, n) /\ n.kind = "rerender" /\ n.generation = GenOf[w]
        /\ generation < GenOf[w] /\ Config[generation] # Config[GenOf[w]]
    BY <1>2 DEF EnqueueStale, NewJob, Needed
  <2>2. n \in JobRows
    BY GenType, NewJobType
  <2> HIDE DEF n
  <2>3. Len(jobs') = Len(jobs) + 1 /\ jobs'[Len(jobs) + 1] = n
    BY <1>0, <2>1, <2>2
  <2>4. \A i \in DOMAIN jobs' \ DOMAIN jobs : i = Len(jobs) + 1
    BY <1>0, <2>3
  <2>5. generation \in Nat /\ GenOf[w] \in Nat
    BY Types, CfgsNat, GenType DEF RenderInv
  <2> QED
    BY <2>1, <2>3, <2>4, <2>5 DEF NewJobs
<1>3. ASSUME DOMAIN jobs' = DOMAIN jobs PROVE NewJobs
  BY <1>3 DEF NewJobs
<1>4. ASSUME NEW w \in Workers, Claim(w) PROVE DOMAIN jobs' = DOMAIN jobs
  BY <1>4 DEF Claim
<1>5. ASSUME NEW w \in Workers, Finish(w) \/ Fail(w) \/ Activate(w) PROVE DOMAIN jobs' = DOMAIN jobs
  BY <1>5 DEF Finish, Fail, Activate, Ended
<1>6. ASSUME NEW w \in Workers, Renew(w) PROVE DOMAIN jobs' = DOMAIN jobs
  BY <1>6 DEF Renew
<1>7. ASSUME NEW i \in DOMAIN jobs, Lapse(i) PROVE DOMAIN jobs' = DOMAIN jobs
  BY <1>7 DEF Lapse
<1>8. ASSUME UNCHANGED jobs PROVE DOMAIN jobs' = DOMAIN jobs
  BY <1>8
<1>9. \/ \E w \in Workers, p \in Hidden : AcceptEnablement(w, p)
      \/ \E w \in Workers : EnqueueStale(w) \/ Claim(w) \/ Finish(w) \/ Fail(w) \/ Activate(w) \/ Renew(w)
      \/ \E i \in DOMAIN jobs : Lapse(i)
      \/ UNCHANGED jobs
  BY DEF Next, WorkerLoop, Rerender, EnablePage, ChangeUsable, Refused, StageError, ReadRerender,
         AuditRerender, CommitRerender, ReadEnable, Convert, CheckHidden, Draw, Crash, vars, rows
<1> QED
  BY <1>1, <1>2, <1>3, <1>4, <1>5, <1>6, <1>7, <1>8, <1>9

\* What an old job is about.
LEMMA OldJob ==
    ASSUME RenderInv, JobsMove, NEW i \in DOMAIN jobs
    PROVE  /\ i \in DOMAIN jobs'
           /\ i \in Reruns <=> i \in Reruns'
           /\ i \in Enables <=> i \in Enables'
           /\ jobs'[i].generation = jobs[i].generation /\ jobs'[i].page = jobs[i].page
           /\ jobs[i].generation \in Nat
<1>1. jobs \in Seq(JobRows) /\ jobs' \in Seq(JobRows) /\ Len(jobs) <= Len(jobs')
  BY Types DEF RenderInv, JobsMove
<1>2. i \in DOMAIN jobs' /\ Moves(jobs[i], jobs'[i]) /\ jobs[i] \in JobRows
  BY <1>1 DEF JobsMove
<1>3. jobs[i].generation \in Nat
  BY <1>2, CfgsNat DEF JobRows, Cfgs
<1> QED
  BY <1>2, <1>3 DEF Moves, Reruns, Enables

LEMMA NoneAheadBefore ==
    ASSUME RenderInv, JobsMove, UNCHANGED generation, NoneAhead'
    PROVE  NoneAhead
<1>1. \A i \in Reruns : i \in DOMAIN jobs
  BY DEF Reruns
<1> QED
  BY <1>1, OldJob DEF NoneAhead

\* Whose job a process is at work for.
LEMMA Issued ==
    ASSUME WarningsInv, NEW w \in Workers, work[w].pc \in Redoing \cup Enabling
    PROVE  /\ work[w].job \in DOMAIN jobs /\ jobs[work[w].job].generation = GenOf[w]
           /\ work[w].pc \in Redoing => work[w].job \in Reruns
           /\ work[w].pc \in Enabling => work[w].job \in Enables /\ GenOf[w] <= generation
<1>1. work[w].job \in DOMAIN jobs /\ work[w].job # 0
  BY Types DEF WarningsInv, RenderInv, KindsMatch, Redoing, Enabling, Shown
<1>2. jobs[work[w].job].generation = GenOf[w]
  BY <1>1 DEF WarningsInv, RenderInv, ClaimsWereIssued, Mine
<1>3. /\ work[w].pc \in Redoing => work[w].job \in Reruns
      /\ work[w].pc \in Enabling => work[w].job \in Enables
  BY DEF WarningsInv, KindsMatch, Redoing, Enabling, Shown
<1> QED
  BY <1>1, <1>2, <1>3 DEF WarningsInv, JobsFollow

\* The version moves on when the last of its re-renders is committed.
CommitsTo(w) ==
    /\ CommitRerender(w) /\ generation' = GenOf[w] /\ generation <= GenOf[w]
    /\ work[w].pc \in Redoing
    /\ \A i \in Reruns : jobs[i].generation <= GenOf[w]
    /\ UNCHANGED jobs

LEMMA Commits == ASSUME WarningsInv, NEW w \in Workers, CommitRerender(w) PROVE CommitsTo(w)
<1>1. work[w].pc \in Redoing /\ GenOf[w] \in Nat
  BY GenType DEF CommitRerender, Redoing
<1>2. jobs[work[w].job].generation = GenOf[w]
  BY <1>1, Issued
<1>3. \A i \in Reruns \ {work[w].job} : jobs[i].generation <= GenOf[w]
  <2>1. \A i \in Reruns : jobs[i].generation \in Nat
    <3>1. \A i \in Reruns : jobs[i] \in JobRows
      BY Types DEF WarningsInv, RenderInv, Reruns
    <3> QED
      BY <3>1, CfgsNat DEF JobRows, Cfgs
  <2> QED
    BY <1>1, <2>1 DEF CommitRerender, MayWrite, NotOvertaken
<1>4. generation <= GenOf[w]
  BY DEF CommitRerender, MayWrite, NotOvertaken
<1> QED
  BY <1>1, <1>2, <1>3, <1>4 DEF CommitsTo, CommitRerender

LEMMA GenerationMoves ==
    ASSUME WarningsInv, [Next]_vars
    PROVE  UNCHANGED generation \/ \E w \in Workers : CommitsTo(w)
<1>1. UNCHANGED generation \/ \E w \in Workers : CommitRerender(w)
  BY DEF Next, WorkerLoop, Rerender, EnablePage, ChangeUsable, Refused, StageError, ReadRerender,
         AuditRerender, ReadEnable, Convert, CheckHidden, Draw, Crash, vars, rows, EnqueueStale,
         Claim, Finish, Fail, Activate, Renew, Lapse, AcceptEnablement
<1> QED
  BY <1>1, Commits

\* Unless a later generation has been asked for, warnings change to those of the version.
LEMMA WarningsMove ==
    ASSUME WarningsInv, [Next]_vars, NoneAhead', NEW p \in Pages
    PROVE  warnings'[p] = warnings[p] \/ generation' \in warnings'[p]
<1>0. Step /\ NewJobs /\ generation \in Nat
  BY NextIsStep, JobsAreNew, Types, CfgsNat DEF WarningsInv, RenderInv
<1>1. ASSUME NEW w \in Workers, NEW S, Warn(S, GenOf[w]), generation' = GenOf[w]
      PROVE  warnings'[p] = warnings[p] \/ generation' \in warnings'[p]
  BY <1>1 DEF Warn
<1>2. ASSUME NEW w \in Workers, AuditRerender(w) PROVE generation' = GenOf[w]
  <2>1. generation <= GenOf[w] /\ work[w].pc \in Redoing /\ UNCHANGED <<generation, jobs>>
    BY <1>2 DEF AuditRerender, MayWrite, NotOvertaken, Redoing
  <2>2. work[w].job \in Reruns /\ jobs[work[w].job].generation = GenOf[w]
    BY <2>1, Issued
  <2>3. GenOf[w] <= generation /\ GenOf[w] \in Nat
    BY <2>1, <2>2, GenType DEF NoneAhead, Reruns
  <2> QED
    BY <1>0, <2>1, <2>3
<1>3. ASSUME NEW w \in Workers, CheckHidden(w) PROVE generation' = GenOf[w]
  BY <1>3 DEF CheckHidden, MayWrite, SameGeneration, UpToDate
<1>4. ASSUME NEW w \in Workers, EnqueueStale(w) PROVE FALSE
  <2> DEFINE n == NewJob("rerender", 0, GenOf[w])
  <2>1. /\ jobs' = Append(jobs, n) /\ n.kind = "rerender" /\ n.generation = GenOf[w]
        /\ generation < GenOf[w] /\ UNCHANGED generation
    BY <1>4 DEF EnqueueStale, NewJob, Needed
  <2>2. n \in JobRows /\ jobs \in Seq(JobRows)
    BY GenType, NewJobType, Types DEF WarningsInv, RenderInv
  <2> HIDE DEF n
  <2>3. jobs'[Len(jobs) + 1] = n /\ Len(jobs) + 1 \in DOMAIN jobs'
    BY <2>1, <2>2
  <2>4. GenOf[w] <= generation
    BY <2>1, <2>3 DEF NoneAhead, Reruns
  <2> QED
    BY <1>0, <2>1, <2>4, GenType
<1>5. ASSUME NEW w \in Workers, CommitRerender(w) PROVE generation' = GenOf[w] /\ Warn(work[w].seen, GenOf[w])
  BY <1>5 DEF CommitRerender
<1>6. \/ UNCHANGED warnings
      \/ \E w \in Workers : AuditRerender(w) \/ CommitRerender(w) \/ CheckHidden(w) \/ EnqueueStale(w)
  BY DEF Next, WorkerLoop, Rerender, EnablePage, ChangeUsable, Refused, StageError, ReadRerender,
         ReadEnable, Convert, Draw, Crash, vars, rows,
         Claim, Finish, Fail, Activate, Renew, Lapse, AcceptEnablement
<1> QED
  BY <1>1, <1>2, <1>3, <1>4, <1>5, <1>6 DEF AuditRerender, CheckHidden

LEMMA KindsKeep == ASSUME WarningsInv, [Next]_vars PROVE KindsMatch'
<1>1. JobsMove /\ \A v \in Workers : StageMoves(v)
  BY NextIsStep, StagesMove DEF WarningsInv, Step
<1> SUFFICES ASSUME NEW v \in Workers
             PROVE  /\ work'[v].pc # "idle" => work'[v].job \in DOMAIN jobs'
                    /\ work'[v].pc \in Redoing => work'[v].job \in Reruns'
                    /\ work'[v].pc \in Enabling => work'[v].job \in Enables'
  BY DEF KindsMatch, Redoing, Enabling, Shown
<1>2. \A i \in Reruns \cup Enables : i \in DOMAIN jobs
  BY DEF Reruns, Enables
<1> QED
  BY <1>1, <1>2, OldJob DEF StageMoves, WarningsInv

LEMMA FollowKeeps == ASSUME WarningsInv, [Next]_vars PROVE JobsFollow'
<1>0. JobsMove /\ NewJobs /\ generation \in Nat /\ generation' \in Nat /\ generation <= generation'
  BY NextIsStep, JobsAreNew, Types, CfgsNat DEF WarningsInv, RenderInv, Step
<1>1. \A i \in DOMAIN jobs' \ DOMAIN jobs : UNCHANGED generation
  BY GenerationMoves DEF CommitsTo
<1>2. \A i \in Enables' : jobs'[i].generation <= generation'
  <2> SUFFICES ASSUME NEW i \in Enables' PROVE jobs'[i].generation <= generation'
    OBVIOUS
  <2>1. i \in DOMAIN jobs' /\ jobs'[i].kind = "enable"
    BY DEF Enables
  <2>2. CASE i \in DOMAIN jobs
    BY <1>0, <2>2, OldJob DEF WarningsInv, JobsFollow
  <2>3. CASE i \notin DOMAIN jobs
    BY <1>0, <1>1, <2>1, <2>3 DEF NewJobs
  <2> QED
    BY <2>2, <2>3
<1>3. \A i \in Reruns' :
        jobs'[i].generation > generation' => Config[jobs'[i].generation] # Config[generation']
  <2> SUFFICES ASSUME NEW i \in Reruns', jobs'[i].generation > generation'
               PROVE  Config[jobs'[i].generation] # Config[generation']
    OBVIOUS
  <2>1. i \in DOMAIN jobs' /\ jobs'[i].kind = "rerender"
    BY DEF Reruns
  <2>2. CASE i \in DOMAIN jobs
    <3>1. i \in Reruns /\ jobs'[i].generation = jobs[i].generation /\ jobs[i].generation \in Nat
      BY <1>0, <2>2, OldJob DEF WarningsInv
    <3>2. UNCHANGED generation
      BY <1>0, <3>1, GenerationMoves, GenType DEF CommitsTo
    <3> QED
      BY <3>1, <3>2 DEF WarningsInv, JobsFollow
  <2>3. CASE i \notin DOMAIN jobs
    BY <1>0, <1>1, <2>1, <2>3 DEF NewJobs
  <2> QED
    BY <2>2, <2>3
<1> QED
  BY <1>2, <1>3 DEF JobsFollow

LEMMA UnseenKeeps == ASSUME WarningsInv, [Next]_vars PROVE UnseenAsConfigured'
<1>0. Step /\ \A v \in Workers : StageMoves(v)
  BY NextIsStep, StagesMove DEF WarningsInv
<1> SUFFICES ASSUME NEW v \in Workers, work'[v].pc \in Redoing, generation' < GenOf[v],
                    NEW p \in Pages \ work'[v].seen, page'[p].enabled, NEW g \in page'[p].render
             PROVE  Config[g] = Config[generation']
  BY DEF UnseenAsConfigured, Redoing
<1>1. /\ work'[v].job = work[v].job /\ work[v].job \in Reruns /\ work[v].job \in DOMAIN jobs
      /\ \/ work[v].pc \in Redoing /\ work'[v].seen = work[v].seen
         \/ EnabledPages \subseteq work'[v].seen
  BY <1>0 DEF StageMoves, Reruns
<1>2. jobs[work[v].job].generation = GenOf[v] /\ GenOf[v] \in Nat
  BY <1>1, GenType, Types DEF WarningsInv, RenderInv, ClaimsWereIssued, Mine
<1>3. UNCHANGED generation
  <2>1. generation' \in Nat
    BY <1>0, CfgsNat DEF Step
  <2>2. ASSUME NEW w \in Workers, CommitsTo(w) PROVE FALSE
    <3>1. GenOf[v] <= GenOf[w] /\ generation' = GenOf[w]
      BY <1>1, <1>2, <2>2 DEF CommitsTo
    <3> QED
      BY <1>2, <2>1, <3>1
  <2> QED
    BY <2>2, GenerationMoves
<1>4. PageMoves(p)
  BY <1>0 DEF Step
<1>5. CASE ~page[p].enabled
  BY <1>3, <1>4, <1>5 DEF PageMoves
<1>6. CASE page[p].enabled
  <2>1. p \in EnabledPages
    BY <1>6 DEF EnabledPages
  <2>2. \A h \in page[p].render : Config[h] = Config[generation]
    BY <1>1, <1>3, <1>6, <2>1 DEF WarningsInv, UnseenAsConfigured, Redoing
  <2> QED
    BY <1>3, <1>4, <2>2 DEF PageMoves
<1> QED
  BY <1>5, <1>6

LEMMA CheckedKeeps == ASSUME WarningsInv, [Next]_vars PROVE CheckedIsShown'
<1>0. Step /\ \A v \in Workers : StageMoves(v)
  BY NextIsStep, StagesMove DEF WarningsInv
<1> SUFFICES ASSUME NEW v \in Workers, work'[v].pc \in Shown, Mine(v)'.page \in Pages,
                    generation' = GenOf[v], NoneAhead'
             PROVE  \E g \in warnings'[Mine(v)'.page] : Config[g] = Config[generation']
  BY DEF CheckedIsShown, Shown
<1> DEFINE p == Mine(v).page
<1>1. work'[v].job = work[v].job /\ work[v].job \in Enables /\ work[v].job \in DOMAIN jobs
  BY <1>0 DEF StageMoves, Enabling, Shown, Enables
<1>2. Mine(v)'.page = p /\ p \in Pages
  BY <1>0, <1>1, OldJob DEF Mine, Step, WarningsInv
<1>3. UNCHANGED generation
  <2>1. work[v].job # 0 /\ GenOf[v] \in Nat /\ generation \in Nat /\ generation <= generation'
    <3>1. generation \in Cfgs /\ jobs \in Seq(JobRows)
      BY Types DEF WarningsInv, RenderInv
    <3>2. work[v].job # 0
      BY <1>1, <3>1
    <3> QED
      BY <1>0, <3>1, <3>2, GenType, CfgsNat DEF Step
  <2>2. GenOf[v] <= generation
    BY <1>1, <2>1 DEF WarningsInv, JobsFollow, RenderInv, ClaimsWereIssued, Mine
  <2> QED
    BY <2>1, <2>2
<1>4. NoneAhead
  BY <1>0, <1>3, NoneAheadBefore DEF WarningsInv, Step
<1>5. warnings'[p] = warnings[p] \/ generation' \in warnings'[p]
  BY <1>2, WarningsMove
<1>6. \/ work[v].pc \in Shown
      \/ GenOf[v] \in warnings'[p]
  BY <1>0, <1>2 DEF StageMoves, Enabling
<1>7. work[v].pc \in Shown => \E g \in warnings[p] : Config[g] = Config[generation]
  BY <1>2, <1>3, <1>4 DEF WarningsInv, CheckedIsShown, Shown
<1> QED
  BY <1>2, <1>3, <1>5, <1>6, <1>7

\* A page becomes visible, or gets another render, in one way only.
LEMMA Appears ==
    ASSUME WarningsInv, [Next]_vars, NEW p \in Pages, ~page[p].enabled, page'[p].enabled
    PROVE  /\ UNCHANGED <<generation, warnings>>
           /\ \E w \in Workers : /\ work[w].pc = "activate" /\ Mine(w).page = p
                                 /\ generation = GenOf[w]
<1>1. PageMoves(p) /\ page \in [Pages -> PageRows(Len(jobs))]
  BY NextIsStep, Types DEF WarningsInv, RenderInv, Step
<1>2. ASSUME NEW w \in Workers, Activate(w)
      PROVE  /\ UNCHANGED <<generation, warnings>>
             /\ work[w].pc = "activate" /\ Mine(w).page = p /\ generation = GenOf[w]
  <2>1. page' = [page EXCEPT ![Mine(w).page].enabled = TRUE]
    BY <1>2 DEF Activate
  <2>2. Mine(w).page = p
    BY <1>1, <2>1
  <2> QED
    BY <1>2, <2>2 DEF Activate, MayWrite, SameGeneration, UpToDate
<1>3. \E w \in Workers : Activate(w)
  <2>1. ASSUME UNCHANGED page PROVE FALSE
    BY <2>1
  <2>2. ASSUME NEW w \in Workers, NEW q \in Hidden, AcceptEnablement(w, q) PROVE FALSE
    BY <1>1, <2>2 DEF AcceptEnablement, PageRows
  <2>3. ASSUME NEW w \in Workers, Claim(w) PROVE FALSE
    BY <1>1, <2>3 DEF Claim, Cleared, Blank, PageRows
  <2>4. ASSUME NEW w \in Workers, CommitRerender(w) PROVE FALSE
    BY <1>1, <2>4 DEF CommitRerender, PageRows
  <2>5. ASSUME NEW w \in Workers, Convert(w) PROVE FALSE
    BY <1>1, <2>5 DEF Convert, PageRows
  <2>6. ASSUME NEW w \in Workers, Draw(w) PROVE FALSE
    BY <1>1, <2>6 DEF Draw, PageRows
  <2>7. ASSUME NEW w \in Workers, Fail(w) PROVE FALSE
    BY <1>1, <2>7 DEF Fail, Cleared, Blank, PageRows
  <2> QED
    BY <2>1, <2>2, <2>3, <2>4, <2>5, <2>6, <2>7
    DEF Next, WorkerLoop, Rerender, EnablePage, ChangeUsable, Refused, StageError, ReadRerender,
        AuditRerender, ReadEnable, CheckHidden, Crash, vars, rows, EnqueueStale, Finish, Renew, Lapse
<1> QED
  BY <1>2, <1>3

LEMMA Redrawn ==
    ASSUME WarningsInv, [Next]_vars, NEW p \in Pages, page[p].enabled,
           page'[p].render # page[p].render
    PROVE  generation' \in warnings'[p]
<1>1. PageMoves(p) /\ page \in [Pages -> PageRows(Len(jobs))]
  BY NextIsStep, Types DEF WarningsInv, RenderInv, Step
<1>2. ASSUME NEW w \in Workers, CommitRerender(w) PROVE generation' \in warnings'[p]
  <2>1. p \in work[w].seen
    BY <1>1, <1>2 DEF CommitRerender
  <2> QED
    BY <1>2, <2>1 DEF CommitRerender, Warn
<1>3. ASSUME UNCHANGED page PROVE FALSE
  BY <1>3
<1>4. ASSUME NEW w \in Workers, NEW q \in Hidden, AcceptEnablement(w, q) PROVE FALSE
  BY <1>1, <1>4 DEF AcceptEnablement, PageRows
<1>5. ASSUME NEW w \in Workers, Claim(w) \/ Fail(w) PROVE FALSE
  <2>1. page'[p].enabled
    BY <1>1 DEF PageMoves
  <2> QED
    BY <1>5, <2>1 DEF Claim, Fail, Cleared, Blank
<1>6. ASSUME NEW w \in Workers, Convert(w) \/ Activate(w) PROVE FALSE
  <2>1. page[p] \in PageRows(Len(jobs)) /\ DOMAIN page = Pages
    BY <1>1
  <2>2. CASE Activate(w)
    BY <2>1, <2>2 DEF Activate, PageRows
  <2>3. CASE Convert(w)
    <3>1. \E b \in BOOLEAN : page' = [page EXCEPT ![Mine(w).page].content = b]
      BY <2>3 DEF Convert, Owns
    <3> QED
      BY <2>1, <3>1 DEF PageRows
  <2> QED
    BY <1>6, <2>2, <2>3
<1>7. ASSUME NEW w \in Workers, Draw(w) PROVE FALSE
  <2>1. Mine(w).page = p /\ Owns(w) /\ Holds(w)
    BY <1>1, <1>7 DEF Draw, PageRows, MayWrite, HoldsLive
  <2>2. work[w].job \in DOMAIN jobs /\ jobs[work[w].job].status = "running"
    BY <2>1, Working DEF WarningsInv, Mine
  <2> QED
    BY <2>1, <2>2, OwnedIsHidden DEF Owns, WarningsInv
<1> QED
  BY <1>2, <1>3, <1>4, <1>5, <1>6, <1>7
  DEF Next, WorkerLoop, Rerender, EnablePage, ChangeUsable, Refused, StageError, ReadRerender,
      AuditRerender, ReadEnable, CheckHidden, Crash, vars, rows, EnqueueStale, Finish, Renew, Lapse

LEMMA ShownKeeps == ASSUME WarningsInv, [Next]_vars PROVE WarningsAreShown'
<1> SUFFICES ASSUME NoneAhead', NEW p \in Pages, page'[p].enabled,
                    \A g \in page'[p].render : Config[g] = Config[generation'],
                    generation' \notin warnings'[p]
             PROVE  \E g \in warnings'[p] : Config[g] = Config[generation']
  BY DEF WarningsAreShown, NoneAhead, EnabledPages
<1>0. Step /\ PageMoves(p) /\ JobsMove
  BY NextIsStep DEF WarningsInv, Step
<1>1. warnings'[p] = warnings[p]
  BY WarningsMove
<1>2. CASE ~page[p].enabled
  <2>1. /\ UNCHANGED <<generation, warnings>>
        /\ \E w \in Workers : /\ work[w].pc = "activate" /\ Mine(w).page = p
                              /\ generation = GenOf[w]
    BY <1>2, Appears
  <2>2. NoneAhead
    BY <1>0, <2>1, NoneAheadBefore DEF WarningsInv
  <2> QED
    BY <2>1, <2>2 DEF WarningsInv, CheckedIsShown
<1>3. CASE page[p].enabled
  <2>1. page'[p].render = page[p].render
    BY <1>3, Redrawn
  <2>2. CASE UNCHANGED generation
    <3>1. NoneAhead
      BY <1>0, <2>2, NoneAheadBefore DEF WarningsInv
    <3> QED
      BY <1>1, <1>3, <2>1, <2>2, <3>1 DEF WarningsInv, WarningsAreShown, NoneAhead, EnabledPages
  <2>3. ASSUME NEW w \in Workers, CommitsTo(w), ~UNCHANGED generation PROVE FALSE
    <3>1. generation < GenOf[w] /\ generation' = GenOf[w] /\ GenOf[w] \in Nat /\ generation \in Nat
      <4>1. generation \in Nat /\ GenOf[w] \in Nat
        BY GenType, GenerationStays, CfgsNat DEF WarningsInv
      <4> QED
        BY <2>3, <4>1 DEF CommitsTo
    <3>2. p \notin work[w].seen
      BY <2>3 DEF CommitsTo, CommitRerender, Warn
    <3>3. \A g \in page[p].render : Config[g] = Config[generation]
      BY <1>3, <2>3, <3>1, <3>2 DEF CommitsTo, Redoing, WarningsInv, UnseenAsConfigured
    <3>4. Config[GenOf[w]] # Config[generation]
      <4>1. work[w].job \in Reruns /\ jobs[work[w].job].generation = GenOf[w]
        BY <2>3, Issued DEF CommitsTo
      <4> QED
        BY <3>1, <4>1 DEF WarningsInv, JobsFollow
    <3>5. page[p].render # {}
      BY <1>3 DEF WarningsInv, RenderInv, EnabledIsDone, Complete
    <3> QED
      BY <2>1, <3>1, <3>3, <3>4, <3>5
  <2> QED
    BY <2>2, <2>3, GenerationMoves
<1> QED
  BY <1>2, <1>3

LEMMA WarningsInductive == Spec => []WarningsInv
<1>1. Init => WarningsInv
  <2> SUFFICES ASSUME Init PROVE WarningsInv
    OBVIOUS
  <2>1. RenderInv
    BY InitRenderInv
  <2>2. Reruns = {} /\ Enables = {} /\ \A w \in Workers : work[w].pc = "idle"
    BY DEF Init, Reruns, Enables, Idle
  <2>3. \A p \in EnabledPages : warnings[p] = {generation}
    BY DEF Init, EnabledPages, Blank, Pages
  <2> QED
    BY <2>1, <2>2, <2>3 DEF WarningsInv, KindsMatch, JobsFollow, UnseenAsConfigured,
       CheckedIsShown, WarningsAreShown
<1>2. WarningsInv /\ [Next]_vars => WarningsInv'
  <2>1. ASSUME WarningsInv, [Next]_vars PROVE RenderInv'
    BY <2>1, NextIsStep, StepKeepsInv DEF WarningsInv
  <2> QED
    BY <2>1, KindsKeep, FollowKeeps, UnseenKeeps, CheckedKeeps, ShownKeeps DEF WarningsInv
<1> QED
  BY <1>1, <1>2, PTL DEF Spec

-----------------------------------------------------------------------------
(* What holds of RenderGeneration. *)

\* Every variable keeps its type; a page's job is one of this page.
THEOREM TypeCorrect == Spec => []TypeOK
<1>1. RenderInv => TypeOK
  BY DEF RenderInv
<1> QED
  BY <1>1, RenderInductive, PTL

\* An old service that is still at work never undoes what a newer one has done, for any
\* number of services and generations.
THEOREM Upgrades == Spec => NoDowngrade
<1> DEFINE Forward ==
        /\ generation' >= generation
        /\ \A p \in Pages : page[p].enabled =>
             \A g \in page[p].render, h \in page'[p].render : h >= g
<1>1. RenderInv /\ [Next]_vars => Forward
  <2> SUFFICES ASSUME RenderInv, Step PROVE Forward
    BY NextIsStep
  <2>1. generation \in Nat /\ generation' \in Nat /\ generation <= generation'
    BY Types, CfgsNat DEF RenderInv, Step
  <2>2. ASSUME NEW p \in Pages, NEW g \in page[p].render, NEW h \in page'[p].render
        PROVE  h >= g
    <3>1. g \in Nat /\ g <= generation /\ \A k \in page[p].render : g = k
      BY <2>2, Types, CfgsNat DEF RenderInv, PageRows, RendersAreOld
    <3>2. h \in page[p].render \/ h = generation'
      BY <2>2 DEF Step, PageMoves
    <3> QED
      BY <2>1, <3>1, <3>2
  <2> QED
    BY <2>1, <2>2
<1> HIDE DEF Forward
<1>2. RenderInv /\ [Next]_vars => [Forward]_vars
  BY <1>1
<1>3. [][Forward]_vars => NoDowngrade
  BY DEF Forward, NoDowngrade
<1> QED
  BY <1>2, <1>3, RenderInductive, PTL DEF Spec

\* No late failure takes the results of a visible page back.
THEOREM EnabledStays == Spec => EnabledForGood
<1> DEFINE Stays == \A p \in Pages : page[p].enabled => (page'[p].enabled /\ Complete(p)')
<1>1. RenderInv /\ [Next]_vars => Stays
  BY NextIsStep DEF Step, PageMoves, Complete
<1> HIDE DEF Stays
<1>2. RenderInv /\ [Next]_vars => [Stays]_vars
  BY <1>1
<1>3. [][Stays]_vars => EnabledForGood
  BY DEF Stays, EnabledForGood
<1> QED
  BY <1>2, <1>3, RenderInductive, PTL DEF Spec

\* What becomes visible was rendered by the configuration that the version has.
THEOREM EnabledConfigured == Spec => EnabledAsConfigured
<1> DEFINE Configured ==
        \A p \in Pages : ~page[p].enabled /\ page'[p].enabled =>
          /\ usable
          /\ \A g \in page'[p].render : Config[g] = Config[generation]
<1>1. RenderInv /\ [Next]_vars => Configured
  BY NextIsStep DEF Step, PageMoves
<1> HIDE DEF Configured
<1>2. RenderInv /\ [Next]_vars => [Configured]_vars
  BY <1>1
<1>3. [][Configured]_vars => EnabledAsConfigured
  BY DEF Configured, EnabledAsConfigured
<1> QED
  BY <1>2, <1>3, RenderInductive, PTL DEF Spec

\* Every visible page with a render of the version's configuration shows the warnings of
\* that configuration, unless a later generation has been asked for.
THEOREM WarningsShown == Spec => []WarningsAreShown
<1>1. WarningsInv => WarningsAreShown
  BY DEF WarningsInv
<1> QED
  BY <1>1, WarningsInductive, PTL

-----------------------------------------------------------------------------
(* An upgrade that is complete. *)

\* The services that are still at work share one rendering configuration.
OneConfiguration == \A v, w \in Workers : Config[GenOf[v]] = Config[GenOf[w]]

\* A re-render that changes the configuration has seen all visible pages: until it is
\* committed nobody can enable another.
AllSeen ==
    \A w \in Workers :
        work[w].pc \in Redoing /\ Config[generation] # Config[GenOf[w]]
            => EnabledPages \subseteq work[w].seen

UpgradedInv == WarningsInv /\ AllSeen /\ RendersMatchVersion

LEMMA SeenKeeps ==
    ASSUME OneConfiguration, UpgradedInv, [Next]_vars
    PROVE  AllSeen'
<1> USE DEF UpgradedInv
<1> SUFFICES ASSUME NEW v \in Workers, work'[v].pc \in Redoing,
                    Config[generation'] # Config[GenOf[v]],
                    NEW p \in Pages, page'[p].enabled
             PROVE  p \in work'[v].seen
  BY DEF AllSeen, EnabledPages
<1>1. UNCHANGED generation
  BY GenerationMoves DEF CommitsTo, OneConfiguration
<1>2. page[p].enabled
  BY <1>1, Appears DEF OneConfiguration
<1>3. \/ work[v].pc \in Redoing /\ work'[v].seen = work[v].seen
      \/ EnabledPages \subseteq work'[v].seen
  BY StagesMove DEF StageMoves
<1> QED
  BY <1>1, <1>2, <1>3 DEF AllSeen, EnabledPages

LEMMA MatchKeeps ==
    ASSUME OneConfiguration, UpgradedInv, [Next]_vars
    PROVE  RendersMatchVersion'
<1> USE DEF UpgradedInv
<1> SUFFICES ASSUME NEW p \in Pages, page'[p].enabled, NEW g \in page'[p].render
             PROVE  Config[g] = Config[generation']
  BY DEF RendersMatchVersion, EnabledPages
<1>1. PageMoves(p) /\ page \in [Pages -> PageRows(Len(jobs))]
  BY NextIsStep, Types DEF WarningsInv, RenderInv, Step
<1>2. CASE ~page[p].enabled
  BY <1>1, <1>2, Appears DEF PageMoves
<1>3. CASE page[p].enabled
  <2>1. \A h \in page[p].render : Config[h] = Config[generation]
    BY <1>3 DEF RendersMatchVersion, EnabledPages
  <2>2. g \in page[p].render \/ g = generation'
    BY <1>1 DEF PageMoves
  <2>3. ASSUME NEW w \in Workers, CommitsTo(w), Config[generation] # Config[GenOf[w]]
        PROVE  g = generation'
    <3>1. p \in work[w].seen
      BY <1>3, <2>3 DEF AllSeen, EnabledPages, CommitsTo
    <3>2. page'[p].render = {GenOf[w]}
      BY <1>1, <1>3, <2>3, <3>1 DEF CommitsTo, CommitRerender, PageRows
    <3> QED
      BY <2>3, <3>2 DEF CommitsTo
  <2> QED
    BY <2>1, <2>2, <2>3, GenerationMoves DEF CommitsTo
<1> QED
  BY <1>2, <1>3

\* Once the services that are left share one configuration, no visible page of the
\* version ever has a render of another configuration than the version names: only
\* services of two configurations side by side leave an old render behind.
THEOREM UpgradedRendersMatch ==
    ASSUME OneConfiguration
    PROVE  Spec => []RendersMatchVersion
<1>1. Init => AllSeen /\ RendersMatchVersion
  <2> SUFFICES ASSUME Init PROVE AllSeen /\ RendersMatchVersion
    OBVIOUS
  <2>1. \A w \in Workers : work[w].pc = "idle"
    BY DEF Init, Idle
  <2>2. \A p \in EnabledPages : page[p].render = {generation}
    BY DEF Init, EnabledPages, Blank, Pages
  <2> QED
    BY <2>1, <2>2 DEF AllSeen, Redoing, RendersMatchVersion
<1>2. WarningsInv /\ WarningsInv' /\ AllSeen /\ RendersMatchVersion /\ [Next]_vars
        => AllSeen' /\ RendersMatchVersion'
  BY SeenKeeps, MatchKeeps DEF UpgradedInv
<1> QED
  BY <1>1, <1>2, WarningsInductive, PTL DEF Spec

===============================================================================
