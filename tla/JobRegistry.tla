----------------------------- MODULE JobRegistry -----------------------------
(***************************************************************************)
(* The review server's background jobs (server/jobs.py), the requests that *)
(* start them (POST /api/runs) and the pages that poll them.               *)
(*                                                                         *)
(* Progress lines are numbered as they are reported. A job drops lines     *)
(* only from the front, so what it keeps is how many it reported and how   *)
(* many of those it cut. A view takes no lock: its fields are read one     *)
(* after another while the job's thread goes on.                           *)
(***************************************************************************)
EXTENDS Naturals, Sequences, FiniteSets

CONSTANTS
  Starter, Page,      \* requests that start runs, pages that watch them
  MAX_LINES, MAX_JOBS,
  MaxStarted,         \* bound: jobs submitted
  MaxReported         \* bound: lines of one job

ASSUME JobRegistryAssumption ==
  /\ MAX_LINES \in Nat \ {0} /\ MAX_JOBS \in Nat
  /\ MaxStarted \in Nat /\ MaxReported \in Nat

VARIABLES
  jobs,       \* all jobs ever submitted, in the order they were started
  known,      \* those the registry still has
  working,    \* jobs that hold the workspace lock
  starter,    \* where a starting request is
  page        \* what a page watches, its cursor, the view it is being sent, the last
              \* line it shows and whether its last view repeated one

jobVars == <<jobs, known, working, starter, page>>

Started == 1..Len(jobs)
Kept(j) == jobs[j].total - jobs[j].cut
NewJob == [step |-> "lock", state |-> "running", total |-> 0, cut |-> 0,
           result |-> FALSE, error |-> FALSE]
NoPage == [step |-> "closed", job |-> 0, cursor |-> 0, after |-> 0, state |-> "none",
           result |-> FALSE, error |-> FALSE, shown |-> 0,
           again |-> FALSE]

JobsInit ==
  /\ jobs = <<>> /\ known = {} /\ working = {}
  /\ starter = [r \in Starter |-> "idle"]
  /\ page = [p \in Page |-> NoPage]
-----------------------------------------------------------------------------
(***************************************************************************)
(* start_run and submit.                                                   *)
(***************************************************************************)
\* start_run finds no run under way: busy returned nothing.
FoundIdle(r) ==
  /\ starter[r] = "idle" /\ Len(jobs) < MaxStarted
  /\ \A j \in known : jobs[j].state # "running"
  /\ starter' = [starter EXCEPT ![r] = "free"]
  /\ UNCHANGED <<jobs, known, working, page>>

Oldest(S, n) == {j \in S : Cardinality({k \in S : k < j}) < n}

\* _prune_locked: only what is over goes, the oldest first.
Pruned(K) ==
  LET finished == {j \in K : jobs[j].state # "running"}
  IN IF Cardinality(K) <= MAX_JOBS THEN K
     ELSE K \ Oldest(finished, Cardinality(K) - MAX_JOBS)

\* submit: prune, add, and start the thread.
Submitted(r) ==
  /\ starter[r] = "free" /\ Len(jobs) < MaxStarted
  /\ known' = Pruned(known) \cup {Len(jobs) + 1}
  /\ jobs' = Append(jobs, NewJob)
  /\ starter' = [starter EXCEPT ![r] = "idle"]
  /\ UNCHANGED <<working, page>>
-----------------------------------------------------------------------------
(***************************************************************************)
(* runner, the job's thread.                                               *)
(***************************************************************************)
At(j, step) == jobs[j].step = step
Sets(j, r) == /\ jobs' = [jobs EXCEPT ![j] = r]
              /\ UNCHANGED <<known, starter, page>>

\* report: append, and keep the newest MAX_LINES when twice as many are there.
Reported(job) ==
  LET kept == job.total + 1 - job.cut
  IN [job EXCEPT !.total = @ + 1,
                 !.cut = IF kept > 2 * MAX_LINES THEN job.total + 1 - MAX_LINES ELSE @]

\* The lock of another pass makes the work raise Locked.
LockTaken(j) ==
  /\ At(j, "lock")
  /\ IF working = {}
     THEN working' = {j} /\ Sets(j, [jobs[j] EXCEPT !.step = "work"])
     ELSE /\ Sets(j, [jobs[j] EXCEPT !.step = "raised"])
          /\ UNCHANGED working

WorkReports(j) ==
  /\ At(j, "work") /\ jobs[j].total < MaxReported
  /\ Sets(j, Reported(jobs[j]))
  /\ UNCHANGED working

ResultLateSlip(j) ==  \* the state before the result
  /\ At(j, "work")
  /\ working' = working \ {j}
  /\ Sets(j, [jobs[j] EXCEPT !.step = "returned", !.state = "done"])

WorkReturns(j) ==
  /\ At(j, "work")
  /\ working' = working \ {j}
  /\ Sets(j, [jobs[j] EXCEPT !.step = "returned", !.result = TRUE])

WorkRaises(j) ==
  /\ At(j, "work")
  /\ working' = working \ {j}
  /\ Sets(j, [jobs[j] EXCEPT !.step = "raised"])

SaysDone(j) ==
  /\ At(j, "returned")
  /\ Sets(j, [jobs[j] EXCEPT !.step = "last", !.state = "done"])
  /\ UNCHANGED working

SaysFailedSlip(j) ==  \* except Exception: what else is raised ends the thread
  /\ At(j, "raised")
  /\ Sets(j, [jobs[j] EXCEPT !.step = "over"])
  /\ UNCHANGED working

SaysFailed(j) ==
  /\ At(j, "raised")
  /\ Sets(j, [jobs[j] EXCEPT !.step = "reason", !.state = "failed"])
  /\ UNCHANGED working

SaysWhy(j) ==
  /\ At(j, "reason")
  /\ Sets(j, [Reported(jobs[j]) EXCEPT !.step = "last", !.error = TRUE])
  /\ UNCHANGED working

\* finally: the time it finished.
Ends(j) ==
  /\ At(j, "last")
  /\ Sets(j, [jobs[j] EXCEPT !.step = "over"])
  /\ UNCHANGED working

RunnerStep(j) ==
  \/ LockTaken(j) \/ WorkReturns(j) \/ WorkRaises(j) \/ SaysDone(j)
  \/ SaysFailed(j) \/ SaysWhy(j) \/ Ends(j)
-----------------------------------------------------------------------------
(***************************************************************************)
(* The page: watchRun polls GET /api/jobs/{id}, and view answers.          *)
(***************************************************************************)
Shows(p, r) == /\ page' = [page EXCEPT ![p] = r]
               /\ UNCHANGED <<jobs, known, working, starter>>

\* A page opens on the job it started or on one it finds running.
Watches(p, j) ==
  /\ page[p].step = "closed" /\ j \in known /\ jobs[j].state = "running"
  /\ Shows(p, [NoPage EXCEPT !.step = "ask", !.job = j])

\* get, then view clamps the cursor it was sent and reads the state.
AsksState(p) ==
  LET j == page[p].job
  IN /\ page[p].step = "ask" /\ j \in known
     /\ Shows(p, [page[p] EXCEPT
          !.step = "lines", !.state = jobs[j].state,
          !.after = IF page[p].cursor < Kept(j) THEN page[p].cursor ELSE Kept(j)])

\* The registry does not know it any more: the page stops.
AsksInVain(p) ==
  /\ page[p].step = "ask" /\ page[p].job \notin known
  /\ Shows(p, [page[p] EXCEPT !.step = "shown"])

FirstNewSlip(job, after) == job.cut + (IF after = 0 THEN 1 ELSE after)

\* The number of the line that lines[after] is.
FirstNew(job, after) == job.cut + after + 1

ReadsLines(p) ==
  LET job == jobs[page[p].job]
      first == FirstNew(job, page[p].after)
  IN /\ page[p].step = "lines"
     /\ Shows(p, [page[p] EXCEPT
          !.step = "cursor",
          !.again = first <= page[p].shown /\ first <= job.total,
          !.shown = IF first <= job.total THEN job.total ELSE @])

ReadsCursor(p) ==
  /\ page[p].step = "cursor"
  /\ Shows(p, [page[p] EXCEPT !.step = "result", !.cursor = Kept(page[p].job)])

\* The result and the error, and the page asks again while it read "running".
ReadsResult(p) ==
  LET job == jobs[page[p].job]
  IN /\ page[p].step = "result"
     /\ Shows(p, [page[p] EXCEPT
          !.step = IF page[p].state = "running" THEN "ask" ELSE "shown",
          !.result = job.result, !.error = job.error])

PageStep(p) ==
  AsksState(p) \/ AsksInVain(p) \/ ReadsLines(p) \/ ReadsCursor(p) \/ ReadsResult(p)

JobsNext ==
  \/ \E r \in Starter : FoundIdle(r) \/ Submitted(r)
  \/ \E j \in Started : RunnerStep(j) \/ WorkReports(j)
  \/ \E p \in Page : PageStep(p) \/ \E j \in known : Watches(p, j)

\* The thread of a job and the page's timer both go on; lines are bounded.
JobsFairness ==
  /\ \A j \in 1..MaxStarted : WF_jobVars(j \in Started /\ RunnerStep(j))
  /\ \A p \in Page : WF_jobVars(PageStep(p))

JobsSpec == JobsInit /\ [][JobsNext]_jobVars /\ JobsFairness
-----------------------------------------------------------------------------
\* A page never shows a line twice or after a later one, although the front of
\* the list is cut away under its cursor and between two reads of one view.
LinesInOrder ==
  \A p \in Page : ~page[p].again

\* A page that stops because the job is done has its result (watchRun reads
\* view.result.stats), whatever the job's thread did between the reads.
DoneHasResult ==
  \A p \in Page : page[p].step = "shown" /\ page[p].state = "done" => page[p].result

\* A page that watches a job stops: the job ends, or it is forgotten.
PageStops == \A p \in Page : (page[p].step = "ask") ~> (page[p].step = "shown")
=============================================================================
