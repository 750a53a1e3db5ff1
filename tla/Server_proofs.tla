---------------------------- MODULE Server_proofs ----------------------------
(***************************************************************************)
(* The verification server's two shared registries, for any number of      *)
(* jobs, pages and requests: what a page sees of a job while the job's     *)
(* thread goes on, and what a request gets from the aggregate cache while  *)
(* commits and other requests go on.                                       *)
(***************************************************************************)
EXTENDS JobRegistry, AggregateCache, TLAPS, SequenceTheorems

Steps == {"lock", "work", "raised", "returned", "reason", "last", "over"}
States == {"running", "done", "failed"}
JobRecord == [step : Steps, state : States, total : Nat, cut : Nat,
              result : BOOLEAN, error : BOOLEAN]
PageRecord == [step : {"closed", "ask", "lines", "cursor", "result", "shown"},
               job : Nat, cursor : Nat, after : Nat, state : States \cup {"none"},
               result : BOOLEAN, error : BOOLEAN, shown : Nat, again : BOOLEAN]

JobsTyped ==
  /\ jobs \in Seq(JobRecord)
  /\ known \subseteq Started
  /\ working \subseteq Started
  /\ starter \in [Starter -> {"idle", "free"}]
  /\ page \in [Page -> PageRecord]
  /\ \A p \in Page : page[p].step # "closed" => page[p].job \in Started

\* Lines are cut only if they were reported, and a job that says done, or is
\* about to, has its result.
JobsSound ==
  \A j \in Started :
    /\ jobs[j].cut <= jobs[j].total
    /\ jobs[j].state = "done" \/ jobs[j].step = "returned" => jobs[j].result

\* A page has shown no more than there is, and will ask for nothing before it.
InOrder(v, job) ==
  /\ ~v.again
  /\ v.step # "closed" => v.shown <= job.total
  /\ v.step \in {"ask", "result"} => v.shown <= job.cut + v.cursor
  /\ v.step = "lines" => v.shown <= job.cut + v.after

\* What a page has read of the state it may go on to find in the result.
HasResult(v, job) ==
  /\ v.step = "ask" => v.state # "done"
  /\ v.step # "closed" /\ v.state = "done" => job.result
  /\ v.step = "shown" /\ v.state = "done" => v.result
  /\ v.step = "closed" => v.state = "none"

View(p) == page[p]
JobOf(p) == jobs[page[p].job]
PagesInv == \A p \in Page : InOrder(View(p), JobOf(p)) /\ HasResult(View(p), JobOf(p))

JobsInv == JobsTyped /\ JobsSound /\ PagesInv
-----------------------------------------------------------------------------
\* A reported line only adds to a job, and a cut never passes the end.
LEMMA ReportedSound ==
  ASSUME NEW job \in JobRecord, job.cut <= job.total
  PROVE  /\ Reported(job) \in JobRecord
         /\ Reported(job).cut <= Reported(job).total
         /\ Reported(job).total >= job.total /\ Reported(job).cut >= job.cut
         /\ Reported(job).step = job.step /\ Reported(job).state = job.state
         /\ Reported(job).result = job.result
<1>1. PICK st \in Steps, sa \in States, to \in Nat, cu \in Nat, re \in BOOLEAN, er \in BOOLEAN :
        job = [step |-> st, state |-> sa, total |-> to, cut |-> cu, result |-> re, error |-> er]
  BY DEF JobRecord
<1> DEFINE cut == IF to + 1 - cu > 2 * MAX_LINES THEN to + 1 - MAX_LINES ELSE cu
<1>2. cut \in Nat /\ cut <= to + 1 /\ cut >= cu
  BY <1>1, JobRegistryAssumption
<1>3. Reported(job) = [step |-> st, state |-> sa, total |-> to + 1, cut |-> cut, result |-> re,
                       error |-> er]
  <2>1. job.total = to /\ job.cut = cu
    BY <1>1
  <2>2. Reported(job) = [job EXCEPT !.total = to + 1, !.cut = cut]
    BY <2>1, Zenon DEF Reported
  <2> HIDE DEF cut
  <2>. QED
    BY <1>1, <2>2
<1> HIDE DEF cut
<1>. QED
  BY <1>1, <1>2, <1>3 DEF JobRecord

\* A step of one job's thread that only adds to what the job has: lines, a cut,
\* a result, and leaves all pages alone.
Grows(r, s) ==
  /\ s \in JobRecord /\ s.cut <= s.total
  /\ s.total >= r.total /\ s.cut >= r.cut
  /\ r.result => s.result
  /\ s.state = "done" \/ s.step = "returned" => s.result

\* A job moves on to a state that its result supports.
LEMMA MarkedGrows ==
  ASSUME NEW r \in JobRecord, r.cut <= r.total, NEW st \in Steps, NEW sa \in States,
         sa = "done" \/ st = "returned" => r.result,
         NEW s, s = [r EXCEPT !.step = st, !.state = sa]
  PROVE  Grows(r, s)
<1>1. PICK s0 \in Steps, s1 \in States, to \in Nat, cu \in Nat, re \in BOOLEAN, er \in BOOLEAN :
        r = [step |-> s0, state |-> s1, total |-> to, cut |-> cu, result |-> re, error |-> er]
  BY DEF JobRecord
<1>2. s = [step |-> st, state |-> sa, total |-> to, cut |-> cu, result |-> re, error |-> er]
  BY <1>1
<1>. QED
  BY <1>1, <1>2 DEF Grows, JobRecord

\* A job whose work returned has its result.
LEMMA ReturnedGrows ==
  ASSUME NEW r \in JobRecord, r.cut <= r.total,
         NEW s, s = [r EXCEPT !.step = "returned", !.result = TRUE]
  PROVE  Grows(r, s)
<1>1. PICK s0 \in Steps, s1 \in States, to \in Nat, cu \in Nat, re \in BOOLEAN, er \in BOOLEAN :
        r = [step |-> s0, state |-> s1, total |-> to, cut |-> cu, result |-> re, error |-> er]
  BY DEF JobRecord
<1>2. s = [step |-> "returned", state |-> s1, total |-> to, cut |-> cu, result |-> TRUE,
           error |-> er]
  BY <1>1
<1>3. s \in JobRecord
  BY <1>2 DEF JobRecord, Steps
<1>. QED
  BY <1>1, <1>2, <1>3 DEF Grows

\* A job that only grows keeps JobsInv.
LEMMA GrowthKeeps ==
  ASSUME JobsInv, working' \subseteq Started, NEW j \in Started,
         NEW s, Grows(jobs[j], s), jobs' = [jobs EXCEPT ![j] = s],
         UNCHANGED <<known, starter, page>>
  PROVE  JobsInv'
<1>1. /\ jobs' \in Seq(JobRecord) /\ Len(jobs') = Len(jobs) /\ jobs'[j] = s
      /\ \A k \in Started \ {j} : jobs'[k] = jobs[k]
  BY DEF JobsInv, JobsTyped, Grows, Started
<1>2. JobsTyped'
  BY <1>1 DEF JobsInv, JobsTyped, Started
<1>3. JobsSound'
  BY <1>1 DEF JobsInv, JobsTyped, JobsSound, Started, Grows
<1>4. ASSUME NEW p \in Page
      PROVE  (InOrder(View(p), JobOf(p)) /\ HasResult(View(p), JobOf(p)))'
  <2>1. /\ page[p] \in PageRecord /\ View(p) = page[p] /\ View(p)' = page[p]
        /\ InOrder(page[p], JobOf(p)) /\ HasResult(page[p], JobOf(p))
    BY DEF JobsInv, JobsTyped, PagesInv, View
  <2>2. CASE page[p].step = "closed"
    BY <2>1, <2>2 DEF InOrder, HasResult
  <2>3. CASE page[p].step # "closed"
    <3>1. page[p].job \in Started /\ JobOf(p) \in JobRecord /\ JobOf(p)' \in JobRecord
      BY <1>1, <2>3 DEF JobsInv, JobsTyped, Started, JobOf
    <3>2. /\ JobOf(p)'.total >= JobOf(p).total
          /\ JobOf(p)'.cut >= JobOf(p).cut
          /\ JobOf(p).result => JobOf(p)'.result
      BY <1>1, <3>1 DEF Grows, JobRecord, JobOf
    <3>3. InOrder(page[p], JobOf(p)')
      BY <2>1, <3>1, <3>2 DEF InOrder, PageRecord, JobRecord
    <3>4. HasResult(page[p], JobOf(p)')
      BY <2>1, <3>2 DEF HasResult
    <3>. QED
      BY <2>1, <3>3, <3>4
  <2>. QED
    BY <2>2, <2>3
<1>. QED
  BY <1>2, <1>3, <1>4 DEF JobsInv, PagesInv

\* Every step of a job's thread lets it grow.
LEMMA ThreadKeeps ==
  ASSUME JobsInv, NEW j \in Started, RunnerStep(j) \/ WorkReports(j)
  PROVE  JobsInv'
<1>1. /\ jobs[j] \in JobRecord /\ jobs[j].cut <= jobs[j].total
      /\ jobs[j].state = "done" \/ jobs[j].step = "returned" => jobs[j].result
      /\ working \subseteq Started
  BY DEF JobsInv, JobsTyped, JobsSound, Started
<1>2. Reported(jobs[j]) \in JobRecord /\ Grows(jobs[j], Reported(jobs[j]))
  BY <1>1, ReportedSound DEF Grows
<1>3. ASSUME NEW s, Sets(j, s), Grows(jobs[j], s), working' \subseteq Started
      PROVE  JobsInv'
  BY <1>3, GrowthKeeps DEF Sets
<1> USE DEF At
<1>4. CASE LockTaken(j)
  <2>1. CASE working = {}
    <3> DEFINE s == [jobs[j] EXCEPT !.step = "work"]
    <3>1. Grows(jobs[j], s)
      BY <1>1, <1>4 DEF Grows, JobRecord, Steps, LockTaken
    <3>. QED
      BY <1>3, <1>4, <2>1, <3>1 DEF LockTaken
  <2>2. CASE working # {}
    <3> DEFINE s == [jobs[j] EXCEPT !.step = "raised"]
    <3>1. Grows(jobs[j], s)
      BY <1>1, <1>4 DEF Grows, JobRecord, Steps, LockTaken
    <3>. QED
      BY <1>1, <1>3, <1>4, <2>2, <3>1 DEF LockTaken
  <2>. QED
    BY <2>1, <2>2
<1>5. CASE WorkReturns(j)
  <2> DEFINE s == [jobs[j] EXCEPT !.step = "returned", !.result = TRUE]
  <2>1. Grows(jobs[j], s)
    BY <1>1, ReturnedGrows
  <2>. QED
    BY <1>1, <1>3, <1>5, <2>1 DEF WorkReturns
<1>6. CASE WorkRaises(j)
  <2> DEFINE s == [jobs[j] EXCEPT !.step = "raised"]
  <2>1. Grows(jobs[j], s)
    BY <1>1 DEF Grows, JobRecord, Steps
  <2>. QED
    BY <1>1, <1>3, <1>6, <2>1 DEF WorkRaises
<1>7. CASE SaysDone(j)
  <2> DEFINE s == [jobs[j] EXCEPT !.step = "last", !.state = "done"]
  <2>1. Grows(jobs[j], s)
    BY <1>1, <1>7, MarkedGrows DEF Steps, States, SaysDone
  <2>. QED
    BY <1>1, <1>3, <1>7, <2>1 DEF SaysDone
<1>8. CASE SaysFailed(j)
  <2> DEFINE s == [jobs[j] EXCEPT !.step = "reason", !.state = "failed"]
  <2>1. Grows(jobs[j], s)
    BY <1>1, MarkedGrows DEF Steps, States
  <2>. QED
    BY <1>1, <1>3, <1>8, <2>1 DEF SaysFailed
<1>9. CASE SaysWhy(j)
  <2> DEFINE s == [Reported(jobs[j]) EXCEPT !.step = "last", !.error = TRUE]
  <2>1. Grows(jobs[j], s)
    BY <1>2 DEF Grows, JobRecord, Steps
  <2>. QED
    BY <1>1, <1>3, <1>9, <2>1 DEF SaysWhy
<1>10. CASE Ends(j)
  <2> DEFINE s == [jobs[j] EXCEPT !.step = "over"]
  <2>1. Grows(jobs[j], s)
    BY <1>1 DEF Grows, JobRecord, Steps
  <2>. QED
    BY <1>1, <1>3, <1>10, <2>1 DEF Ends
<1>11. CASE WorkReports(j)
  BY <1>1, <1>2, <1>3, <1>11 DEF WorkReports
<1>. QED
  BY <1>4, <1>5, <1>6, <1>7, <1>8, <1>9, <1>10, <1>11 DEF RunnerStep

\* Submitting a job keeps JobsInv.
LEMMA SubmissionKeeps ==
  ASSUME JobsInv, NEW r \in Starter, FoundIdle(r) \/ Submitted(r)
  PROVE  JobsInv'
<1>1. CASE FoundIdle(r)
  BY <1>1 DEF FoundIdle, JobsInv, JobsTyped, JobsSound, PagesInv, View, JobOf, Started
<1>2. CASE Submitted(r)
  <2>1. NewJob \in JobRecord /\ NewJob.cut <= NewJob.total
        /\ NewJob.state = "running" /\ NewJob.step = "lock"
    BY DEF NewJob, JobRecord, Steps, States
  <2>2. /\ jobs' \in Seq(JobRecord) /\ Len(jobs') = Len(jobs) + 1 /\ jobs'[Len(jobs) + 1] = NewJob
        /\ \A k \in Started : jobs'[k] = jobs[k]
    BY <1>2, <2>1 DEF Submitted, JobsInv, JobsTyped, Started
  <2>3. Started' = Started \cup {Len(jobs) + 1}
    BY <2>2 DEF Started, JobsInv, JobsTyped
  <2>4. Pruned(known) \subseteq known
    BY DEF Pruned
  <2>5. JobsTyped'
    BY <1>2, <2>2, <2>3, <2>4 DEF Submitted, JobsInv, JobsTyped
  <2>6. JobsSound'
    BY <2>1, <2>2, <2>3 DEF JobsInv, JobsSound
  <2>7. PagesInv'
    <3> SUFFICES ASSUME NEW p \in Page
                 PROVE  (InOrder(View(p), JobOf(p)) /\ HasResult(View(p), JobOf(p)))'
      BY DEF PagesInv
    <3>1. /\ View(p) = page[p] /\ View(p)' = page[p]
          /\ page[p].step # "closed" => page[p].job \in Started
      BY <1>2 DEF Submitted, JobsInv, JobsTyped, View
    <3>2. InOrder(page[p], JobOf(p)) /\ HasResult(page[p], JobOf(p))
      BY <3>1 DEF JobsInv, PagesInv
    <3>3. page[p].step # "closed" => JobOf(p)' = JobOf(p)
      BY <1>2, <2>2, <3>1 DEF JobOf, Submitted
    <3>4. CASE page[p].step = "closed"
      BY <3>1, <3>2, <3>4 DEF InOrder, HasResult
    <3>5. CASE page[p].step # "closed"
      BY <3>1, <3>2, <3>3, <3>5
    <3>. QED
      BY <3>4, <3>5
  <2>. QED
    BY <2>5, <2>6, <2>7 DEF JobsInv
<1>. QED
  BY <1>1, <1>2

\* The five reads of a view and the opening of a page, each on the view alone.
Good(s, job) ==
  /\ s \in PageRecord /\ s.job \in Started /\ s.step # "closed"
  /\ InOrder(s, job) /\ HasResult(s, job)

\* A page that reads a sound view keeps JobsInv.
LEMMA ViewKeeps ==
  ASSUME JobsInv, NEW p \in Page, NEW s, Good(s, jobs[s.job]),
         page' = [page EXCEPT ![p] = s], UNCHANGED <<jobs, known, working, starter>>
  PROVE  JobsInv'
<1>1. /\ page' \in [Page -> PageRecord] /\ page'[p] = s
      /\ \A q \in Page \ {p} : page'[q] = page[q]
  BY DEF JobsInv, JobsTyped, Good
<1>2. JobsTyped'
  BY <1>1 DEF JobsInv, JobsTyped, Started, Good
<1>3. JobsSound'
  BY DEF JobsInv, JobsSound, Started
<1>4. ASSUME NEW q \in Page
      PROVE  (InOrder(View(q), JobOf(q)) /\ HasResult(View(q), JobOf(q)))'
  <2>1. CASE q = p
    BY <1>1, <2>1 DEF View, JobOf, Good
  <2>2. CASE q # p
    BY <1>1, <2>2 DEF View, JobOf, JobsInv, PagesInv
  <2>. QED
    BY <2>1, <2>2
<1>. QED
  BY <1>2, <1>3, <1>4 DEF JobsInv, PagesInv

\* What each read of a view makes of what the page has of it so far.
StateView(v, job) ==
  [v EXCEPT !.step = "lines",
     !.state = job.state,
     !.after = IF v.cursor < job.total - job.cut THEN v.cursor ELSE job.total - job.cut]
LinesView(v, job) ==
  [v EXCEPT !.step = "cursor",
     !.again = (job.cut + v.after + 1 <= v.shown /\ job.cut + v.after + 1 <= job.total),
     !.shown = IF job.cut + v.after + 1 <= job.total THEN job.total ELSE v.shown]
CursorView(v, job) ==
  [v EXCEPT !.step = "result",
     !.cursor = job.total - job.cut]
ResultView(v, job) ==
  [v EXCEPT !.step = IF v.state = "running" THEN "ask" ELSE "shown",
     !.result = job.result,
     !.error = job.error]

\* The read of the state gives a sound view,
LEMMA StateRead ==
  ASSUME NEW job \in JobRecord, job.cut <= job.total, job.state = "done" => job.result,
         NEW v \in PageRecord, v.step = "ask", v.job \in Started,
         InOrder(v, job), HasResult(v, job)
  PROVE  Good(StateView(v, job), job) /\ StateView(v, job).job = v.job
<1> DEFINE s == StateView(v, job)
<1>1. /\ v.shown \in Nat /\ v.cursor \in Nat /\ v.after \in Nat
      /\ job.total \in Nat /\ job.cut \in Nat /\ v.state \in States \cup {"none"}
      /\ job.state \in States
  BY DEF PageRecord, JobRecord
<1>2. /\ s.step = "lines"
      /\ s.state = job.state
      /\ s.after = IF v.cursor < job.total - job.cut THEN v.cursor ELSE job.total - job.cut
      /\ s.job = v.job /\ s.cursor = v.cursor /\ s.result = v.result /\ s.shown = v.shown /\ s.again = v.again
  BY DEF PageRecord, StateView
<1>3. s \in PageRecord
  <2>1. job.total - job.cut \in Nat
    BY <1>1
  <2>. QED
    BY <1>1, <2>1 DEF PageRecord, StateView
<1> HIDE DEF s
<1>9. Good(s, job) /\ s.job = v.job
  BY <1>1, <1>2, <1>3 DEF Good, InOrder, HasResult
<1>. QED
  BY <1>9 DEF s

\* so does the read of the lines,
LEMMA LinesRead ==
  ASSUME NEW job \in JobRecord, job.cut <= job.total, job.state = "done" => job.result,
         NEW v \in PageRecord, v.step = "lines", v.job \in Started,
         InOrder(v, job), HasResult(v, job)
  PROVE  Good(LinesView(v, job), job) /\ LinesView(v, job).job = v.job
<1> DEFINE s == LinesView(v, job)
<1>1. /\ v.shown \in Nat /\ v.cursor \in Nat /\ v.after \in Nat
      /\ job.total \in Nat /\ job.cut \in Nat /\ v.state \in States \cup {"none"}
      /\ job.state \in States
  BY DEF PageRecord, JobRecord
<1>2. /\ s.step = "cursor"
      /\ s.again = (job.cut + v.after + 1 <= v.shown /\ job.cut + v.after + 1 <= job.total)
      /\ s.shown = IF job.cut + v.after + 1 <= job.total THEN job.total ELSE v.shown
      /\ s.job = v.job /\ s.cursor = v.cursor /\ s.after = v.after /\ s.state = v.state /\ s.result = v.result
  BY DEF PageRecord, LinesView
<1>3. s \in PageRecord
  BY <1>1 DEF PageRecord, JobRecord, LinesView
<1> HIDE DEF s
<1>4. ~s.again
  <2>1. ~(job.cut + v.after + 1 <= v.shown)
    BY <1>1 DEF InOrder
  <2>. QED
    BY <1>2, <2>1, Zenon
<1>5. s.shown <= job.total
  BY <1>1, <1>2 DEF InOrder
<1>9. Good(s, job) /\ s.job = v.job
  BY <1>1, <1>2, <1>3, <1>4, <1>5 DEF Good, InOrder, HasResult
<1>. QED
  BY <1>9 DEF s

\* of the cursor,
LEMMA CursorRead ==
  ASSUME NEW job \in JobRecord, job.cut <= job.total, job.state = "done" => job.result,
         NEW v \in PageRecord, v.step = "cursor", v.job \in Started,
         InOrder(v, job), HasResult(v, job)
  PROVE  Good(CursorView(v, job), job) /\ CursorView(v, job).job = v.job
<1> DEFINE s == CursorView(v, job)
<1>1. /\ v.shown \in Nat /\ v.cursor \in Nat /\ v.after \in Nat
      /\ job.total \in Nat /\ job.cut \in Nat /\ v.state \in States \cup {"none"}
      /\ job.state \in States
  BY DEF PageRecord, JobRecord
<1>2. /\ s.step = "result"
      /\ s.cursor = job.total - job.cut
      /\ s.job = v.job /\ s.after = v.after /\ s.state = v.state /\ s.result = v.result /\ s.shown = v.shown /\ s.again = v.again
  BY DEF PageRecord, CursorView
<1>3. s \in PageRecord
  <2>1. job.total - job.cut \in Nat
    BY <1>1
  <2>. QED
    BY <1>1, <2>1 DEF PageRecord, CursorView
<1> HIDE DEF s
<1>9. Good(s, job) /\ s.job = v.job
  BY <1>1, <1>2, <1>3 DEF Good, InOrder, HasResult
<1>. QED
  BY <1>9 DEF s

\* and of the result.
LEMMA ResultRead ==
  ASSUME NEW job \in JobRecord, job.cut <= job.total, job.state = "done" => job.result,
         NEW v \in PageRecord, v.step = "result", v.job \in Started,
         InOrder(v, job), HasResult(v, job)
  PROVE  Good(ResultView(v, job), job) /\ ResultView(v, job).job = v.job
<1> DEFINE s == ResultView(v, job)
<1>1. /\ v.shown \in Nat /\ v.cursor \in Nat /\ v.after \in Nat
      /\ job.total \in Nat /\ job.cut \in Nat /\ v.state \in States \cup {"none"}
      /\ job.state \in States
  BY DEF PageRecord, JobRecord
<1>2. /\ s.step = IF v.state = "running" THEN "ask" ELSE "shown"
      /\ s.result = job.result
      /\ s.error = job.error
      /\ s.job = v.job /\ s.cursor = v.cursor /\ s.after = v.after /\ s.state = v.state /\ s.shown = v.shown /\ s.again = v.again
  BY DEF PageRecord, ResultView
<1>3. s \in PageRecord
  BY <1>1 DEF PageRecord, JobRecord, ResultView
<1> HIDE DEF s
<1>9. Good(s, job) /\ s.job = v.job
  BY <1>1, <1>2, <1>3 DEF Good, InOrder, HasResult
<1>. QED
  BY <1>9 DEF s

Opened(j) == [NoPage EXCEPT !.step = "ask", !.job = j]

\* A page opens with nothing shown.
LEMMA PageOpened ==
  ASSUME NEW j \in Started, j \in Nat, jobs[j] \in JobRecord, jobs[j].cut <= jobs[j].total
  PROVE  Good(Opened(j), jobs[j]) /\ Opened(j).job = j
<1> DEFINE s == Opened(j)
<1>1. "none" \in States \cup {"none"}
  OBVIOUS
<1>2. s \in PageRecord
  BY <1>1 DEF PageRecord, Opened, NoPage
<1>3. jobs[j].total \in Nat /\ jobs[j].cut \in Nat
  BY DEF JobRecord
<1>4. /\ s.step = "ask" /\ s.job = j /\ s.cursor = 0 /\ s.state = "none"
      /\ s.shown = 0 /\ s.again = FALSE
  BY DEF Opened, NoPage
<1> HIDE DEF s
<1>5. 0 <= jobs[j].total /\ 0 <= jobs[j].cut + 0
  BY <1>3
<1>6. InOrder(s, jobs[j])
  BY <1>4, <1>5 DEF InOrder
<1>7. HasResult(s, jobs[j])
  BY <1>4 DEF HasResult
<1>8. Good(s, jobs[j]) /\ s.job = j
  BY <1>2, <1>4, <1>6, <1>7 DEF Good
<1>. QED
  BY <1>8 DEF s

\* Every step of a page keeps JobsInv.
LEMMA PageKeeps ==
  ASSUME JobsInv, NEW p \in Page, PageStep(p) \/ \E j \in known : Watches(p, j)
  PROVE  JobsInv'
<1>1. /\ page[p] \in PageRecord /\ InOrder(page[p], JobOf(p)) /\ HasResult(page[p], JobOf(p))
  BY DEF JobsInv, JobsTyped, PagesInv, View
<1>2. ASSUME NEW j \in Started
      PROVE  /\ jobs[j] \in JobRecord /\ jobs[j].cut <= jobs[j].total
             /\ jobs[j].state = "done" => jobs[j].result
  BY DEF JobsInv, JobsTyped, JobsSound, Started
<1>3. /\ known \subseteq Started
      /\ page[p].step # "closed" => page[p].job \in Started
  BY DEF JobsInv, JobsTyped
<1>4. ASSUME page[p].step # "closed"
      PROVE  /\ page[p].job \in Started /\ JobOf(p) = jobs[page[p].job]
             /\ JobOf(p) \in JobRecord /\ JobOf(p).cut <= JobOf(p).total
             /\ JobOf(p).state = "done" => JobOf(p).result
  BY <1>2, <1>3, <1>4 DEF JobOf
<1>5. ASSUME NEW s, Shows(p, s), Good(s, JobOf(p)), s.job = page[p].job
      PROVE  JobsInv'
  BY <1>5, ViewKeeps DEF Shows, JobOf
<1>6. ASSUME NEW j \in known, Watches(p, j)
      PROVE  JobsInv'
  <2>1. j \in Started /\ j \in Nat /\ jobs[j] \in JobRecord /\ jobs[j].cut <= jobs[j].total
    BY <1>2, <1>3 DEF Started, JobsInv, JobsTyped
  <2>2. Good(Opened(j), jobs[j]) /\ Opened(j).job = j
    BY <2>1, PageOpened
  <2>3. Shows(p, Opened(j))
    BY <1>6 DEF Watches, Opened
  <2>. QED
    BY <2>2, <2>3, ViewKeeps DEF Shows
<1>7. CASE AsksState(p)
  <2>1. page[p].step = "ask" /\ Shows(p, StateView(page[p], JobOf(p)))
    BY <1>7 DEF AsksState, Kept, JobOf, StateView
  <2>2. /\ Good(StateView(page[p], JobOf(p)), JobOf(p))
        /\ StateView(page[p], JobOf(p)).job = page[p].job
    BY <1>1, <1>4, <2>1, StateRead
  <2>. QED
    BY <1>5, <2>1, <2>2
<1>8. CASE AsksInVain(p)
  <2> DEFINE s == [page[p] EXCEPT !.step = "shown"]
  <2>1. page[p].step = "ask"
    BY <1>8 DEF AsksInVain
  <2>2. s \in PageRecord /\ s.step = "shown"
        /\ s.job = page[p].job /\ s.state = page[p].state /\ s.shown = page[p].shown
        /\ s.again = page[p].again
    BY <1>1 DEF PageRecord
  <2>3. Good(s, JobOf(p))
    BY <1>1, <1>4, <2>1, <2>2 DEF Good, InOrder, HasResult
  <2>. QED
    BY <1>5, <1>8, <2>2, <2>3 DEF AsksInVain
<1>9. CASE ReadsLines(p)
  <2>1. page[p].step = "lines" /\ Shows(p, LinesView(page[p], JobOf(p)))
    BY <1>9 DEF ReadsLines, FirstNew, JobOf, LinesView
  <2>2. /\ Good(LinesView(page[p], JobOf(p)), JobOf(p))
        /\ LinesView(page[p], JobOf(p)).job = page[p].job
    BY <1>1, <1>4, <2>1, LinesRead
  <2>. QED
    BY <1>5, <2>1, <2>2
<1>10. CASE ReadsCursor(p)
  <2>1. page[p].step = "cursor" /\ Shows(p, CursorView(page[p], JobOf(p)))
    BY <1>10 DEF ReadsCursor, Kept, JobOf, CursorView
  <2>2. /\ Good(CursorView(page[p], JobOf(p)), JobOf(p))
        /\ CursorView(page[p], JobOf(p)).job = page[p].job
    BY <1>1, <1>4, <2>1, CursorRead
  <2>. QED
    BY <1>5, <2>1, <2>2
<1>11. CASE ReadsResult(p)
  <2>1. page[p].step = "result" /\ Shows(p, ResultView(page[p], JobOf(p)))
    BY <1>11 DEF ReadsResult, JobOf, ResultView
  <2>2. /\ Good(ResultView(page[p], JobOf(p)), JobOf(p))
        /\ ResultView(page[p], JobOf(p)).job = page[p].job
    BY <1>1, <1>4, <2>1, ResultRead
  <2>. QED
    BY <1>5, <2>1, <2>2
<1>. QED
  BY <1>6, <1>7, <1>8, <1>9, <1>10, <1>11 DEF PageStep

\* JobsInv holds initially.
LEMMA FirstJobs == JobsInit => JobsInv
  BY DEF JobsInit, JobsInv, JobsTyped, JobsSound, PagesInv, InOrder, HasResult, View, JobOf,
         Started, NoPage, PageRecord

\* JobsInv is inductive.
LEMMA JobsKept == JobsInv /\ [JobsNext]_jobVars => JobsInv'
<1>. SUFFICES ASSUME JobsInv, [JobsNext]_jobVars PROVE JobsInv'
  OBVIOUS
<1>1. CASE UNCHANGED jobVars
  BY <1>1 DEF jobVars, JobsInv, JobsTyped, JobsSound, PagesInv, View, JobOf, Started
<1>2. CASE JobsNext
  BY <1>2, SubmissionKeeps, ThreadKeeps, PageKeeps DEF JobsNext
<1>. QED
  BY <1>1, <1>2

\* However the lines of a job are cut while a page reads them, the page shows
\* none of them twice.
THEOREM LinesInOrderHolds == JobsSpec => []LinesInOrder
<1>1. JobsInv => LinesInOrder
  BY DEF JobsInv, PagesInv, View, InOrder, LinesInOrder
<1>. QED
  BY <1>1, FirstJobs, JobsKept, PTL DEF JobsSpec

\* A page that stops at a job that is done has its result, although the state
\* and the result are read at different moments.
THEOREM DoneHasResultHolds == JobsSpec => []DoneHasResult
<1>1. JobsInv => DoneHasResult
  BY DEF JobsInv, PagesInv, View, HasResult, DoneHasResult
<1>. QED
  BY <1>1, FirstJobs, JobsKept, PTL DEF JobsSpec

-----------------------------------------------------------------------------

Stamp == Nat \X Nat
Entry == Stamp \X Query \X Nat
AskRecord == [step : {"idle", "stamp", "look", "touch", "build", "trim", "answered", "gone"},
              query : SUBSET Query, stamp : Stamp, since : Nat, value : Nat]

CacheTyped ==
  /\ grows \in BOOLEAN
  /\ version \in Nat /\ size \in Nat /\ log \in Nat /\ grown \in Nat
  /\ cache \in Seq(Entry)
  /\ asker \in [Asker -> AskRecord]
  /\ \A a \in Asker : asker[a].step # "idle" => asker[a].query # {}

Counted(stamp) == stamp[1] + stamp[2]

\* While the files grow with every commit, a stamp counts the commits before it.
StampCounts == grown = log /\ size + log = version

\* Nothing is kept under a stamp that it is older than.
EntryFresh(e) == e[3] >= Counted(e[1])

\* A request's stamp is not older than the request, nor is what it has got.
AskerFresh(r) ==
  /\ r.since <= version
  /\ r.step \in {"look", "touch", "build"} =>
       r.since <= Counted(r.stamp) /\ Counted(r.stamp) <= version
  /\ r.step \in {"trim", "answered"} => r.since <= r.value

CacheInv ==
  /\ CacheTyped
  /\ grows =>
       /\ StampCounts
       /\ \A k \in 1..Len(cache) : EntryFresh(cache[k])
       /\ \A a \in Asker : AskerFresh(asker[a])
-----------------------------------------------------------------------------
\* A request that moves to a well-formed and fresh record, with a cache that
\* is well-formed and fresh, keeps the invariant.
LEMMA MoveKeeps ==
  ASSUME CacheInv, NEW a \in Asker, NEW r \in AskRecord, Moves(a, r),
         r.step # "idle" => r.query # {},
         grows => AskerFresh(r),
         cache' \in Seq(Entry),
         grows => \A k \in 1..Len(cache') : EntryFresh(cache'[k])
  PROVE  CacheInv'
<1>1. /\ UNCHANGED <<grows, version, size, log, grown>>
      /\ asker' = [asker EXCEPT ![a] = r]
  BY DEF Moves, storeFiles
<1>2. asker' \in [Asker -> AskRecord] /\ \A b \in Asker : asker'[b] = IF b = a THEN r ELSE asker[b]
  BY <1>1 DEF CacheInv, CacheTyped
<1>3. CacheTyped'
  BY <1>1, <1>2 DEF CacheInv, CacheTyped
<1>4. ASSUME grows PROVE \A b \in Asker : AskerFresh(asker[b])'
  BY <1>1, <1>2, <1>4 DEF CacheInv, AskerFresh
<1>. QED
  BY <1>1, <1>3, <1>4 DEF CacheInv, StampCounts

\* A commit makes stamps that are held and answers under way no fresher, but
\* no request older.
LEMMA CommitKeeps ==
  ASSUME CacheInv, RowsCommitted \/ SameSizeCommitted
  PROVE  CacheInv'
<1>1. PICK new \in BOOLEAN : Commits(new) /\ (grows => new /\ log < LogPages)
  BY DEF RowsCommitted, SameSizeCommitted
<1>2. /\ version \in Nat /\ size \in Nat /\ log \in Nat /\ grown \in Nat
      /\ asker \in [Asker -> AskRecord]
  BY DEF CacheInv, CacheTyped
<1>3. /\ version' = version + 1 /\ UNCHANGED <<grows, size, cache, asker>>
      /\ log' \in Nat /\ grown' \in Nat
      /\ grows => log' = log + 1 /\ grown' = grown + 1
  BY <1>1, <1>2 DEF Commits
<1>4. CacheTyped'
  BY <1>2, <1>3 DEF CacheInv, CacheTyped
<1>5. ASSUME grows, NEW a \in Asker PROVE AskerFresh(asker[a])'
  <2>1. AskerFresh(asker[a]) /\ asker[a] \in AskRecord
    BY <1>2, <1>5 DEF CacheInv
  <2>2. asker[a].since \in Nat /\ Counted(asker[a].stamp) \in Nat
    BY <2>1 DEF AskRecord, Counted, Stamp
  <2>. QED
    BY <1>2, <1>3, <2>1, <2>2 DEF AskerFresh
<1>6. grows => StampCounts'
  BY <1>2, <1>3 DEF CacheInv, StampCounts
<1>. QED
  BY <1>3, <1>4, <1>5, <1>6 DEF CacheInv

\* Closing the store moves the log into the file; the sum stays.
LEMMA CloseKeeps ==
  ASSUME CacheInv, StoreClosed
  PROVE  CacheInv'
<1>1. /\ UNCHANGED <<grows, version, cache, asker>>
      /\ log' = 0 /\ size' = size + grown /\ grown' = 0
  BY DEF StoreClosed
<1>2. CacheTyped'
  BY <1>1 DEF CacheInv, CacheTyped
<1>3. grows => StampCounts'
  BY <1>1 DEF CacheInv, CacheTyped, StampCounts
<1>. QED
  BY <1>1, <1>2, <1>3 DEF CacheInv, AskerFresh

\* Only requests with a query of theirs look it up.
LEMMA QueryKnown ==
  ASSUME CacheInv, NEW a \in Asker, asker[a].step # "idle"
  PROVE  QueryOf(a) \in Query
BY DEF CacheInv, CacheTyped, QueryOf, AskRecord

\* What is kept under a stamp that counts no more than v is fresh.
LEMMA KeptFresh ==
  ASSUME CacheInv, NEW s \in Stamp, NEW q \in Query, NEW v \in Nat,
         grows => v >= Counted(s)
  PROVE  /\ WithEntry(s, q, v) \in Seq(Entry)
         /\ grows => \A k \in 1..Len(WithEntry(s, q, v)) : EntryFresh(WithEntry(s, q, v)[k])
<1>1. cache \in Seq(Entry) /\ <<s, q, v>> \in Entry
  BY DEF CacheInv, CacheTyped, Entry
<1>2. grows => EntryFresh(<<s, q, v>>)
  BY DEF EntryFresh
<1>3. CASE Entries(s, q) = {}
  <2>1. WithEntry(s, q, v) = Append(cache, <<s, q, v>>)
    BY <1>3 DEF WithEntry
  <2>. QED
    BY <1>1, <1>2, <2>1 DEF CacheInv
<1>4. CASE Entries(s, q) # {}
  <2> DEFINE kept == [k \in 1..Len(cache) |-> IF k \in Entries(s, q) THEN <<s, q, v>> ELSE cache[k]]
  <2>1. WithEntry(s, q, v) = kept
    BY <1>4 DEF WithEntry
  <2>2. kept \in Seq(Entry) /\ Len(kept) = Len(cache)
    BY <1>1
  <2>3. ASSUME grows, NEW k \in 1..Len(cache) PROVE EntryFresh(kept[k])
    BY <1>1, <1>2, <2>3 DEF CacheInv
  <2>. QED
    BY <2>1, <2>2, <2>3
<1>. QED
  BY <1>3, <1>4

\* Moving an entry to the back keeps every entry what it was.
LEMMA TouchedFresh ==
  ASSUME CacheInv, NEW k \in 1..Len(cache)
  PROVE  /\ Append(RemoveAt(cache, k), cache[k]) \in Seq(Entry)
         /\ grows => \A i \in 1..Len(Append(RemoveAt(cache, k), cache[k])) :
                       EntryFresh(Append(RemoveAt(cache, k), cache[k])[i])
<1> DEFINE moved == Append(RemoveAt(cache, k), cache[k])
<1>1. cache \in Seq(Entry) /\ Len(cache) \in Nat /\ k \in 1..Len(cache) /\ cache[k] \in Entry
  BY DEF CacheInv, CacheTyped
<1> DEFINE before == SubSeq(cache, 1, k - 1)
           after == SubSeq(cache, k + 1, Len(cache))
<1>2. /\ before \in Seq(Entry) /\ Len(before) = k - 1
      /\ \A i \in 1..(k - 1) : before[i] = cache[i]
  BY <1>1
<1>3. /\ after \in Seq(Entry) /\ Len(after) = Len(cache) - k
      /\ \A i \in 1..(Len(cache) - k) : after[i] = cache[k + i]
  BY <1>1
<1> DEFINE rest == before \o after
<1>4. moved = Append(rest, cache[k])
  BY DEF RemoveAt
<1> HIDE DEF before, after
<1>5. /\ rest \in Seq(Entry) /\ Len(rest) = Len(cache) - 1
      /\ \A i \in 1..(Len(cache) - 1) : rest[i] = IF i < k THEN cache[i] ELSE cache[i + 1]
  <2>1. /\ rest \in Seq(Entry) /\ Len(rest) = Len(before) + Len(after)
        /\ \A i \in 1..(Len(before) + Len(after)) :
             rest[i] = IF i <= Len(before) THEN before[i] ELSE after[i - Len(before)]
    BY <1>2, <1>3, ConcatProperties
  <2> HIDE DEF rest
  <2>2. ASSUME NEW i \in 1..(Len(cache) - 1), i < k PROVE rest[i] = cache[i]
    <3>1. i \in 1..(k - 1) /\ i \in 1..(Len(before) + Len(after)) /\ i <= Len(before)
      BY <1>1, <1>2, <1>3, <2>2
    <3>. QED
      BY <1>2, <2>1, <3>1
  <2>3. ASSUME NEW i \in 1..(Len(cache) - 1), ~(i < k) PROVE rest[i] = cache[i + 1]
    <3>1. /\ i - (k - 1) \in 1..(Len(cache) - k) /\ k + (i - (k - 1)) = i + 1
          /\ i \in 1..(Len(before) + Len(after)) /\ ~(i <= Len(before))
      BY <1>1, <1>2, <1>3, <2>3
    <3>. QED
      BY <1>2, <1>3, <2>1, <3>1
  <2>4. Len(before) + Len(after) = Len(cache) - 1
    BY <1>1, <1>2, <1>3
  <2>. QED
    BY <2>1, <2>2, <2>3, <2>4
<1> HIDE DEF rest, moved
<1>6. /\ moved \in Seq(Entry) /\ Len(moved) = Len(cache)
      /\ \A i \in 1..Len(cache) : \E n \in 1..Len(cache) : moved[i] = cache[n]
  BY <1>1, <1>4, <1>5
<1>7. ASSUME grows, NEW i \in 1..Len(moved) PROVE EntryFresh(moved[i])
  BY <1>6, <1>7 DEF CacheInv
<1>. QED
  BY <1>6, <1>7 DEF moved

\* Every step of a request keeps the invariant.
LEMMA AskKeeps ==
  ASSUME CacheInv, NEW a \in Asker,
         \/ \E q \in Query : RequestOpens(a, q)
         \/ Stamped(a) \/ Looked(a) \/ Touched(a) \/ TouchFails(a) \/ Built(a) \/ Trimmed(a)
  PROVE  CacheInv'
<1>1. /\ asker[a] \in AskRecord /\ cache \in Seq(Entry) /\ version \in Nat
      /\ size \in Nat /\ log \in Nat
      /\ asker[a].step # "idle" => asker[a].query # {}
      /\ grows => AskerFresh(asker[a]) /\ StampCounts
      /\ grows => \A k \in 1..Len(cache) : EntryFresh(cache[k])
  BY DEF CacheInv, CacheTyped
<1>2. asker[a].stamp \in Stamp /\ asker[a].since \in Nat /\ Counted(asker[a].stamp) \in Nat
  BY <1>1 DEF AskRecord, Counted, Stamp
<1>3. ASSUME NEW q \in Query, RequestOpens(a, q) PROVE CacheInv'
  <2> DEFINE r == [NoRequest EXCEPT !.step = "stamp", !.query = {q}, !.since = version]
  <2>1. r \in AskRecord /\ r.step = "stamp" /\ r.query = {q} /\ r.since = version
    BY <1>1, <1>3 DEF NoRequest, AskRecord, Stamp
  <2>2. Moves(a, r) /\ cache' = cache
    BY <1>3 DEF RequestOpens
  <2>. QED
    <3>1. grows => AskerFresh(r)
      BY <1>1, <2>1 DEF AskerFresh
    <3>2. r.step # "idle" => r.query # {}
      BY <2>1
    <3>3. /\ cache' \in Seq(Entry)
          /\ grows => \A k \in 1..Len(cache') : EntryFresh(cache'[k])
      BY <1>1, <2>2
    <3> HIDE DEF r
    <3>. QED
      BY <2>1, <2>2, <3>1, <3>2, <3>3, MoveKeeps
<1>4. CASE Stamped(a)
  <2> DEFINE r == [asker[a] EXCEPT !.step = "look", !.stamp = <<size, log>>]
  <2>1. /\ r \in AskRecord /\ r.step = "look" /\ r.query = asker[a].query
        /\ r.since = asker[a].since /\ r.stamp = <<size, log>>
    BY <1>1 DEF AskRecord, Stamp
  <2>2. Moves(a, r) /\ cache' = cache /\ asker[a].step = "stamp"
    BY <1>4 DEF Stamped
  <2>3. grows => Counted(r.stamp) = version
    BY <1>1, <2>1 DEF Counted, StampCounts
  <2>4. grows => AskerFresh(r)
    BY <1>1, <1>2, <2>1, <2>3 DEF AskerFresh
  <2>. QED
    BY <1>1, <2>1, <2>2, <2>4, MoveKeeps
<1>5. CASE Looked(a)
  <2>1. PICK st \in {"touch", "build"} : Moves(a, [asker[a] EXCEPT !.step = st])
    BY <1>5, Zenon DEF Looked
  <2> DEFINE r == [asker[a] EXCEPT !.step = st]
  <2>2. /\ r \in AskRecord /\ r.step = st /\ r.query = asker[a].query
        /\ r.since = asker[a].since /\ r.stamp = asker[a].stamp
    BY <1>1 DEF AskRecord
  <2>3. cache' = cache /\ asker[a].step = "look"
    BY <1>5 DEF Looked
  <2>4. grows => AskerFresh(r)
    BY <1>1, <2>2, <2>3 DEF AskerFresh
  <2>. QED
    BY <1>1, <2>1, <2>2, <2>3, <2>4, MoveKeeps
<1>6. CASE Touched(a)
  <2>1. PICK k \in Entries(asker[a].stamp, QueryOf(a)) :
          /\ Moves(a, [asker[a] EXCEPT !.step = "answered", !.value = cache[k][3]])
          /\ cache' = Append(RemoveAt(cache, k), cache[k])
    BY <1>6, Zenon DEF Touched
  <2>2. k \in 1..Len(cache) /\ cache[k][1] = asker[a].stamp /\ asker[a].step = "touch"
    BY <1>6 DEF Entries, Touched
  <2>3. cache[k] \in Entry /\ cache[k][3] \in Nat
    BY <1>1, <2>2 DEF Entry
  <2> DEFINE r == [asker[a] EXCEPT !.step = "answered", !.value = cache[k][3]]
  <2>4. /\ r \in AskRecord /\ r.step = "answered" /\ r.query = asker[a].query
        /\ r.since = asker[a].since /\ r.value = cache[k][3]
    BY <1>1, <2>3 DEF AskRecord
  <2>5. grows => AskerFresh(r)
    BY <1>1, <1>2, <2>2, <2>3, <2>4 DEF AskerFresh, EntryFresh
  <2>. QED
    BY <1>1, <2>1, <2>2, <2>4, <2>5, TouchedFresh, MoveKeeps
<1>7. CASE TouchFails(a)
  <2> DEFINE r == [asker[a] EXCEPT !.step = "gone"]
  <2>1. /\ r \in AskRecord /\ r.step = "gone" /\ r.query = asker[a].query
        /\ r.since = asker[a].since
    BY <1>1 DEF AskRecord
  <2>2. Moves(a, r) /\ cache' = cache /\ asker[a].step = "touch"
    BY <1>7 DEF TouchFails
  <2>3. grows => AskerFresh(r)
    BY <1>1, <2>1 DEF AskerFresh
  <2>. QED
    BY <1>1, <2>1, <2>2, <2>3, MoveKeeps
<1>8. CASE Built(a)
  <2> DEFINE r == [asker[a] EXCEPT !.step = "trim", !.value = version]
  <2>1. /\ r \in AskRecord /\ r.step = "trim" /\ r.query = asker[a].query
        /\ r.since = asker[a].since /\ r.value = version
    BY <1>1 DEF AskRecord
  <2>2. /\ Moves(a, r) /\ asker[a].step = "build"
        /\ cache' = WithEntry(asker[a].stamp, QueryOf(a), version)
    BY <1>8 DEF Built
  <2>3. grows => AskerFresh(r) /\ version >= Counted(asker[a].stamp)
    BY <1>1, <2>1, <2>2 DEF AskerFresh
  <2>4. QueryOf(a) \in Query
    BY <2>2, QueryKnown
  <2>5. /\ cache' \in Seq(Entry)
        /\ grows => \A k \in 1..Len(cache') : EntryFresh(cache'[k])
    BY <1>1, <1>2, <2>2, <2>3, <2>4, KeptFresh
  <2>. QED
    BY <1>1, <2>1, <2>2, <2>3, <2>5, MoveKeeps
<1>9. CASE Trimmed(a)
  <2>1. CASE Len(cache) > AGGREGATES_MAX
    <3>1. cache' = Tail(cache) /\ UNCHANGED <<asker, grows, version, size, log, grown>>
      BY <1>9, <2>1 DEF Trimmed, storeFiles
    <3>2. /\ cache' \in Seq(Entry) /\ Len(cache') = Len(cache) - 1
          /\ \A k \in 1..Len(cache') : cache'[k] = cache[k + 1]
      BY <1>1, <2>1, <3>1, AggregateCacheAssumption
    <3>3. ASSUME grows, NEW k \in 1..Len(cache') PROVE EntryFresh(cache'[k])
      BY <1>1, <3>2, <3>3
    <3>. QED
      BY <3>1, <3>2, <3>3 DEF CacheInv, CacheTyped, StampCounts, AskerFresh
  <2>2. CASE ~(Len(cache) > AGGREGATES_MAX)
    <3> DEFINE r == [asker[a] EXCEPT !.step = "answered"]
    <3>1. /\ r \in AskRecord /\ r.step = "answered" /\ r.query = asker[a].query
          /\ r.since = asker[a].since /\ r.value = asker[a].value
      BY <1>1 DEF AskRecord
    <3>2. Moves(a, r) /\ cache' = cache /\ asker[a].step = "trim"
      BY <1>9, <2>2 DEF Trimmed
    <3>3. grows => AskerFresh(r)
      BY <1>1, <3>1, <3>2 DEF AskerFresh
    <3>. QED
      BY <1>1, <3>1, <3>2, <3>3, MoveKeeps
  <2>. QED
    BY <2>1, <2>2
<1>. QED
  BY <1>3, <1>4, <1>5, <1>6, <1>7, <1>8, <1>9

\* It holds initially.
LEMMA CacheStarts == CacheInit => CacheInv
BY DEF CacheInit, CacheInv, CacheTyped, StampCounts, AskerFresh, EntryFresh, NoRequest, AskRecord, Stamp

\* Every step keeps it.
LEMMA CacheKept == CacheInv /\ [CacheNext]_cacheVars => CacheInv'
<1> SUFFICES ASSUME CacheInv, [CacheNext]_cacheVars PROVE CacheInv'
  OBVIOUS
<1>1. CASE UNCHANGED cacheVars
  BY <1>1 DEF cacheVars, storeFiles, CacheInv, CacheTyped, StampCounts, AskerFresh
<1>2. CASE CacheNext
  BY <1>2, CommitKeeps, CloseKeeps, AskKeeps DEF CacheNext
<1>. QED
  BY <1>1, <1>2

\* However commits and other threads come between a request's stamp, its look
\* and its build, its answer is none the store had already left behind when the
\* request came, if the files grow with every commit.
THEOREM AnswerIsCurrentHolds == CacheSpec => []AnswerIsCurrent
<1>1. CacheInv => AnswerIsCurrent
  <2> SUFFICES ASSUME CacheInv, grows, NEW a \in Asker, asker[a].step = "answered"
               PROVE  asker[a].value >= asker[a].since
    BY DEF AnswerIsCurrent
  <2>1. asker[a] \in AskRecord /\ AskerFresh(asker[a])
    BY DEF CacheInv, CacheTyped
  <2>. QED
    BY <2>1 DEF AskerFresh, AskRecord
<1>. QED
  BY <1>1, CacheStarts, CacheKept, PTL DEF CacheSpec
=============================================================================
