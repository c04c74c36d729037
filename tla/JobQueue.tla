------------------------------ MODULE JobQueue ------------------------------
(***************************************************************************)
(* The asynchronous job queue of core/src/jobs.rs: job rows in a SQL table, *)
(* job ids in the Redis list "soroscope:jobs:queue", workers that move an   *)
(* id to "soroscope:jobs:processing", run the job in a spawned task, retry  *)
(* it after a delay and report to a webhook, and API handlers that submit   *)
(* and cancel jobs while all of that happens.                               *)
(*                                                                         *)
(* An action is one atomic effect on shared state (one SQL statement or one *)
(* Redis command) together with the local control that leads to the next    *)
(* one: between any two of them every other task may run, and every process *)
(* may stop.                                                               *)
(***************************************************************************)
EXTENDS Naturals, Sequences, FiniteSets

CONSTANTS
  Job,                \* job ids; each is submitted at most once (Uuid::new_v4)
  Worker,             \* JobWorkers, each with a dispatcher of its own
  MaxConcurrentJobs,  \* permits of a worker's semaphore
  RetryCapacity,      \* permits of a worker's retry dispatcher
  MaxJobRetries,      \* config.max_job_retries
  WebhookMaxRetries,  \* config.webhook_max_retries
  ProgressSteps,      \* percentages execute_job reports between 10 and 100
  Hooked,             \* jobs submitted with a webhook
  Canceller,          \* concurrent requests to the cancel handler
  MaxFaults,          \* bound: failed calls, crashes and shutdowns of a run
  None                \* no job

ASSUME CapacityAssumption ==
  /\ MaxConcurrentJobs \in Nat \ {0}
  /\ RetryCapacity \in Nat \ {0}
  /\ MaxJobRetries \in Nat
  /\ WebhookMaxRetries \in Nat \ {0}
  /\ MaxFaults \in Nat
ASSUME WorkerAssumption == IsFiniteSet(Worker)
ASSUME JobAssumption == Hooked \subseteq Job /\ None \notin Job
ASSUME ProgressAssumption == ProgressSteps \subseteq 11..99

Slot == Worker \X (1..MaxConcurrentJobs)    \* a semaphore permit
Permit == Worker \X (1..RetryCapacity)      \* a dispatcher permit

VARIABLES
  jobs,        \* the table: one row per job id
  submitting,  \* jobs whose row is inserted and whose id is not yet pushed
  queue,       \* "soroscope:jobs:queue", next id to pop first
  processing,  \* "soroscope:jobs:processing": occurrences of each id
  run,         \* each worker: running, stopping after a shutdown, or down
  held,        \* the id a worker has popped and awaits a permit for
  task,        \* the spawned task that holds each semaphore permit
  timer,       \* the job each dispatcher permit will push after its delay
  cancelling,  \* the job each cancel handler has found cancellable
  faults,      \* faults so far
  attempts     \* history: executions started, per job

vars == <<jobs, submitting, queue, processing, run, held, task, timer,
          cancelling, faults, attempts>>

JobStatus == {"QUEUED", "PROCESSING", "COMPLETED", "FAILED", "CANCELLED"}
Terminal == {"COMPLETED", "FAILED", "CANCELLED"}

Percent == 0..100
Retries == 0..MaxJobRetries     \* values of retry_count

(* NEW: the id is not used yet.  DELETED: cleanup has removed the row.     *)
Row == [status  : JobStatus \cup {"NEW", "DELETED"},
        retries : Retries,
        percent : Percent,
        result  : {"none", "Success", "Failed"}]
NewRow == [status |-> "NEW", retries |-> 0, percent |-> 0, result |-> "none"]

Pc == {"idle", "fetch", "mark", "run", "complete", "fail", "retry",
       "dispatch", "hook", "lrem"}
(* A task that may still execute its job or have it executed again.        *)
LivePc == {"fetch", "mark", "run", "complete", "fail", "retry", "dispatch"}

(* snap is the retry_count of the row as process_job fetched it; percent   *)
(* the last progress reported; tries the webhook attempt under way;        *)
(* outcome what the webhook will report.                                   *)
Task == [pc : Pc, job : Job \cup {None}, snap : Retries,
         percent : Percent, tries : 0..WebhookMaxRetries,
         outcome : {"none", "Completed", "Failed"}]
Idle == [pc |-> "idle", job |-> None, snap |-> 0, percent |-> 0,
         tries |-> 0, outcome |-> "none"]

TypeOK ==
  /\ jobs \in [Job -> Row]
  /\ submitting \subseteq Job
  /\ queue \in Seq(Job)
  /\ processing \in [Job -> Nat]
  /\ run \in [Worker -> {"running", "stopping", "down"}]
  /\ held \in [Worker -> Job \cup {None}]
  /\ task \in [Slot -> Task]
  /\ \A s \in Slot : task[s].pc # "idle" => task[s].job \in Job
  /\ timer \in [Permit -> Job \cup {None}]
  /\ cancelling \in [Canceller -> Job \cup {None}]
  /\ faults \in 0..MaxFaults
  /\ attempts \in [Job -> Nat]

Init ==
  /\ jobs = [j \in Job |-> NewRow]
  /\ submitting = {}
  /\ queue = <<>>
  /\ processing = [j \in Job |-> 0]
  /\ run = [w \in Worker |-> "running"]
  /\ held = [w \in Worker |-> None]
  /\ task = [s \in Slot |-> Idle]
  /\ timer = [p \in Permit |-> None]
  /\ cancelling = [c \in Canceller |-> None]
  /\ faults = 0
  /\ attempts = [j \in Job |-> 0]

-----------------------------------------------------------------------------
(* SQL statements: an UPDATE of a missing row changes nothing.             *)

Exists(j) == jobs[j].status \in JobStatus
Updated(j, row) == IF Exists(j) THEN [jobs EXCEPT ![j] = row] ELSE jobs

MarkedRow(r) == [r EXCEPT !.status = "PROCESSING", !.percent = 10]
(* Mutant: completing leaves the last reported percentage.                 *)
CompletedRowKeepsPercent(r) ==
  [r EXCEPT !.status = "COMPLETED", !.result = "Success"]
CompletedRow(r) ==
  [r EXCEPT !.status = "COMPLETED", !.result = "Success", !.percent = 100]
FailedRow(r) == [r EXCEPT !.status = "FAILED", !.result = "Failed"]
(* Mutant: the count is written back without the increment.                *)
RetriedRowStale(r, n) == [r EXCEPT !.status = "QUEUED", !.retries = n - 1]
RetriedRow(r, n) == [r EXCEPT !.status = "QUEUED", !.retries = n]
CancelledRow(r) == [r EXCEPT !.status = "CANCELLED"]

Fault == faults < MaxFaults /\ faults' = faults + 1

-----------------------------------------------------------------------------
(* JobQueue::submit: INSERT, then a Redis connection and LPUSH.            *)

Insert(j) ==
  /\ jobs[j].status = "NEW"
  /\ jobs' = [jobs EXCEPT ![j].status = "QUEUED"]
  /\ submitting' = submitting \cup {j}
  /\ UNCHANGED <<queue, processing, run, held, task, timer, cancelling,
                 faults, attempts>>

(* Mutant: a push whose answer is lost is made again.                      *)
PushAgain(j) ==
  /\ j \in submitting
  /\ submitting' \in {submitting, submitting \ {j}}
  /\ queue' = Append(queue, j)
  /\ Len(queue) < 3
  /\ UNCHANGED <<jobs, processing, run, held, task, timer, cancelling,
                 faults, attempts>>

Push(j) ==
  /\ j \in submitting
  /\ submitting' = submitting \ {j}
  /\ queue' = Append(queue, j)
  /\ UNCHANGED <<jobs, processing, run, held, task, timer, cancelling,
                 faults, attempts>>

(* Redis refuses, or the handler is dropped: an error to the client, and a  *)
(* row that stays.                                                         *)
PushFails(j) ==
  /\ j \in submitting
  /\ Fault
  /\ submitting' = submitting \ {j}
  /\ UNCHANGED <<jobs, queue, processing, run, held, task, timer, cancelling,
                 attempts>>

-----------------------------------------------------------------------------
(* JobWorker::run.                                                         *)

PopFrom(w) ==
  /\ run[w] = "running"
  /\ held[w] = None
  /\ queue # <<>>
  /\ queue' = Tail(queue)
  /\ processing' = [processing EXCEPT ![Head(queue)] = @ + 1]

(* brpoplpush returns an id.                                               *)
Pop(w) ==
  /\ PopFrom(w)
  /\ held' = [held EXCEPT ![w] = Head(queue)]
  /\ UNCHANGED <<jobs, submitting, run, task, timer, cancelling, faults,
                 attempts>>

(* Redis has moved the id, but the worker never sees the answer: the select *)
(* took the shutdown branch (the worker stops), or the connection broke     *)
(* (the worker sleeps 5 seconds and goes on).                              *)
PopLost(w) ==
  /\ PopFrom(w)
  /\ Fault
  /\ \E r \in {"running", "stopping"} : run' = [run EXCEPT ![w] = r]
  /\ UNCHANGED <<jobs, submitting, held, task, timer, cancelling, attempts>>

(* Mutant: the id is not taken over by the task it is spawned for.         *)
AcquireTwice(w) ==
  /\ run[w] # "down"
  /\ held[w] # None
  /\ \E s \in Slot :
       /\ s[1] = w
       /\ task[s].pc = "idle"
       /\ task' = [task EXCEPT ![s] = [Idle EXCEPT !.pc = "fetch",
                                                   !.job = held[w]]]
  /\ held' \in {held, [held EXCEPT ![w] = None]}
  /\ UNCHANGED <<jobs, submitting, queue, processing, run, timer, cancelling,
                 faults, attempts>>

(* acquire_owned, then spawn: this wait does not look at the shutdown.     *)
Acquire(w) ==
  /\ run[w] # "down"
  /\ held[w] # None
  /\ \E s \in Slot :
       /\ s[1] = w
       /\ task[s].pc = "idle"
       /\ task' = [task EXCEPT ![s] = [Idle EXCEPT !.pc = "fetch",
                                                   !.job = held[w]]]
  /\ held' = [held EXCEPT ![w] = None]
  /\ UNCHANGED <<jobs, submitting, queue, processing, run, timer, cancelling,
                 faults, attempts>>

-----------------------------------------------------------------------------
(* JobWorker::process_job and execute_job, in slot s.                      *)

Step(s, pc) == task' = [task EXCEPT ![s].pc = pc]

(* The queue's other variables, untouched by a task that only writes rows. *)
OthersUnchanged ==
  UNCHANGED <<submitting, queue, processing, run, held, timer, cancelling>>

(* get: the row is read once and this copy is used until the end.          *)
Fetch(s) ==
  /\ task[s].pc = "fetch"
  /\ task' = [task EXCEPT ![s].pc = IF Exists(task[s].job) THEN "mark"
                                    ELSE "lrem",
                          ![s].snap = jobs[task[s].job].retries]
  /\ OthersUnchanged
  /\ UNCHANGED <<jobs, faults, attempts>>

MarkProcessing(s) ==
  LET j == task[s].job IN
  /\ task[s].pc = "mark"
  /\ jobs' = Updated(j, MarkedRow(jobs[j]))
  /\ task' = [task EXCEPT ![s].pc = "run", ![s].percent = 10]
  /\ attempts' = [attempts EXCEPT ![j] = @ + 1]
  /\ OthersUnchanged
  /\ UNCHANGED faults

(* update_progress.  Its errors are ignored: the statement may not apply.  *)
Progress(s) ==
  LET j == task[s].job IN
  /\ task[s].pc = "run"
  /\ \E p \in ProgressSteps :
       /\ p > task[s].percent
       /\ task' = [task EXCEPT ![s].percent = p]
       /\ \/ /\ jobs' = Updated(j, [jobs[j] EXCEPT !.percent = p])
             /\ UNCHANGED faults
          \/ /\ UNCHANGED jobs
             /\ Fault
  /\ OthersUnchanged
  /\ UNCHANGED attempts

(* execute_job returns a result, or an error or the timeout.               *)
RunEnds(s) ==
  /\ task[s].pc = "run"
  /\ \E pc \in {"complete", "fail"} : Step(s, pc)
  /\ OthersUnchanged
  /\ UNCHANGED <<jobs, faults, attempts>>

(* What follows the terminal event: a job without webhook is done.         *)
Report(s, outcome) ==
  task' = [task EXCEPT
    ![s].pc = IF task[s].job \in Hooked THEN "hook" ELSE "lrem",
    ![s].tries = IF task[s].job \in Hooked THEN 1 ELSE 0,
    ![s].outcome = outcome]

(* Mutant: the error of the UPDATE is ignored.                             *)
CompleteUnwritten(s) ==
  LET j == task[s].job IN
  /\ task[s].pc = "complete"
  /\ jobs' \in {jobs, Updated(j, CompletedRow(jobs[j]))}
  /\ Report(s, "Completed")
  /\ OthersUnchanged
  /\ UNCHANGED <<faults, attempts>>

(* Mutant: a completed job falls through to the retry of a failed one.     *)
CompleteAndRetry(s) ==
  LET j == task[s].job IN
  /\ task[s].pc = "complete"
  /\ jobs' = Updated(j, CompletedRow(jobs[j]))
  /\ Step(s, "retry")
  /\ OthersUnchanged
  /\ UNCHANGED <<faults, attempts>>

Complete(s) ==
  LET j == task[s].job IN
  /\ task[s].pc = "complete"
  /\ jobs' = Updated(j, CompletedRow(jobs[j]))
  /\ Report(s, "Completed")
  /\ OthersUnchanged
  /\ UNCHANGED <<faults, attempts>>

(* Mutant: one retry too many.                                             *)
FailOffByOne(s) ==
  LET j == task[s].job IN
  /\ task[s].pc = "fail"
  /\ jobs' = Updated(j, FailedRow(jobs[j]))
  /\ IF task[s].snap > MaxJobRetries
       THEN Report(s, "Failed")
       ELSE Step(s, "retry")
  /\ OthersUnchanged
  /\ UNCHANGED <<faults, attempts>>

Fail(s) ==
  LET j == task[s].job IN
  /\ task[s].pc = "fail"
  /\ jobs' = Updated(j, FailedRow(jobs[j]))
  /\ IF task[s].snap >= MaxJobRetries
       THEN Report(s, "Failed")     \* retry_job: "Max retries reached"
       ELSE Step(s, "retry")
  /\ OthersUnchanged
  /\ UNCHANGED <<faults, attempts>>

(* retry_job counts from the copy the task fetched.                        *)
Retry(s) ==
  LET j == task[s].job IN
  /\ task[s].pc = "retry"
  /\ jobs' = Updated(j, RetriedRow(jobs[j], task[s].snap + 1))
  /\ Step(s, "dispatch")
  /\ OthersUnchanged
  /\ UNCHANGED <<faults, attempts>>

(* Mutant: one more permit than there is counts as taken.                  *)
DispatchNever(s) ==
  /\ task[s].pc = "dispatch"
  /\ Report(s, "Failed")
  /\ UNCHANGED <<jobs, submitting, queue, processing, run, held, timer,
                 cancelling, faults, attempts>>

(* retry_dispatcher.dispatch(Low, ..): dropped when no permit is free.     *)
Dispatch(s) ==
  LET free == {p \in Permit : p[1] = s[1] /\ timer[p] = None} IN
  /\ task[s].pc = "dispatch"
  /\ Report(s, "Failed")
  /\ IF free = {}
       THEN UNCHANGED timer
       ELSE \E p \in free : timer' = [timer EXCEPT ![p] = task[s].job]
  /\ UNCHANGED <<jobs, submitting, queue, processing, run, held, cancelling,
                 faults, attempts>>

(* A SQL statement fails, before or after the database has applied it.     *)
(* Every error but retry_job's ends process_job; the spawned task then      *)
(* goes to its LREM.                                                       *)
DbEffect(s) ==
  LET r == jobs[task[s].job] IN
  [fetch    |-> r,
   mark     |-> MarkedRow(r),
   complete |-> CompletedRow(r),
   fail     |-> FailedRow(r),
   retry    |-> RetriedRow(r, task[s].snap + 1)][task[s].pc]

DbError(s) ==
  /\ task[s].pc \in {"fetch", "mark", "complete", "fail", "retry"}
  /\ Fault
  /\ jobs' \in {jobs, Updated(task[s].job, DbEffect(s))}
  /\ IF task[s].pc = "retry" THEN Report(s, "Failed") ELSE Step(s, "lrem")
  /\ OthersUnchanged
  /\ UNCHANGED attempts

(* Mutant: the attempts are not counted.                                   *)
HookAttemptEndless(s) ==
  /\ task[s].pc = "hook"
  /\ \E delivered \in BOOLEAN :
       IF delivered
         THEN Step(s, "lrem")
         ELSE task' = [task EXCEPT ![s].tries = (@ % WebhookMaxRetries) + 1]
  /\ OthersUnchanged
  /\ UNCHANGED <<jobs, faults, attempts>>

(* send_webhook: any 2xx ends it, everything else is tried again.          *)
HookAttempt(s) ==
  /\ task[s].pc = "hook"
  /\ \E delivered \in BOOLEAN :
       IF delivered \/ task[s].tries = WebhookMaxRetries
         THEN Step(s, "lrem")
         ELSE task' = [task EXCEPT ![s].tries = @ + 1]
  /\ OthersUnchanged
  /\ UNCHANGED <<jobs, faults, attempts>>

(* Mutant: LREM processing 0 id, which removes every occurrence.           *)
LRemAll(s) ==
  LET j == task[s].job IN
  /\ task[s].pc = "lrem"
  /\ processing' = [processing EXCEPT ![j] = 0]
  /\ task' = [task EXCEPT ![s] = Idle]
  /\ UNCHANGED <<jobs, submitting, queue, run, held, timer, cancelling,
                 faults, attempts>>

(* LREM processing 1 id, and the permit is dropped with the task.          *)
LRem(s) ==
  LET j == task[s].job IN
  /\ task[s].pc = "lrem"
  /\ processing' = [processing EXCEPT ![j] = IF @ = 0 THEN 0 ELSE @ - 1]
  /\ task' = [task EXCEPT ![s] = Idle]
  /\ UNCHANGED <<jobs, submitting, queue, run, held, timer, cancelling,
                 faults, attempts>>

LRemFails(s) ==
  /\ task[s].pc = "lrem"
  /\ Fault
  /\ task' = [task EXCEPT ![s] = Idle]
  /\ OthersUnchanged
  /\ UNCHANGED <<jobs, attempts>>

-----------------------------------------------------------------------------
(* The task retry_job dispatched: sleep, connect, LPUSH.                   *)

TimerFires(p) ==
  /\ timer[p] # None
  /\ queue' = Append(queue, timer[p])
  /\ timer' = [timer EXCEPT ![p] = None]
  /\ UNCHANGED <<jobs, submitting, processing, run, held, task, cancelling,
                 faults, attempts>>

TimerFails(p) ==
  /\ timer[p] # None
  /\ Fault
  /\ timer' = [timer EXCEPT ![p] = None]
  /\ UNCHANGED <<jobs, submitting, queue, processing, run, held, task,
                 cancelling, attempts>>

-----------------------------------------------------------------------------
(* JobQueue::cancel: a SELECT, a check, and an unconditional UPDATE.       *)

CancelCheck(c) ==
  /\ cancelling[c] = None
  /\ \E j \in Job :
       /\ jobs[j].status \in {"QUEUED", "PROCESSING"}
       /\ cancelling' = [cancelling EXCEPT ![c] = j]
  /\ UNCHANGED <<jobs, submitting, queue, processing, run, held, task, timer,
                 faults, attempts>>

CancelWrite(c) ==
  LET j == cancelling[c] IN
  /\ j # None
  /\ \/ jobs' = Updated(j, CancelledRow(jobs[j])) /\ UNCHANGED faults
     \/ UNCHANGED jobs /\ Fault
  /\ cancelling' = [cancelling EXCEPT ![c] = None]
  /\ UNCHANGED <<submitting, queue, processing, run, held, task, timer,
                 attempts>>

(* JobQueue::cleanup: one DELETE of the terminal rows past the retention   *)
(* time.  Age is not modelled: any of them may have passed it.             *)
Cleanup ==
  /\ \E old \in SUBSET {j \in Job : jobs[j].status \in Terminal} :
       /\ old # {}
       /\ jobs' = [j \in Job |-> IF j \in old
                                 THEN [NewRow EXCEPT !.status = "DELETED"]
                                 ELSE jobs[j]]
  /\ UNCHANGED <<submitting, queue, processing, run, held, task, timer,
                 cancelling, faults, attempts>>

-----------------------------------------------------------------------------
(* Shutdown, the end of a process, and its restart.                        *)

(* The select of the worker's loop sees the broadcast: no more pops, while  *)
(* the spawned tasks and timers go on until the process ends.              *)
Shutdown(w) ==
  /\ run[w] = "running"
  /\ Fault
  /\ run' = [run EXCEPT ![w] = "stopping"]
  /\ UNCHANGED <<jobs, submitting, queue, processing, held, task, timer,
                 cancelling, attempts>>

(* The end of a worker's process takes its tasks, its retry timers and the  *)
(* id it holds; nothing of them is stored anywhere but in "processing".    *)
Dies(w) ==
  /\ run' = [run EXCEPT ![w] = "down"]
  /\ held' = [held EXCEPT ![w] = None]
  /\ task' = [s \in Slot |-> IF s[1] = w THEN Idle ELSE task[s]]
  /\ timer' = [p \in Permit |-> IF p[1] = w THEN None ELSE timer[p]]
  /\ UNCHANGED <<jobs, submitting, queue, processing, cancelling, attempts>>

Exit(w) == run[w] = "stopping" /\ Dies(w) /\ UNCHANGED faults
Crash(w) == run[w] # "down" /\ Fault /\ Dies(w)

Restart(w) ==
  /\ run[w] = "down"
  /\ run' = [run EXCEPT ![w] = "running"]
  /\ UNCHANGED <<jobs, submitting, queue, processing, held, task, timer,
                 cancelling, faults, attempts>>

-----------------------------------------------------------------------------
TaskStep(s) ==
  \/ Fetch(s) \/ MarkProcessing(s) \/ Progress(s) \/ RunEnds(s)
  \/ Complete(s) \/ Fail(s) \/ Retry(s) \/ Dispatch(s)
  \/ HookAttempt(s) \/ LRem(s)

Next ==
  \/ \E j \in Job : Insert(j) \/ Push(j) \/ PushFails(j)
  \/ \E w \in Worker :
       \/ Pop(w) \/ PopLost(w) \/ Acquire(w)
       \/ Shutdown(w) \/ Exit(w) \/ Crash(w) \/ Restart(w)
  \/ \E s \in Slot : TaskStep(s) \/ DbError(s) \/ LRemFails(s)
  \/ \E p \in Permit : TimerFires(p) \/ TimerFails(p)
  \/ \E c \in Canceller : CancelCheck(c) \/ CancelWrite(c)
  \/ Cleanup

Spec == Init /\ [][Next]_vars

(* Tokio runs every task that is ready; executions, webhook calls and       *)
(* retry delays end by their timeouts; a stopped process is started again. *)
Fairness ==
  /\ \A j \in Job : WF_vars(Push(j))
  /\ \A w \in Worker : WF_vars(Pop(w)) /\ WF_vars(Acquire(w))
  /\ \A w \in Worker : WF_vars(Exit(w)) /\ WF_vars(Restart(w))
  /\ \A s \in Slot : WF_vars(TaskStep(s))
  /\ \A p \in Permit : WF_vars(TimerFires(p))
  /\ \A c \in Canceller : WF_vars(CancelWrite(c))

FairSpec == Spec /\ Fairness

-----------------------------------------------------------------------------
(* Where the right to run a job can be: about to be pushed, in the queue,   *)
(* held by a worker, in a live task or in a retry timer.                   *)

Queued(j) == \E i \in DOMAIN queue : queue[i] = j
Held(j) == \E w \in Worker : held[w] = j
Live(s, j) == task[s].pc \in LivePc /\ task[s].job = j
Timed(j) == \E p \in Permit : timer[p] = j

Waiting(j) == \/ j \in submitting \/ Queued(j) \/ Held(j) \/ Timed(j)
HasToken(j) == Waiting(j) \/ \E s \in Slot : Live(s, j)

(* A job's token is unique.  The statements of jobs.rs that write a row     *)
(* check nothing (UPDATE .. WHERE id); that they do not undo one another    *)
(* rests on this alone.                                                    *)
TokenInv ==
  /\ \A i, k \in DOMAIN queue : queue[i] = queue[k] => i = k
  /\ \A v, w \in Worker : held[v] = held[w] /\ held[v] # None => v = w
  /\ \A s, t \in Slot : \A j \in Job : Live(s, j) /\ Live(t, j) => s = t
  /\ \A p, q \in Permit : timer[p] = timer[q] /\ timer[p] # None => p = q
  /\ \A j \in Job :
       /\ jobs[j].status = "NEW" => ~HasToken(j)
       /\ j \in submitting => ~Queued(j) /\ ~Held(j) /\ ~Timed(j)
       /\ Queued(j) => ~Held(j) /\ ~Timed(j)
       /\ Held(j) => ~Timed(j)
       /\ \A s \in Slot : Live(s, j) => ~Waiting(j)

(* Two tasks never execute the same job at once, whatever is retried,       *)
(* cancelled, deleted, lost or restarted in between.                       *)
SingleExecution ==
  \A s, t \in Slot :
    task[s].pc = "run" /\ task[t].pc = "run" /\ task[s].job = task[t].job
      => s = t

(* A job is executed at most 1 + max_job_retries times, although the count  *)
(* is kept by a read at the start of an execution and a write at its end.  *)
RetryBudget == \A j \in Job : attempts[j] <= MaxJobRetries + 1

(* A COMPLETED row shows a result and 100 percent: no late progress report  *)
(* and no failure of another execution is written over it.                 *)
CompletedIsWhole ==
  \A j \in Job : jobs[j].status = "COMPLETED" =>
    jobs[j].result = "Success" /\ jobs[j].percent = 100

(* Every id a worker holds or works on is in the processing list, once per  *)
(* holder: what a crash interrupts can be found there.  The old task of a   *)
(* retried job may still be calling its webhook when the next task starts, *)
(* and its LREM must not take the entry of the other.                      *)
ProcessingCovers ==
  \A j \in Job :
    Cardinality({w \in Worker : held[w] = j})
      + Cardinality({s \in Slot : task[s].job = j}) <= processing[j]

(* A webhook that reports COMPLETED is only on its way when the row holds   *)
(* the result (or has been cleaned up since).                              *)
HookTellsTruth ==
  \A s \in Slot :
    task[s].pc = "hook" /\ task[s].outcome = "Completed" /\ Exists(task[s].job)
      => jobs[task[s].job].result = "Success"

(* A stored result is never replaced while the row exists, and a COMPLETED  *)
(* job is never run again: only a cancel that had looked before may still   *)
(* overwrite its status.                                                   *)
ResultIsKept ==
  [][\A j \in Job :
       jobs[j].result = "Success" /\ Exists(j)' =>
         /\ jobs'[j].result = "Success"
         /\ jobs'[j].status \in {jobs[j].status, "CANCELLED"}]_vars

(* Without faults and with room in the retry dispatcher every submitted job *)
(* ends: nothing left to run, a terminal row (or none), and FAILED only     *)
(* when the retries are used up.                                           *)
Settled(j) ==
  /\ ~HasToken(j)
  /\ jobs[j].status \in Terminal \cup {"DELETED"}
  /\ jobs[j].status = "FAILED" => jobs[j].retries = MaxJobRetries
EveryJobSettles ==
  [](faults = 0) => \A j \in Job : <>[](jobs[j].status = "NEW" \/ Settled(j))

(* Whatever the faults, the workers run dry: no task, webhook call, timer   *)
(* or queue entry is kept alive for ever by retries.                       *)
Drains ==
  <>[](/\ queue = <<>>
       /\ \A s \in Slot : task[s].pc = "idle"
       /\ \A p \in Permit : timer[p] = None)

(* What the comments on retry_queue_capacity and in retry_job say of a      *)
(* retry that the dispatcher drops: the job stays QUEUED and "will still be *)
(* picked up by a subsequent cleanup/requeue pass".                        *)
QueuedIsPickedUp ==
  \A j \in Job : jobs[j].status = "QUEUED" ~> jobs[j].status # "QUEUED"

(* The refinement: a job is running while a task executes it, pending while *)
(* its token is anywhere else, and over when a submitted job has no token.  *)
(* From the moment execute_job returns a result the token is gone: a task   *)
(* that is to COMPLETE its job can only write the row and report it.        *)
Running(j) == \E s \in Slot : task[s].pc = "run" /\ task[s].job = j
Pending(j) ==
  \/ Waiting(j)
  \/ \E s \in Slot : Live(s, j) /\ task[s].pc # "complete"

phaseBar ==
  [j \in Job |-> IF jobs[j].status = "NEW" THEN "new"
                 ELSE IF Running(j) THEN "running"
                 ELSE IF Pending(j) THEN "pending"
                 ELSE "over"]

Attempts == INSTANCE JobAttempts
  WITH MaxRetries <- MaxJobRetries, phase <- phaseBar, started <- attempts

(* Executions are as JobAttempts allows them.                               *)
ImplementsAttempts == Attempts!AttemptsSpec
=============================================================================
