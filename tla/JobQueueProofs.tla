--------------------------- MODULE JobQueueProofs ---------------------------
(***************************************************************************)
(* Proofs about JobQueue, for every number of jobs, workers, permits,       *)
(* retries and faults: types, the token a job has at most one of, what a row*)
(* shows, and the life of a job that JobAttempts promises.                  *)
(***************************************************************************)
EXTENDS JobQueue, FiniteSetTheorems, TLAPS

(* The tasks that go on to retry_job have found a retry left.              *)
RetryInv ==
  \A s \in Slot :
    task[s].pc \in {"retry", "dispatch"} => task[s].snap < MaxJobRetries

TypeInv == TypeOK /\ RetryInv

-----------------------------------------------------------------------------
(* The percentages and counts the code writes are in range.                *)
LEMMA Ranges ==
  /\ 0 \in Percent /\ 10 \in Percent /\ 100 \in Percent
  /\ ProgressSteps \subseteq Percent
  /\ 0 \in Retries
  /\ \A n \in Retries : n < MaxJobRetries => n + 1 \in Retries
  /\ 0 \in 0..WebhookMaxRetries /\ 1 \in 0..WebhookMaxRetries
  BY CapacityAssumption, ProgressAssumption DEF Percent, Retries

(* The SQL statements map rows to rows.                                    *)
LEMMA RowTypes ==
  ASSUME NEW r \in Row
  PROVE  /\ MarkedRow(r) \in Row
         /\ CompletedRow(r) \in Row
         /\ FailedRow(r) \in Row
         /\ CancelledRow(r) \in Row
         /\ \A n \in Retries : RetriedRow(r, n) \in Row
         /\ \A p \in Percent : [r EXCEPT !.percent = p] \in Row
<1>1. MarkedRow(r) \in Row
  BY Ranges DEF Row, JobStatus, MarkedRow
<1>2. CompletedRow(r) \in Row
  BY Ranges DEF Row, JobStatus, CompletedRow
<1>3. FailedRow(r) \in Row
  BY DEF Row, JobStatus, FailedRow
<1>4. CancelledRow(r) \in Row
  BY DEF Row, JobStatus, CancelledRow
<1>5. \A n \in Retries : RetriedRow(r, n) \in Row
  BY DEF Row, JobStatus, RetriedRow
<1>6. \A p \in Percent : [r EXCEPT !.percent = p] \in Row
  BY DEF Row
<1> QED
  BY <1>1, <1>2, <1>3, <1>4, <1>5, <1>6

(* A table stays a table under an UPDATE.                                  *)
LEMMA UpdatedType ==
  ASSUME TypeOK, NEW j \in Job, NEW row \in Row
  PROVE  Updated(j, row) \in [Job -> Row]
  BY DEF Updated, TypeOK

(* The parts of the type invariant that speak of tasks, and RetryInv.      *)
TaskInv ==
  /\ task \in [Slot -> Task]
  /\ \A s \in Slot : task[s].pc # "idle" => task[s].job \in Job
  /\ RetryInv

(* The rest of it.                                                         *)
RestOK ==
  /\ jobs \in [Job -> Row]
  /\ submitting \subseteq Job
  /\ queue \in Seq(Job)
  /\ processing \in [Job -> Nat]
  /\ run \in [Worker -> {"running", "stopping", "down"}]
  /\ held \in [Worker -> Job \cup {None}]
  /\ timer \in [Permit -> Job \cup {None}]
  /\ cancelling \in [Canceller -> Job \cup {None}]
  /\ faults \in 0..MaxFaults
  /\ attempts \in [Job -> Nat]

(* The type invariant, apart into the tasks and the rest.                  *)
LEMMA TypeInvParts == TypeInv <=> TaskInv /\ RestOK
  BY DEF TypeInv, TypeOK, TaskInv, RestOK

(* A task that moves on keeps its type, if the stages of retry_job are      *)
(* entered with a retry left only.                                         *)
LEMMA TaskMoves ==
  ASSUME TaskInv, NEW s \in Slot, NEW t \in Task,
         t.pc # "idle" => t.job \in Job,
         t.pc \in {"retry", "dispatch"} => t.snap < MaxJobRetries,
         task' = [task EXCEPT ![s] = t]
  PROVE  TaskInv'
  BY DEF TaskInv, RetryInv

(* Idle is a task.                                                         *)
LEMMA IdleType == Idle \in Task
  BY Ranges DEF Idle, Task, Pc

(* The initial state is well typed.                                        *)
LEMMA InitTypeInv == Init => TypeInv
<1> SUFFICES ASSUME Init PROVE TypeInv
  OBVIOUS
<1>1. NewRow \in Row
  BY Ranges DEF NewRow, Row
<1>2. RestOK
  BY <1>1, CapacityAssumption DEF Init, RestOK
<1>3. TaskInv
  BY IdleType DEF Init, TaskInv, RetryInv, Idle
<1> QED
  BY <1>2, <1>3, TypeInvParts

(* Moving to another stage.                                                *)
LEMMA StepTask ==
  ASSUME TaskInv, NEW s \in Slot, task[s].pc # "idle", NEW pc \in Pc,
         pc \in {"retry", "dispatch"} => task[s].snap < MaxJobRetries,
         Step(s, pc)
  PROVE  TaskInv'
<1> DEFINE t == [task[s] EXCEPT !.pc = pc]
<1>1. t \in Task /\ t.pc = pc /\ t.job = task[s].job /\ t.snap = task[s].snap
  BY DEF TaskInv, Task
<1>2. task' = [task EXCEPT ![s] = t]
  BY DEF Step
<1>3. t.job \in Job
  BY <1>1 DEF TaskInv
<1> HIDE DEF t
<1> QED
  BY <1>1, <1>2, <1>3, TaskMoves

(* Moving to the webhook or to the end.                                    *)
LEMMA ReportTask ==
  ASSUME TaskInv, NEW s \in Slot, task[s].pc # "idle",
         NEW outcome \in {"Completed", "Failed"}, Report(s, outcome)
  PROVE  TaskInv'
<1> DEFINE hooked == task[s].job \in Hooked
           t == [task[s] EXCEPT !.pc = IF hooked THEN "hook" ELSE "lrem",
                                !.tries = IF hooked THEN 1 ELSE 0,
                                !.outcome = outcome]
<1>1. t \in Task /\ t.pc \in {"hook", "lrem"} /\ t.job = task[s].job
  BY Ranges DEF TaskInv, Task, Pc
<1>2. task' = [task EXCEPT ![s] = t]
  BY ZenonT(60) DEF Report, TaskInv
<1>3. t.job \in Job
  BY <1>1 DEF TaskInv
<1> HIDE DEF t
<1> QED
  BY <1>1, <1>2, <1>3, TaskMoves

(* Every step keeps the tasks well typed.                                  *)
LEMMA TaskInvStep == TypeInv /\ [Next]_vars => TaskInv'
<1> SUFFICES ASSUME TypeInv, [Next]_vars PROVE TaskInv'
  OBVIOUS
<1>i. TaskInv /\ RestOK
  BY TypeInvParts
<1>same. ASSUME UNCHANGED task PROVE TaskInv'
  BY <1>i, <1>same DEF TaskInv, RetryInv
<1>1. ASSUME NEW w \in Worker, Acquire(w) PROVE TaskInv'
  <2>1. PICK s \in Slot :
          task' = [task EXCEPT ![s] = [Idle EXCEPT !.pc = "fetch",
                                                   !.job = held[w]]]
    BY <1>1 DEF Acquire
  <2> DEFINE t == [Idle EXCEPT !.pc = "fetch", !.job = held[w]]
  <2>2. held[w] \in Job
    BY <1>1, <1>i DEF Acquire, RestOK
  <2>3. t \in Task /\ t.pc = "fetch" /\ t.job = held[w]
    BY <2>2, IdleType DEF Idle, Task, Pc
  <2> HIDE DEF t
  <2> QED
    BY <1>i, <2>1, <2>2, <2>3, TaskMoves DEF t
<1>2. ASSUME NEW w \in Worker, Dies(w) PROVE TaskInv'
  BY <1>2, <1>i, IdleType DEF Dies, TaskInv, RetryInv, Idle
<1>3. ASSUME NEW s \in Slot, TaskStep(s) PROVE TaskInv'
  <2> DEFINE j == task[s].job
  <2>1. CASE Fetch(s)
    <3> DEFINE pc == IF Exists(j) THEN "mark" ELSE "lrem"
               t == [task[s] EXCEPT !.pc = pc, !.snap = jobs[j].retries]
    <3>1. j \in Job /\ jobs[j].retries \in Retries
      BY <2>1, <1>i DEF Fetch, TaskInv, RestOK, Row
    <3>2. t \in Task /\ t.job = j /\ t.pc \in {"mark", "lrem"}
      BY <3>1, <1>i DEF TaskInv, Task, Pc
    <3>3. task' = [task EXCEPT ![s] = t]
      BY <2>1, <1>i DEF Fetch, TaskInv
    <3> HIDE DEF t
    <3> QED
      BY <1>i, <3>1, <3>2, <3>3, TaskMoves
  <2>2. CASE MarkProcessing(s)
    <3> DEFINE t == [task[s] EXCEPT !.pc = "run", !.percent = 10]
    <3>1. t \in Task /\ t.job = j /\ t.pc = "run" /\ j \in Job
      BY <2>2, <1>i, Ranges DEF MarkProcessing, TaskInv, Task, Pc
    <3>2. task' = [task EXCEPT ![s] = t]
      BY <2>2, <1>i DEF MarkProcessing, TaskInv
    <3> HIDE DEF t
    <3> QED
      BY <1>i, <3>1, <3>2, TaskMoves
  <2>3. CASE Progress(s)
    <3>1. PICK p \in ProgressSteps : task' = [task EXCEPT ![s].percent = p]
      BY <2>3 DEF Progress
    <3> DEFINE t == [task[s] EXCEPT !.percent = p]
    <3>2. t \in Task /\ t.job = j /\ t.pc = "run" /\ j \in Job
      BY <2>3, <1>i, Ranges DEF Progress, TaskInv, Task
    <3>3. task' = [task EXCEPT ![s] = t]
      BY <3>1
    <3> HIDE DEF t
    <3> QED
      BY <1>i, <3>2, <3>3, TaskMoves
  <2>4. CASE RunEnds(s)
    BY <2>4, <1>i, StepTask DEF RunEnds, Pc
  <2>5. CASE Complete(s)
    BY <2>5, <1>i, ReportTask DEF Complete
  <2>6. CASE Fail(s)
    <3>1. task[s].snap \in Retries
      BY <1>i DEF TaskInv, Task
    <3>2. task[s].snap >= MaxJobRetries \/ task[s].snap < MaxJobRetries
      BY <3>1, CapacityAssumption DEF Retries
    <3>3. "retry" \in Pc /\ task[s].pc # "idle"
      BY <2>6 DEF Pc, Fail
    <3> QED
      BY <2>6, <1>i, <3>2, <3>3, StepTask, ReportTask DEF Fail
  <2>7. CASE Retry(s)
    BY <2>7, <1>i, StepTask DEF Retry, Pc, TaskInv, RetryInv
  <2>8. CASE Dispatch(s)
    BY <2>8, <1>i, ReportTask DEF Dispatch
  <2>9. CASE HookAttempt(s)
    <3>1. CASE Step(s, "lrem")
      BY <3>1, <2>9, <1>i, StepTask DEF HookAttempt, Pc
    <3>2. CASE task[s].tries # WebhookMaxRetries
               /\ task' = [task EXCEPT ![s].tries = @ + 1]
      <4> DEFINE t == [task[s] EXCEPT !.tries = @ + 1]
      <4>1. task[s].tries + 1 \in 0..WebhookMaxRetries
        BY <3>2, <1>i, CapacityAssumption DEF TaskInv, Task
      <4>2. t \in Task /\ t.job = j /\ t.pc = "hook" /\ j \in Job
        BY <4>1, <2>9, <1>i DEF HookAttempt, TaskInv, Task
      <4>3. task' = [task EXCEPT ![s] = t]
        BY <3>2
      <4> HIDE DEF t
      <4> QED
        BY <1>i, <4>2, <4>3, TaskMoves
    <3> QED
      BY <2>9, <3>1, <3>2 DEF HookAttempt
  <2>10. CASE LRem(s)
    BY <2>10, <1>i, IdleType, TaskMoves DEF LRem, Idle
  <2> QED
    BY <1>3, <2>1, <2>2, <2>3, <2>4, <2>5, <2>6, <2>7, <2>8, <2>9, <2>10
       DEF TaskStep
<1>4. ASSUME NEW s \in Slot, DbError(s) PROVE TaskInv'
  BY <1>4, <1>i, StepTask, ReportTask DEF DbError, Pc
<1>5. ASSUME NEW s \in Slot, LRemFails(s) PROVE TaskInv'
  BY <1>5, <1>i, IdleType, TaskMoves DEF LRemFails, Idle
<1> QED
  BY <1>same, <1>1, <1>2, <1>3, <1>4, <1>5
     DEF Next, vars, Insert, Push, PushFails, Pop, PopLost, Shutdown, Exit,
         Crash, Restart, TimerFires, TimerFails, CancelCheck, CancelWrite,
         Cleanup

(* What a failing statement may still do to a row.                         *)
LEMMA DbEffectRow ==
  ASSUME TypeInv, NEW s \in Slot,
         task[s].pc \in {"fetch", "mark", "complete", "fail", "retry"}
  PROVE  /\ DbEffect(s) \in Row
         /\ DbEffect(s).status = "NEW" => jobs[task[s].job].status = "NEW"
<1> DEFINE r == jobs[task[s].job]
<1>1. task[s].job \in Job /\ task[s].snap \in Retries /\ r \in Row
  BY TypeInvParts DEF TaskInv, Task, RestOK
<1>2. CASE task[s].pc = "fetch"
  BY <1>1, <1>2 DEF DbEffect
<1>3. CASE task[s].pc = "mark"
  <2>1. DbEffect(s) = MarkedRow(r)
    BY <1>3 DEF DbEffect
  <2>2. MarkedRow(r).status # "NEW"
    BY <1>1 DEF MarkedRow, Row
  <2> QED
    BY <1>1, <2>1, <2>2, RowTypes
<1>4. CASE task[s].pc = "complete"
  <2>1. DbEffect(s) = CompletedRow(r)
    BY <1>4 DEF DbEffect
  <2>2. CompletedRow(r).status # "NEW"
    BY <1>1 DEF CompletedRow, Row
  <2> QED
    BY <1>1, <2>1, <2>2, RowTypes
<1>5. CASE task[s].pc = "fail"
  <2>1. DbEffect(s) = FailedRow(r)
    BY <1>5 DEF DbEffect
  <2>2. FailedRow(r).status # "NEW"
    BY <1>1 DEF FailedRow, Row
  <2> QED
    BY <1>1, <2>1, <2>2, RowTypes
<1>6. CASE task[s].pc = "retry"
  <2> DEFINE n == task[s].snap + 1
  <2>1. DbEffect(s) = RetriedRow(r, n)
    BY <1>6 DEF DbEffect
  <2>2. n \in Retries
    BY <1>1, <1>6, Ranges, TypeInvParts DEF TaskInv, RetryInv
  <2>3. RetriedRow(r, n).status # "NEW"
    BY <1>1 DEF RetriedRow, Row
  <2> HIDE DEF n
  <2> QED
    BY <1>1, <2>1, <2>2, <2>3, RowTypes
<1> QED
  BY <1>2, <1>3, <1>4, <1>5, <1>6

(* Every step keeps the table a table.                                     *)
LEMMA TableStep == TypeInv /\ [Next]_vars => jobs' \in [Job -> Row]
<1> SUFFICES ASSUME TypeInv, [Next]_vars PROVE jobs' \in [Job -> Row]
  OBVIOUS
<1>i. /\ TypeOK /\ TaskInv /\ jobs \in [Job -> Row]
      /\ \A j \in Job : jobs[j] \in Row
  BY TypeInvParts DEF TypeInv, RestOK
<1>u. \A j \in Job, row \in Row : Updated(j, row) \in [Job -> Row]
  BY <1>i, UpdatedType
<1>1. ASSUME NEW j \in Job, Insert(j) PROVE jobs' \in [Job -> Row]
  BY <1>1, <1>i DEF Insert, Row, JobStatus
<1>2. ASSUME NEW s \in Slot, TaskStep(s) PROVE jobs' \in [Job -> Row]
  <2> DEFINE j == task[s].job
  <2>s. task[s].snap \in Retries
    BY <1>i DEF TaskInv, Task
  <2>1. CASE MarkProcessing(s)
    BY <2>1, <1>i, <1>u, RowTypes DEF MarkProcessing, TaskInv
  <2>2. CASE Progress(s)
    <3> SUFFICES ASSUME jobs' # jobs PROVE jobs' \in [Job -> Row]
      BY <1>i
    <3>1. PICK p \in ProgressSteps :
            jobs' = Updated(j, [jobs[j] EXCEPT !.percent = p])
      BY <2>2 DEF Progress
    <3>2. j \in Job
      BY <2>2, <1>i DEF Progress, TaskInv
    <3>3. [jobs[j] EXCEPT !.percent = p] \in Row
      BY <3>2, <1>i, Ranges, RowTypes
    <3> QED
      BY <3>1, <3>2, <3>3, <1>u
  <2>3. CASE Complete(s)
    BY <2>3, <1>i, <1>u, RowTypes DEF Complete, TaskInv
  <2>4. CASE Fail(s)
    BY <2>4, <1>i, <1>u, RowTypes DEF Fail, TaskInv
  <2>5. CASE Retry(s)
    <3>1. task[s].snap + 1 \in Retries /\ j \in Job
      BY <2>5, <2>s, <1>i, Ranges DEF Retry, TaskInv, RetryInv
    <3> QED
      BY <2>5, <3>1, <1>i, <1>u, RowTypes DEF Retry
  <2> QED
    BY <1>2, <1>i, <2>1, <2>2, <2>3, <2>4, <2>5
       DEF TaskStep, Fetch, RunEnds, Dispatch, HookAttempt, LRem
<1>3. ASSUME NEW s \in Slot, DbError(s) PROVE jobs' \in [Job -> Row]
  <2>1. task[s].job \in Job /\ DbEffect(s) \in Row
    BY <1>3, <1>i, DbEffectRow DEF DbError, TaskInv
  <2> QED
    BY <1>3, <1>i, <1>u, <2>1 DEF DbError
<1>4. ASSUME NEW c \in Canceller, CancelWrite(c) PROVE jobs' \in [Job -> Row]
  <2>1. cancelling[c] \in Job
    BY <1>4, <1>i DEF CancelWrite, TypeOK
  <2> QED
    BY <1>4, <2>1, <1>i, <1>u, RowTypes DEF CancelWrite
<1>5. CASE Cleanup
  <2>1. [NewRow EXCEPT !.status = "DELETED"] \in Row
    BY Ranges DEF NewRow, Row
  <2> QED
    BY <1>5, <2>1, <1>i DEF Cleanup
<1> QED
  BY <1>i, <1>1, <1>2, <1>3, <1>4, <1>5
     DEF Next, vars, Push, PushFails, Pop, PopLost, PopFrom, Acquire, Shutdown,
         Exit, Crash, Dies, Restart, LRemFails, TimerFires, TimerFails,
         CancelCheck, OthersUnchanged

(* What a pop takes and leaves, and what a push leaves.                    *)
LEMMA QueueTypes ==
  ASSUME queue \in Seq(Job)
  PROVE  /\ queue # <<>> => Head(queue) \in Job /\ Tail(queue) \in Seq(Job)
         /\ \A j \in Job : Append(queue, j) \in Seq(Job)
  OBVIOUS

(* Every step keeps the other variables well typed.                        *)
LEMMA RestStep == TypeInv /\ [Next]_vars => RestOK'
<1> SUFFICES ASSUME TypeInv, [Next]_vars PROVE RestOK'
  OBVIOUS
<1>i. TaskInv /\ RestOK
  BY TypeInvParts
<1>t. jobs' \in [Job -> Row]
  BY TableStep
<1>f. Fault => faults' \in 0..MaxFaults
  BY <1>i, CapacityAssumption DEF Fault, RestOK
<1>1. ASSUME NEW j \in Job, Insert(j) \/ Push(j) \/ PushFails(j) PROVE RestOK'
  <2>1. queue' \in Seq(Job)
    BY <1>1, <1>i, QueueTypes DEF Insert, Push, PushFails, RestOK
  <2>2. submitting' \subseteq Job
    BY <1>1, <1>i DEF Insert, Push, PushFails, RestOK
  <2> QED
    BY <1>1, <1>i, <1>t, <1>f, <2>1, <2>2 DEF Insert, Push, PushFails, RestOK
<1>2. ASSUME NEW w \in Worker, Pop(w) \/ PopLost(w) PROVE RestOK'
  <2>1. Head(queue) \in Job /\ queue' \in Seq(Job)
    BY <1>2, <1>i, QueueTypes DEF Pop, PopLost, PopFrom, RestOK
  <2>p. processing' = [processing EXCEPT ![Head(queue)] = @ + 1]
    BY <1>2 DEF Pop, PopLost, PopFrom
  <2>2. processing' \in [Job -> Nat]
    <3> DEFINE h == Head(queue)
    <3>1. processing' = [processing EXCEPT ![h] = @ + 1]
      BY <2>p
    <3>2. processing \in [Job -> Nat]
      BY <1>i DEF RestOK
    <3>3. h \in Job
      BY <2>1
    <3> HIDE DEF h
    <3>4. processing[h] + 1 \in Nat
      BY <3>2, <3>3
    <3> QED
      BY <3>1, <3>2, <3>4
  <2> QED
    BY <1>2, <1>i, <1>t, <1>f, <2>1, <2>2 DEF Pop, PopLost, RestOK
<1>3. ASSUME NEW w \in Worker, Acquire(w) \/ Shutdown(w) \/ Restart(w)
      PROVE  RestOK'
  BY <1>3, <1>i, <1>t, <1>f DEF Acquire, Shutdown, Restart, RestOK
<1>4. ASSUME NEW w \in Worker, Exit(w) \/ Crash(w) PROVE RestOK'
  BY <1>4, <1>i, <1>t, <1>f DEF Exit, Crash, Dies, RestOK
<1>5. ASSUME NEW s \in Slot, TaskStep(s) PROVE RestOK'
  <2>1. CASE Dispatch(s)
    BY <2>1, <1>i, <1>t DEF Dispatch, RestOK, TaskInv
  <2>2. CASE LRem(s)
    BY <2>2, <1>i, <1>t DEF LRem, RestOK, TaskInv
  <2>3. CASE MarkProcessing(s)
    BY <2>3, <1>i, <1>t DEF MarkProcessing, RestOK, TaskInv, OthersUnchanged
  <2>4. CASE Progress(s)
    BY <2>4, <1>i, <1>t, <1>f DEF Progress, RestOK, OthersUnchanged
  <2> QED
    BY <1>5, <1>i, <1>t, <2>1, <2>2, <2>3, <2>4
       DEF TaskStep, Fetch, RunEnds, Complete, Fail, Retry, HookAttempt,
           OthersUnchanged, RestOK
<1>6. ASSUME NEW s \in Slot, DbError(s) \/ LRemFails(s) PROVE RestOK'
  BY <1>6, <1>i, <1>t, <1>f DEF DbError, LRemFails, OthersUnchanged, RestOK
<1>7. ASSUME NEW p \in Permit, TimerFires(p) \/ TimerFails(p) PROVE RestOK'
  <2>1. queue' \in Seq(Job)
    BY <1>7, <1>i, QueueTypes DEF TimerFires, TimerFails, RestOK
  <2> QED
    BY <2>1, <1>7, <1>i, <1>t, <1>f DEF TimerFires, TimerFails, RestOK
<1>8. ASSUME NEW c \in Canceller, CancelCheck(c) \/ CancelWrite(c)
      PROVE  RestOK'
  BY <1>8, <1>i, <1>t, <1>f DEF CancelCheck, CancelWrite, RestOK
<1>9. CASE Cleanup
  BY <1>9, <1>i, <1>t DEF Cleanup, RestOK
<1>10. CASE UNCHANGED vars
  BY <1>10, <1>i DEF vars, RestOK
<1> QED
  BY <1>1, <1>2, <1>3, <1>4, <1>5, <1>6, <1>7, <1>8, <1>9, <1>10 DEF Next

(* Every reachable state is well typed, and retry_job is only entered by a  *)
(* task whose copy of the row has a retry left.                            *)
THEOREM Typing == Spec => []TypeInv
<1>1. TypeInv /\ [Next]_vars => TaskInv' /\ RestOK'
  BY TaskInvStep, RestStep
<1>2. TypeInv <=> TaskInv /\ RestOK
  BY TypeInvParts
<1> QED
  BY InitTypeInv, <1>1, <1>2, PTL DEF Spec

(* In every state each row, permit, task and channel of the queue is of    *)
(* the kind the code can hold (jobs.rs, JobQueue and its workers).         *)
THEOREM TypeCorrect == Spec => []TypeOK
<1>1. TypeInv => TypeOK
  BY Zenon DEF TypeInv
<1> QED
  BY Typing, <1>1, PTL

-----------------------------------------------------------------------------
(* The token of a job.                                                     *)

(* A used id stays used.                                                   *)
LEMMA NewStays ==
  ASSUME TypeInv, [Next]_vars, NEW j \in Job, jobs'[j].status = "NEW"
  PROVE  jobs[j].status = "NEW"
<1>i. jobs \in [Job -> Row] /\ jobs' \in [Job -> Row]
  BY TableStep, TypeInvParts DEF RestOK
<1>u. ASSUME NEW k, NEW row \in Row, jobs' = Updated(k, row),
             row.status = "NEW" => jobs[k].status = "NEW"
      PROVE  jobs[j].status = "NEW"
  BY <1>u, <1>i DEF Updated
<1>s. ASSUME NEW s \in Slot, task[s].pc # "idle"
      PROVE  task[s].job \in Job /\ jobs[task[s].job] \in Row
  BY <1>s, <1>i, TypeInvParts DEF TaskInv
<1>r. ASSUME NEW s \in Slot, task[s].pc = "retry"
      PROVE  task[s].snap + 1 \in Retries
  BY <1>r, Ranges, TypeInvParts DEF TaskInv, RetryInv, Task
<1>m. \A r \in Row : /\ MarkedRow(r).status # "NEW"
                     /\ CompletedRow(r).status # "NEW"
                     /\ FailedRow(r).status # "NEW"
                     /\ CancelledRow(r).status # "NEW"
                     /\ \A n \in Retries : RetriedRow(r, n).status # "NEW"
                     /\ \A p \in Percent : [r EXCEPT !.percent = p].status
                                             = r.status
  BY DEF MarkedRow, CompletedRow, FailedRow, CancelledRow, RetriedRow, Row
<1>1. ASSUME NEW k \in Job, Insert(k) PROVE jobs[j].status = "NEW"
  BY <1>1, <1>i DEF Insert, Row
<1>2. ASSUME NEW s \in Slot, TaskStep(s), jobs' # jobs
      PROVE  jobs[j].status = "NEW"
  <2>1. CASE MarkProcessing(s)
    BY <2>1, <1>u, <1>s, <1>m, RowTypes DEF MarkProcessing
  <2>2. CASE Progress(s)
    <3> DEFINE k == task[s].job
    <3>1. PICK p \in ProgressSteps :
            jobs' = Updated(k, [jobs[k] EXCEPT !.percent = p])
      BY <2>2, <1>2 DEF Progress
    <3>2. k \in Job /\ jobs[k] \in Row /\ p \in Percent
      BY <2>2, <1>s, Ranges DEF Progress
    <3> HIDE DEF k
    <3> QED
      BY <3>1, <3>2, <1>u, <1>m, RowTypes
  <2>3. CASE Complete(s)
    BY ZenonT(60), <2>3, <1>u, <1>s, <1>m, RowTypes DEF Complete
  <2>4. CASE Fail(s)
    <3> DEFINE k == task[s].job
    <3>1. k \in Job /\ jobs[k] \in Row /\ jobs' = Updated(k, FailedRow(jobs[k]))
      BY <2>4, <1>s DEF Fail
    <3> QED
      BY <3>1, <1>u, <1>m, RowTypes
  <2>5. CASE Retry(s)
    BY <2>5, <1>u, <1>s, <1>r, <1>m, RowTypes DEF Retry
  <2> QED
    BY <1>2, <2>1, <2>2, <2>3, <2>4, <2>5
       DEF TaskStep, Fetch, RunEnds, Dispatch, HookAttempt, LRem
<1>3. ASSUME NEW s \in Slot, DbError(s), jobs' # jobs
      PROVE  jobs[j].status = "NEW"
  <2>1. jobs' = Updated(task[s].job, DbEffect(s))
    BY <1>3 DEF DbError
  <2> QED
    BY <1>3, <2>1, <1>u, DbEffectRow DEF DbError
<1>4. ASSUME NEW c \in Canceller, CancelWrite(c), jobs' # jobs
      PROVE  jobs[j].status = "NEW"
  <2> DEFINE k == cancelling[c]
  <2>1. k \in Job
    BY <1>4, TypeInvParts DEF CancelWrite, RestOK
  <2>2. jobs' = Updated(k, CancelledRow(jobs[k])) /\ jobs[k] \in Row
    BY <1>4, <2>1, <1>i DEF CancelWrite
  <2> HIDE DEF k
  <2> QED
    BY <2>1, <2>2, <1>u, <1>m, RowTypes
<1>5. CASE Cleanup
  BY <1>5 DEF Cleanup, NewRow
<1> QED
  BY <1>1, <1>2, <1>3, <1>4, <1>5
     DEF Next, vars, Push, PushFails, Pop, PopLost, PopFrom, Acquire, Shutdown,
         Exit, Crash, Dies, Restart, LRemFails, TimerFires, TimerFails,
         CancelCheck, OthersUnchanged

(* Tokens may be lost, and nothing else of TokenInv depends on how.        *)
LEMMA TokensShrink ==
  ASSUME TypeInv, [Next]_vars, TokenInv,
         submitting' \subseteq submitting,
         UNCHANGED queue,
         \A w \in Worker : held'[w] \in {held[w], None},
         \A s \in Slot, j \in Job : Live(s, j)' => Live(s, j),
         \A p \in Permit : timer'[p] \in {timer[p], None}
  PROVE  TokenInv'
<1>n. \A j \in Job : jobs'[j].status = "NEW" => jobs[j].status = "NEW"
  BY NewStays
<1>p. \A j \in Job : /\ Queued(j)' => Queued(j)
                     /\ Held(j)' => Held(j)
                     /\ Timed(j)' => Timed(j)
  BY JobAssumption DEF Queued, Held, Timed
<1>1. \A i, k \in DOMAIN queue' : queue'[i] = queue'[k] => i = k
  BY DEF TokenInv
<1>2. \A v, w \in Worker : held'[v] = held'[w] /\ held'[v] # None => v = w
  BY DEF TokenInv
<1>3. \A s, t \in Slot : \A j \in Job : Live(s, j)' /\ Live(t, j)' => s = t
  BY DEF TokenInv
<1>4. \A p, q \in Permit : timer'[p] = timer'[q] /\ timer'[p] # None => p = q
  BY DEF TokenInv
<1>5. \A j \in Job : HasToken(j)' => HasToken(j)
  BY <1>p DEF HasToken, Waiting
<1>6. \A j \in Job :
        /\ jobs'[j].status = "NEW" => ~HasToken(j)'
        /\ j \in submitting' => ~Queued(j)' /\ ~Held(j)' /\ ~Timed(j)'
        /\ Queued(j)' => ~Held(j)' /\ ~Timed(j)'
        /\ Held(j)' => ~Timed(j)'
  BY <1>n, <1>p, <1>5 DEF TokenInv
<1>7. \A j \in Job, s \in Slot : Live(s, j)' => ~Waiting(j)'
  BY <1>p DEF TokenInv, Waiting
<1> QED
  BY <1>1, <1>2, <1>3, <1>4, <1>6, <1>7 DEF TokenInv

(* submit gives a new job its token ...                                    *)
LEMMA InsertToken ==
  ASSUME TypeInv, [Next]_vars, TokenInv, NEW j \in Job, Insert(j)
  PROVE  TokenInv'
<1>1. ~HasToken(j) /\ jobs'[j].status # "NEW"
  BY TypeInvParts DEF Insert, TokenInv, RestOK, Row
<1>2. \A k \in Job : /\ Queued(k)' <=> Queued(k)
                     /\ Held(k)' <=> Held(k)
                     /\ Timed(k)' <=> Timed(k)
                     /\ k \in submitting' <=> k \in submitting \/ k = j
                     /\ \A s \in Slot : Live(s, k)' <=> Live(s, k)
  BY DEF Insert, Queued, Held, Timed, Live
<1>3. \A k \in Job : jobs'[k].status = "NEW" => jobs[k].status = "NEW" /\ k # j
  BY <1>1, NewStays
<1>4. \A k \in Job : k # j => (HasToken(k)' <=> HasToken(k))
  BY <1>2 DEF HasToken, Waiting
<1>5. \A i, k \in DOMAIN queue' : queue'[i] = queue'[k] => i = k
  BY DEF Insert, TokenInv
<1>6. /\ \A v, w \in Worker : held'[v] = held'[w] /\ held'[v] # None => v = w
      /\ \A p, q \in Permit :
           timer'[p] = timer'[q] /\ timer'[p] # None => p = q
  BY DEF Insert, TokenInv
<1>7. \A s, t \in Slot : \A k \in Job : Live(s, k)' /\ Live(t, k)' => s = t
  BY <1>2 DEF TokenInv
<1>8. \A k \in Job :
        /\ jobs'[k].status = "NEW" => ~HasToken(k)'
        /\ k \in submitting' => ~Queued(k)' /\ ~Held(k)' /\ ~Timed(k)'
        /\ Queued(k)' => ~Held(k)' /\ ~Timed(k)'
        /\ Held(k)' => ~Timed(k)'
        /\ \A s \in Slot : Live(s, k)' => ~Waiting(k)'
  <2> TAKE k \in Job
  <2>1. CASE k = j
    BY <2>1, <1>1, <1>2, <1>3 DEF HasToken, Waiting
  <2>2. CASE k # j
    BY <2>2, <1>2, <1>3, <1>4 DEF TokenInv, Waiting
  <2> QED
    BY <2>1, <2>2
<1> QED
  BY <1>5, <1>6, <1>7, <1>8 DEF TokenInv

(* What LPUSH does to the queue: one more id at its end.                   *)
LEMMA AppendQueued ==
  ASSUME TypeInv, TokenInv, NEW j \in Job, queue' = Append(queue, j),
         ~Queued(j)
  PROVE  /\ \A i, k \in DOMAIN queue' : queue'[i] = queue'[k] => i = k
         /\ \A k \in Job : Queued(k)' <=> Queued(k) \/ k = j
<1>1. queue \in Seq(Job)
  BY TypeInvParts DEF RestOK
<1>2. /\ DOMAIN queue = 1..Len(queue) /\ Len(queue) \in Nat
      /\ DOMAIN queue' = 1..(Len(queue) + 1)
      /\ \A i \in 1..Len(queue) : queue'[i] = queue[i]
      /\ queue'[Len(queue) + 1] = j
  BY <1>1
<1>3. \A i \in DOMAIN queue' : i \in DOMAIN queue \/ i = Len(queue) + 1
  BY <1>2
<1>4. Len(queue) + 1 \in DOMAIN queue' /\ DOMAIN queue \subseteq DOMAIN queue'
  BY <1>2
<1>5. \A i \in DOMAIN queue : queue[i] # j /\ queue'[i] = queue[i]
  BY <1>2 DEF Queued
<1>6. \A i, k \in DOMAIN queue' : queue'[i] = queue'[k] => i = k
  BY <1>2, <1>3, <1>5 DEF TokenInv
<1>7. \A k \in Job : Queued(k)' <=> Queued(k) \/ k = j
  BY <1>2, <1>3, <1>4, <1>5 DEF Queued
<1> QED
  BY <1>6, <1>7

(* What a pop does to it: the head goes.                                   *)
LEMMA TailQueued ==
  ASSUME TypeInv, TokenInv, queue # <<>>, queue' = Tail(queue)
  PROVE  /\ \A i, k \in DOMAIN queue' : queue'[i] = queue'[k] => i = k
         /\ Head(queue) \in Job /\ Queued(Head(queue))
         /\ \A k \in Job : Queued(k)' <=> Queued(k) /\ k # Head(queue)
<1>1. queue \in Seq(Job)
  BY TypeInvParts DEF RestOK
<1>2. /\ DOMAIN queue = 1..Len(queue) /\ Len(queue) \in Nat
      /\ DOMAIN queue' = 1..(Len(queue) - 1) /\ Len(queue) >= 1
      /\ \A i \in 1..(Len(queue) - 1) : queue'[i] = queue[i + 1]
      /\ Head(queue) = queue[1]
  BY <1>1
<1>3. \A i \in DOMAIN queue' :
        i + 1 \in DOMAIN queue /\ queue'[i] = queue[i + 1] /\ i + 1 # 1
        /\ i \in Nat
  BY <1>2
<1>4. 1 \in DOMAIN queue
      /\ \A i \in DOMAIN queue : i # 1 => i - 1 \in DOMAIN queue'
                                         /\ queue'[i - 1] = queue[i]
  BY <1>2
<1>5. \A i, k \in DOMAIN queue' : queue'[i] = queue'[k] => i = k
  <2> TAKE i, k \in DOMAIN queue'
  <2>1. queue'[i] = queue'[k] => i + 1 = k + 1
    BY <1>3 DEF TokenInv
  <2>2. i + 1 = k + 1 => i = k
    BY <1>3
  <2> QED
    BY <2>1, <2>2
<1>6. \A i \in DOMAIN queue : queue[i] = queue[1] => i = 1
  BY <1>4 DEF TokenInv
<1>7. \A k \in Job : Queued(k)' => Queued(k) /\ k # Head(queue)
  BY <1>2, <1>3, <1>6 DEF Queued
<1>8. \A k \in Job : Queued(k) /\ k # Head(queue) => Queued(k)'
  BY <1>2, <1>4 DEF Queued
<1> QED
  BY <1>1, <1>2, <1>4, <1>5, <1>7, <1>8, QueueTypes DEF Queued

(* ... which goes to the queue when the push, or a retry timer, delivers it *)
(* there ...                                                               *)
LEMMA PushToken ==
  ASSUME TypeInv, [Next]_vars, TokenInv, NEW j \in Job,
         queue' = Append(queue, j),
         UNCHANGED <<held, task>>,
         \/ j \in submitting /\ submitting' = submitting \ {j} /\ UNCHANGED timer
         \/ /\ \E p \in Permit : /\ timer[p] = j
                                 /\ timer' = [timer EXCEPT ![p] = None]
            /\ UNCHANGED submitting
  PROVE  TokenInv'
<1>1. /\ jobs[j].status # "NEW" /\ ~Queued(j) /\ ~Held(j)
      /\ \A s \in Slot : ~Live(s, j)
  BY DEF TokenInv, Timed, HasToken, Waiting
<1>2. /\ \A i, k \in DOMAIN queue' : queue'[i] = queue'[k] => i = k
      /\ \A k \in Job : Queued(k)' <=> Queued(k) \/ k = j
  BY <1>1, AppendQueued
<1>3. \A k \in Job : /\ Held(k)' <=> Held(k)
                     /\ \A s \in Slot : Live(s, k)' <=> Live(s, k)
  BY DEF Held, Live
<1>4. /\ timer \in [Permit -> Job \cup {None}] /\ None # j
      /\ \A p \in Permit : timer'[p] \in {timer[p], None}
  BY TypeInvParts, JobAssumption DEF RestOK
<1>5. \A k \in Job : /\ Timed(k)' => Timed(k)
                     /\ k \in submitting' => k \in submitting
  BY <1>4, JobAssumption DEF Timed
<1>6. j \notin submitting' /\ ~Timed(j)'
  <2>1. CASE j \in submitting /\ submitting' = submitting \ {j} /\ UNCHANGED timer
    BY <2>1, <1>5 DEF TokenInv
  <2>2. CASE /\ \E p \in Permit : /\ timer[p] = j
                                  /\ timer' = [timer EXCEPT ![p] = None]
             /\ UNCHANGED submitting
    <3>1. PICK p \in Permit : /\ timer[p] = j
                              /\ timer' = [timer EXCEPT ![p] = None]
      BY <2>2
    <3>2. \A q \in Permit : timer[q] = j => q = p
      BY <3>1, <1>4 DEF TokenInv
    <3>3. \A q \in Permit : timer'[q] # j
      BY <3>1, <3>2, <1>4
    <3>4. Timed(j)
      BY <3>1 DEF Timed
    <3> QED
      BY <2>2, <3>3, <3>4 DEF TokenInv, Timed
  <2> QED
    BY <2>1, <2>2
<1>7. \A k \in Job : jobs'[k].status = "NEW" => jobs[k].status = "NEW" /\ k # j
  BY <1>1, NewStays
<1>8. /\ \A v, w \in Worker : held'[v] = held'[w] /\ held'[v] # None => v = w
      /\ \A p, q \in Permit :
           timer'[p] = timer'[q] /\ timer'[p] # None => p = q
      /\ \A s, t \in Slot : \A k \in Job : Live(s, k)' /\ Live(t, k)' => s = t
  BY <1>3, <1>4 DEF TokenInv
<1>9. \A k \in Job :
        /\ jobs'[k].status = "NEW" => ~HasToken(k)'
        /\ k \in submitting' => ~Queued(k)' /\ ~Held(k)' /\ ~Timed(k)'
        /\ Queued(k)' => ~Held(k)' /\ ~Timed(k)'
        /\ Held(k)' => ~Timed(k)'
        /\ \A s \in Slot : Live(s, k)' => ~Waiting(k)'
  <2> TAKE k \in Job
  <2>1. CASE k = j
    BY <2>1, <1>1, <1>2, <1>3, <1>6, <1>7
  <2>2. CASE k # j
    BY <2>2, <1>2, <1>3, <1>5, <1>7 DEF TokenInv, Waiting, HasToken
  <2> QED
    BY <2>1, <2>2
<1> QED
  BY <1>2, <1>8, <1>9 DEF TokenInv

(* ... from there to a worker (or, when the answer of Redis is lost, to     *)
(* nobody) ...                                                             *)
LEMMA PopToken ==
  ASSUME TypeInv, [Next]_vars, TokenInv, NEW w \in Worker,
         Pop(w) \/ PopLost(w)
  PROVE  TokenInv'
<1> DEFINE j == Head(queue)
<1>1. queue # <<>> /\ queue' = Tail(queue) /\ held[w] = None
      /\ UNCHANGED <<submitting, task, timer>>
  BY DEF Pop, PopLost, PopFrom
<1>2. /\ \A i, k \in DOMAIN queue' : queue'[i] = queue'[k] => i = k
      /\ j \in Job /\ Queued(j)
      /\ \A k \in Job : Queued(k)' <=> Queued(k) /\ k # j
  BY <1>1, TailQueued
<1>3. /\ jobs[j].status # "NEW" /\ j \notin submitting /\ ~Held(j)
      /\ ~Timed(j) /\ \A s \in Slot : ~Live(s, j)
  BY <1>2 DEF TokenInv, HasToken, Waiting
<1>4. held' = [held EXCEPT ![w] = j] \/ held' = held
  BY DEF Pop, PopLost
<1> HIDE DEF j
<1>5. held \in [Worker -> Job \cup {None}]
  BY TypeInvParts DEF RestOK
<1>6. \A k \in Job : Held(k)' => Held(k) \/ k = j
  BY <1>4, <1>5 DEF Held
<1>7. \A k \in Job : /\ Timed(k)' <=> Timed(k)
                     /\ \A s \in Slot : Live(s, k)' <=> Live(s, k)
  BY <1>1 DEF Timed, Live
<1>8. \A u, v \in Worker : held'[u] = held'[v] /\ held'[u] # None => u = v
  <2> TAKE u, v \in Worker
  <2>1. \A x \in Worker : held[x] # j
    BY <1>3 DEF Held
  <2> QED
    BY <2>1, <1>4, <1>5 DEF TokenInv
<1>9. /\ \A p, q \in Permit :
           timer'[p] = timer'[q] /\ timer'[p] # None => p = q
      /\ \A s, t \in Slot : \A k \in Job : Live(s, k)' /\ Live(t, k)' => s = t
  BY <1>1, <1>7 DEF TokenInv
<1>10. \A k \in Job : jobs'[k].status = "NEW" => jobs[k].status = "NEW" /\ k # j
  BY <1>3, NewStays
<1>11. \A k \in Job :
        /\ jobs'[k].status = "NEW" => ~HasToken(k)'
        /\ k \in submitting' => ~Queued(k)' /\ ~Held(k)' /\ ~Timed(k)'
        /\ Queued(k)' => ~Held(k)' /\ ~Timed(k)'
        /\ Held(k)' => ~Timed(k)'
        /\ \A s \in Slot : Live(s, k)' => ~Waiting(k)'
  <2> TAKE k \in Job
  <2>1. CASE k = j
    BY <2>1, <1>1, <1>2, <1>3, <1>7, <1>10
  <2>2. CASE k # j
    BY <2>2, <1>1, <1>2, <1>6, <1>7, <1>10 DEF TokenInv, Waiting, HasToken
  <2> QED
    BY <2>1, <2>2
<1> QED
  BY <1>2, <1>8, <1>9, <1>11 DEF TokenInv

(* ... from the worker to the task it spawns ...                           *)
LEMMA AcquireToken ==
  ASSUME TypeInv, [Next]_vars, TokenInv, NEW w \in Worker, Acquire(w)
  PROVE  TokenInv'
<1>0. /\ held \in [Worker -> Job \cup {None}]
      /\ task \in [Slot -> Task]
  BY TypeInvParts DEF RestOK, TaskInv
<1>j. PICK j \in Job : j = held[w]
  BY <1>0 DEF Acquire
<1>1. /\ j \in Job /\ j # None /\ j = held[w]
      /\ held' = [held EXCEPT ![w] = None]
      /\ UNCHANGED <<submitting, queue, timer>>
  BY <1>j, JobAssumption DEF Acquire
<1>2. PICK s \in Slot :
        task' = [task EXCEPT ![s] = [Idle EXCEPT !.pc = "fetch", !.job = j]]
  BY <1>j DEF Acquire
<1>3. /\ Held(j) /\ jobs[j].status # "NEW" /\ j \notin submitting
      /\ ~Queued(j) /\ ~Timed(j) /\ \A t \in Slot : ~Live(t, j)
  BY <1>1 DEF Held, TokenInv, HasToken, Waiting
<1>4. ~Held(j)' /\ \A k \in Job : Held(k)' => Held(k)
  <2>1. \A v \in Worker : held[v] = j => v = w
    BY <1>1 DEF TokenInv
  <2>2. \A v \in Worker : held'[v] = IF v = w THEN None ELSE held[v]
    BY <1>0, <1>1
  <2> QED
    BY <2>1, <2>2, <1>1, JobAssumption DEF Held
<1>5. /\ task'[s].pc = "fetch" /\ task'[s].job = j
      /\ \A t \in Slot : t # s => task'[t] = task[t]
  BY <1>0, <1>2 DEF Idle
<1>6. \A k \in Job, t \in Slot : Live(t, k)' => Live(t, k) \/ (t = s /\ k = j)
  BY <1>5 DEF Live
<1>7. \A k \in Job : /\ Timed(k)' <=> Timed(k)
                     /\ Queued(k)' <=> Queued(k)
  BY <1>1 DEF Timed, Queued
<1>8. \A u, v \in Worker : held'[u] = held'[v] /\ held'[u] # None => u = v
  BY <1>0, <1>1 DEF TokenInv
<1>9. /\ \A i, k \in DOMAIN queue' : queue'[i] = queue'[k] => i = k
      /\ \A p, q \in Permit :
           timer'[p] = timer'[q] /\ timer'[p] # None => p = q
      /\ \A t, u \in Slot : \A k \in Job : Live(t, k)' /\ Live(u, k)' => t = u
  BY <1>1, <1>3, <1>6 DEF TokenInv
<1>10. \A k \in Job : jobs'[k].status = "NEW" => jobs[k].status = "NEW" /\ k # j
  BY <1>3, NewStays
<1>11. \A k \in Job :
        /\ jobs'[k].status = "NEW" => ~HasToken(k)'
        /\ k \in submitting' => ~Queued(k)' /\ ~Held(k)' /\ ~Timed(k)'
        /\ Queued(k)' => ~Held(k)' /\ ~Timed(k)'
        /\ Held(k)' => ~Timed(k)'
        /\ \A t \in Slot : Live(t, k)' => ~Waiting(k)'
  <2> TAKE k \in Job
  <2>1. CASE k = j
    <3>1. j \notin submitting' /\ ~Queued(j)' /\ ~Held(j)' /\ ~Timed(j)'
      BY <1>1, <1>3, <1>4, <1>7
    <3>2. ~Waiting(j)'
      BY <3>1 DEF Waiting
    <3> QED
      BY <2>1, <3>1, <3>2, <1>10
  <2>2. CASE k # j
    BY <2>2, <1>1, <1>4, <1>6, <1>7, <1>10 DEF TokenInv, Waiting, HasToken
  <2> QED
    BY <2>1, <2>2
<1> QED
  BY <1>8, <1>9, <1>11 DEF TokenInv

(* ... and from a failed task to a retry timer, or to nobody.              *)
LEMMA DispatchToken ==
  ASSUME TypeInv, [Next]_vars, TokenInv, NEW s \in Slot, Dispatch(s)
  PROVE  TokenInv'
<1> DEFINE j == task[s].job
<1>0. /\ timer \in [Permit -> Job \cup {None}]
      /\ task \in [Slot -> Task]
  BY TypeInvParts DEF RestOK, TaskInv
<1>1. /\ task[s].pc = "dispatch" /\ j \in Job /\ j # None
      /\ UNCHANGED <<submitting, queue, held>>
  BY TypeInvParts, JobAssumption DEF Dispatch, TaskInv
<1>2. Live(s, j) /\ jobs[j].status # "NEW" /\ ~Waiting(j)
      /\ \A t \in Slot : Live(t, j) => t = s
  BY <1>1 DEF Live, LivePc, TokenInv, HasToken
<1>3. /\ task'[s].pc \in {"hook", "lrem"}
      /\ \A t \in Slot : t # s => task'[t] = task[t]
  BY <1>0 DEF Dispatch, Report, Task
<1> HIDE DEF j
<1>4. \A k \in Job, t \in Slot : Live(t, k)' => Live(t, k) /\ t # s
  BY <1>3 DEF Live, LivePc
<1>5. \/ timer' = timer
      \/ \E p \in Permit : timer[p] = None /\ timer' = [timer EXCEPT ![p] = j]
  BY DEF Dispatch, j
<1>6. \A k \in Job : /\ Held(k)' <=> Held(k)
                     /\ Queued(k)' <=> Queued(k)
                     /\ k # j => (Timed(k)' => Timed(k))
  BY <1>0, <1>1, <1>5 DEF Held, Queued, Timed
<1>7. \A p, q \in Permit : timer'[p] = timer'[q] /\ timer'[p] # None => p = q
  <2> TAKE p, q \in Permit
  <2>1. \A r \in Permit : timer[r] # j
    BY <1>2 DEF Waiting, Timed
  <2> QED
    BY <2>1, <1>0, <1>5 DEF TokenInv
<1>8. /\ \A i, k \in DOMAIN queue' : queue'[i] = queue'[k] => i = k
      /\ \A v, w \in Worker : held'[v] = held'[w] /\ held'[v] # None => v = w
      /\ \A t, u \in Slot : \A k \in Job : Live(t, k)' /\ Live(u, k)' => t = u
  BY <1>1, <1>4 DEF TokenInv
<1>9. \A k \in Job : jobs'[k].status = "NEW" => jobs[k].status = "NEW" /\ k # j
  BY <1>2, NewStays
<1>10. \A k \in Job :
        /\ jobs'[k].status = "NEW" => ~HasToken(k)'
        /\ k \in submitting' => ~Queued(k)' /\ ~Held(k)' /\ ~Timed(k)'
        /\ Queued(k)' => ~Held(k)' /\ ~Timed(k)'
        /\ Held(k)' => ~Timed(k)'
        /\ \A t \in Slot : Live(t, k)' => ~Waiting(k)'
  <2> TAKE k \in Job
  <2>1. CASE k = j
    BY <2>1, <1>1, <1>2, <1>4, <1>6, <1>9 DEF Waiting
  <2>2. CASE k # j
    BY <2>2, <1>1, <1>4, <1>6, <1>9 DEF TokenInv, Waiting, HasToken
  <2> QED
    BY <2>1, <2>2
<1> QED
  BY <1>7, <1>8, <1>10 DEF TokenInv

(* Every step keeps the token of each job unique.                          *)
LEMMA TokenStep == TypeInv /\ TokenInv /\ [Next]_vars => TokenInv'
<1> SUFFICES ASSUME TypeInv, TokenInv, [Next]_vars PROVE TokenInv'
  OBVIOUS
<1> DEFINE Kept == /\ submitting' \subseteq submitting
                   /\ UNCHANGED queue
                   /\ \A w \in Worker : held'[w] \in {held[w], None}
                   /\ \A s \in Slot, j \in Job : Live(s, j)' => Live(s, j)
                   /\ \A p \in Permit : timer'[p] \in {timer[p], None}
<1>k. Kept => TokenInv'
  BY TokensShrink
<1>i. TaskInv /\ RestOK /\ task \in [Slot -> Task]
  BY TypeInvParts DEF TaskInv
<1>same. ASSUME UNCHANGED <<submitting, queue, held, task, timer>>
         PROVE  TokenInv'
  BY <1>same, <1>k DEF Live
<1>1. ASSUME NEW j \in Job, Insert(j) \/ Push(j) \/ PushFails(j)
      PROVE  TokenInv'
  <2>1. CASE Push(j)
    BY <2>1, PushToken DEF Push
  <2>2. CASE PushFails(j)
    BY <2>2, <1>k DEF PushFails, Live
  <2> QED
    BY <1>1, <2>1, <2>2, InsertToken
<1>2. ASSUME NEW w \in Worker, Exit(w) \/ Crash(w) PROVE TokenInv'
  <2>1. Dies(w)
    BY <1>2 DEF Exit, Crash
  <2>2. \A s \in Slot : task'[s] = task[s] \/ task'[s].pc = "idle"
    BY <2>1, <1>i DEF Dies, Idle
  <2>3. \A s \in Slot, j \in Job : Live(s, j)' => Live(s, j)
    BY <2>2 DEF Live, LivePc
  <2>4. /\ \A v \in Worker : held'[v] \in {held[v], None}
        /\ \A p \in Permit : timer'[p] \in {timer[p], None}
        /\ UNCHANGED <<submitting, queue>>
    BY <2>1, <1>i DEF Dies, RestOK
  <2> QED
    BY <2>3, <2>4, <1>k
<1>3. ASSUME NEW s \in Slot, UNCHANGED <<submitting, queue, held, timer>>,
             \A t \in Slot : t # s => task'[t] = task[t],
             \/ task'[s].pc \notin LivePc
             \/ task[s].pc \in LivePc /\ task'[s].job = task[s].job
      PROVE  TokenInv'
  <2>1. \A t \in Slot, j \in Job : Live(t, j)' => Live(t, j)
    BY <1>3 DEF Live
  <2> QED
    BY <1>3, <2>1, <1>k
<1>4. ASSUME NEW s \in Slot, TaskStep(s) PROVE TokenInv'
  <2>1. CASE Fetch(s)
    BY <2>1, <1>i, <1>3 DEF Fetch, OthersUnchanged, LivePc, Task
  <2>2. CASE MarkProcessing(s)
    BY <2>2, <1>i, <1>3 DEF MarkProcessing, OthersUnchanged, LivePc, Task
  <2>3. CASE Progress(s)
    BY <2>3, <1>i, <1>3 DEF Progress, OthersUnchanged, LivePc, Task
  <2>4. CASE RunEnds(s)
    BY <2>4, <1>i, <1>3 DEF RunEnds, Step, OthersUnchanged, LivePc, Task
  <2>5. CASE Complete(s)
    BY <2>5, <1>i, <1>3 DEF Complete, Report, OthersUnchanged, LivePc, Task
  <2>6. CASE Fail(s)
    BY <2>6, <1>i, <1>3 DEF Fail, Step, Report, OthersUnchanged, LivePc, Task
  <2>7. CASE Retry(s)
    BY <2>7, <1>i, <1>3 DEF Retry, Step, OthersUnchanged, LivePc, Task
  <2>8. CASE HookAttempt(s)
    <3>1. task'[s].pc \in {"hook", "lrem"}
          /\ \A t \in Slot : t # s => task'[t] = task[t]
      BY <2>8, <1>i DEF HookAttempt, Step, Task
    <3> QED
      BY <2>8, <3>1, <1>3 DEF HookAttempt, OthersUnchanged, LivePc
  <2>9. CASE LRem(s)
    BY <2>9, <1>i, <1>3 DEF LRem, LivePc, Idle
  <2> QED
    BY <1>4, <2>1, <2>2, <2>3, <2>4, <2>5, <2>6, <2>7, <2>8, <2>9,
       DispatchToken DEF TaskStep
<1>5. ASSUME NEW s \in Slot, DbError(s) \/ LRemFails(s) PROVE TokenInv'
  <2>1. CASE DbError(s)
    BY <2>1, <1>i, <1>3 DEF DbError, Step, Report, OthersUnchanged, LivePc,
                            Task
  <2>2. CASE LRemFails(s)
    BY <2>2, <1>i, <1>3 DEF LRemFails, OthersUnchanged, LivePc, Idle
  <2> QED
    BY <1>5, <2>1, <2>2
<1>6. ASSUME NEW p \in Permit, TimerFires(p) \/ TimerFails(p) PROVE TokenInv'
  <2>1. CASE TimerFires(p)
    <3>1. timer[p] \in Job
      BY <2>1, <1>i DEF TimerFires, RestOK
    <3> QED
      BY <2>1, <3>1, PushToken DEF TimerFires
  <2>2. CASE TimerFails(p)
    BY <2>2, <1>i, <1>k DEF TimerFails, Live, RestOK
  <2> QED
    BY <1>6, <2>1, <2>2
<1> QED
  BY <1>same, <1>1, <1>2, <1>4, <1>5, <1>6, PopToken, AcquireToken
     DEF Next, vars, Shutdown, Restart, CancelCheck, CancelWrite, Cleanup

(* At most one push, queue entry, worker, task or timer can lead to an      *)
(* execution of a job.                                                     *)
THEOREM TokenUnique == Spec => []TokenInv
<1>1. Init => TokenInv
  BY JobAssumption DEF Init, TokenInv, Live, LivePc, Idle, HasToken, Waiting,
                       Queued, Held, Timed
<1>2. TypeInv /\ TokenInv /\ [Next]_vars => TokenInv'
  BY TokenStep
<1> QED
  BY Typing, <1>1, <1>2, PTL DEF Spec

(* Hence no two tasks ever execute the same job at once.                   *)
THEOREM Serial == Spec => []SingleExecution
<1>1. TypeInv /\ TokenInv => SingleExecution
  <2> SUFFICES ASSUME TypeInv, TokenInv,
                      NEW s \in Slot, NEW t \in Slot,
                      task[s].pc = "run", task[t].pc = "run",
                      task[s].job = task[t].job
               PROVE  s = t
    BY DEF SingleExecution
  <2>1. task[s].job \in Job
    BY TypeInvParts DEF TaskInv
  <2> QED
    BY <2>1 DEF TokenInv, Live, LivePc
<1> QED
  BY Typing, TokenUnique, <1>1, PTL

-----------------------------------------------------------------------------
(* The rows are written by unconditional UPDATEs from copies read earlier. *)

(* What one step may do to one row.                                        *)
RowMove(j) ==
  \/ jobs'[j] = jobs[j]
  \/ /\ jobs[j].status = "NEW"
     /\ jobs'[j] = [jobs[j] EXCEPT !.status = "QUEUED"]
  \/ /\ Exists(j)
     /\ \E s \in Slot :
          /\ task[s].job = j
          /\ \/ task[s].pc = "mark" /\ jobs'[j] = MarkedRow(jobs[j])
             \/ /\ task[s].pc = "run"
                /\ \E p \in Percent : jobs'[j] = [jobs[j] EXCEPT !.percent = p]
             \/ /\ task[s].pc = "complete" /\ jobs'[j] = CompletedRow(jobs[j])
                /\ task'[s].pc \notin LivePc
             \/ task[s].pc = "fail" /\ jobs'[j] = FailedRow(jobs[j])
             \/ /\ task[s].pc = "retry"
                /\ jobs'[j] = RetriedRow(jobs[j], task[s].snap + 1)
  \/ Exists(j) /\ jobs'[j] = CancelledRow(jobs[j])
  \/ jobs'[j] = [NewRow EXCEPT !.status = "DELETED"]

(* A row that an UPDATE with this job's id, or with another, finds.        *)
LEMMA UpdatedRow ==
  ASSUME TypeInv, NEW j \in Job, NEW k \in Job, NEW row,
         jobs' = Updated(k, row)
  PROVE  jobs'[j] = jobs[j] \/ (j = k /\ Exists(j) /\ jobs'[j] = row)
<1>1. jobs \in [Job -> Row]
  BY TypeInvParts DEF RestOK
<1> QED
  BY <1>1 DEF Updated

(* A task that reports, or goes to its LREM, executes nothing any more.    *)
LEMMA Reported ==
  ASSUME TypeInv, NEW s \in Slot, NEW outcome, Report(s, outcome)
  PROVE  /\ task'[s].pc \in {"hook", "lrem"}
         /\ task'[s].job = task[s].job
         /\ task'[s].outcome = outcome
         /\ \A t \in Slot : t # s => task'[t] = task[t]
<1>1. task \in [Slot -> Task]
  BY TypeInvParts DEF TaskInv
<1> QED
  BY <1>1 DEF Report, Task

(* A task that only moves on keeps its job, its snapshot and its outcome.  *)
LEMMA Stepped ==
  ASSUME TypeInv, NEW s \in Slot, NEW pc, Step(s, pc)
  PROVE  /\ task'[s].pc = pc
         /\ task'[s].job = task[s].job
         /\ task'[s].snap = task[s].snap
         /\ task'[s].outcome = task[s].outcome
         /\ \A t \in Slot : t # s => task'[t] = task[t]
<1>1. task \in [Slot -> Task]
  BY TypeInvParts DEF TaskInv
<1>2. /\ task'[s] = [task[s] EXCEPT !.pc = pc]
      /\ \A t \in Slot : t # s => task'[t] = task[t]
  BY <1>1 DEF Step
<1>3. \A r \in Task : LET q == [r EXCEPT !.pc = pc] IN
        /\ q.pc = pc /\ q.job = r.job
        /\ q.snap = r.snap /\ q.outcome = r.outcome
  BY DEF Task
<1>4. task[s] \in Task
  BY <1>1
<1> QED
  BY <1>2, <1>3, <1>4

(* Each step does to a row one of the things a row goes through.           *)
LEMMA RowMoves ==
  ASSUME TypeInv, [Next]_vars, NEW j \in Job
  PROVE  RowMove(j)
<1>i. jobs \in [Job -> Row] /\ TaskInv
  BY TypeInvParts DEF RestOK
<1>j. \A s \in Slot : task[s].pc # "idle" => task[s].job \in Job
  BY <1>i DEF TaskInv
<1>same. ASSUME jobs' = jobs PROVE RowMove(j)
  BY <1>same DEF RowMove
<1>1. ASSUME NEW k \in Job, Insert(k) PROVE RowMove(j)
  <2>1. CASE k = j
    BY <2>1, <1>1, <1>i DEF Insert, RowMove, Row
  <2>2. CASE k # j
    BY <2>2, <1>1, <1>i DEF Insert, RowMove
  <2> QED
    BY <2>1, <2>2
<1>2. ASSUME NEW s \in Slot, TaskStep(s), jobs' # jobs PROVE RowMove(j)
  <2>1. CASE MarkProcessing(s)
    BY <2>1, <1>j, UpdatedRow DEF MarkProcessing, RowMove
  <2>2. CASE Progress(s)
    <3>1. PICK p \in ProgressSteps :
            jobs' = Updated(task[s].job,
                            [jobs[task[s].job] EXCEPT !.percent = p])
      BY <2>2, <1>2 DEF Progress
    <3>2. task[s].job \in Job /\ p \in Percent /\ task[s].pc = "run"
      BY <2>2, <1>j, Ranges DEF Progress
    <3> QED
      BY <3>1, <3>2, UpdatedRow DEF RowMove
  <2>3. CASE Complete(s)
    <3>1. task'[s].pc \notin LivePc
      BY <2>3, Reported DEF Complete, LivePc
    <3>2. /\ task[s].job \in Job /\ task[s].pc = "complete"
          /\ jobs' = Updated(task[s].job, CompletedRow(jobs[task[s].job]))
      BY <2>3, <1>j DEF Complete
    <3> QED
      BY <3>1, <3>2, UpdatedRow DEF RowMove
  <2>4. CASE Fail(s)
    <3>1. /\ task[s].job \in Job /\ task[s].pc = "fail"
          /\ jobs' = Updated(task[s].job, FailedRow(jobs[task[s].job]))
      BY <2>4, <1>j DEF Fail
    <3> QED
      BY <3>1, UpdatedRow DEF RowMove
  <2>5. CASE Retry(s)
    BY <2>5, <1>j, UpdatedRow DEF Retry, RowMove
  <2> QED
    BY <1>2, <2>1, <2>2, <2>3, <2>4, <2>5
       DEF TaskStep, Fetch, RunEnds, Dispatch, HookAttempt, LRem
<1>3. ASSUME NEW s \in Slot, DbError(s), jobs' # jobs PROVE RowMove(j)
  <2>1. /\ jobs' = Updated(task[s].job, DbEffect(s))
        /\ task[s].job \in Job
        /\ task[s].pc \in {"fetch", "mark", "complete", "fail", "retry"}
    BY <1>3, <1>j DEF DbError
  <2>2. task[s].pc # "retry" => task'[s].pc \notin LivePc
    BY <1>3, Stepped DEF DbError, LivePc
  <2> SUFFICES ASSUME jobs'[j] # jobs[j] PROVE RowMove(j)
    BY DEF RowMove
  <2>3. task[s].job = j /\ Exists(j) /\ jobs'[j] = DbEffect(s)
    BY <2>1, UpdatedRow
  <2>4. CASE task[s].pc = "fetch"
    BY <2>3, <2>4 DEF DbEffect
  <2>5. CASE task[s].pc = "mark"
    <3>1. DbEffect(s) = MarkedRow(jobs[j])
      BY <2>3, <2>5 DEF DbEffect
    <3> QED
      BY <2>3, <2>5, <3>1 DEF RowMove
  <2>6. CASE task[s].pc = "complete"
    <3>1. DbEffect(s) = CompletedRow(jobs[j])
      BY <2>3, <2>6 DEF DbEffect
    <3> QED
      BY <2>2, <2>3, <2>6, <3>1 DEF RowMove
  <2>7. CASE task[s].pc = "fail"
    <3>1. DbEffect(s) = FailedRow(jobs[j])
      BY <2>3, <2>7 DEF DbEffect
    <3> QED
      BY <2>3, <2>7, <3>1 DEF RowMove
  <2>8. CASE task[s].pc = "retry"
    <3>1. DbEffect(s) = RetriedRow(jobs[j], task[s].snap + 1)
      BY <2>3, <2>8 DEF DbEffect
    <3> QED
      BY <2>3, <2>8, <3>1 DEF RowMove
  <2> QED
    BY <2>1, <2>4, <2>5, <2>6, <2>7, <2>8
<1>4. ASSUME NEW c \in Canceller, CancelWrite(c), jobs' # jobs PROVE RowMove(j)
  <2> DEFINE k == cancelling[c]
  <2>1. k \in Job
    BY <1>4, TypeInvParts DEF CancelWrite, RestOK
  <2>2. jobs' = Updated(k, CancelledRow(jobs[k]))
    BY <1>4 DEF CancelWrite
  <2> HIDE DEF k
  <2> QED
    BY <2>1, <2>2, UpdatedRow DEF RowMove
<1>5. CASE Cleanup
  BY <1>5, <1>i DEF Cleanup, RowMove
<1> QED
  BY <1>same, <1>1, <1>2, <1>3, <1>4, <1>5
     DEF Next, vars, Push, PushFails, Pop, PopLost, PopFrom, Acquire, Shutdown,
         Exit, Crash, Dies, Restart, LRemFails, TimerFires, TimerFails,
         CancelCheck, OthersUnchanged

(* What of it matters for results and counts.                              *)
RowEffect(j) ==
  /\ jobs'[j].result = "Success" =>
       \/ jobs[j].result = "Success"
       \/ \E s \in Slot : /\ task[s].job = j /\ task[s].pc = "complete"
                          /\ jobs'[j] = CompletedRow(jobs[j])
                          /\ task'[s].pc \notin LivePc
  /\ jobs'[j].status = "COMPLETED" =>
       \/ jobs'[j].result = "Success"
       \/ jobs[j].status = "COMPLETED" /\ jobs'[j].result = jobs[j].result
  /\ jobs'[j].status # "DELETED" =>
       \/ jobs'[j].retries = jobs[j].retries
       \/ \E s \in Slot : task[s].job = j /\ task[s].pc = "retry"

(* What each step does to a row besides its status.                        *)
LEMMA RowEffects ==
  ASSUME TypeInv, [Next]_vars, NEW j \in Job
  PROVE  RowEffect(j)
<1>i. jobs[j] \in Row
  BY TypeInvParts DEF RestOK
<1>1. CASE jobs'[j] = jobs[j]
  BY <1>1 DEF RowEffect
<1>2. CASE jobs'[j] = [jobs[j] EXCEPT !.status = "QUEUED"]
  <2>1. /\ jobs'[j].status = "QUEUED" /\ jobs'[j].result = jobs[j].result
        /\ jobs'[j].retries = jobs[j].retries
    BY <1>2, <1>i DEF Row
  <2> QED
    BY <2>1 DEF RowEffect
<1>3. CASE jobs'[j] = MarkedRow(jobs[j])
  <2>1. /\ jobs'[j].status = "PROCESSING" /\ jobs'[j].result = jobs[j].result
        /\ jobs'[j].retries = jobs[j].retries
    BY <1>3, <1>i DEF MarkedRow, Row
  <2> QED
    BY <2>1 DEF RowEffect
<1>4. ASSUME NEW p, jobs'[j] = [jobs[j] EXCEPT !.percent = p]
      PROVE  RowEffect(j)
  <2>1. /\ jobs'[j].status = jobs[j].status /\ jobs'[j].result = jobs[j].result
        /\ jobs'[j].retries = jobs[j].retries
    BY <1>4, <1>i DEF Row
  <2> QED
    BY <2>1 DEF RowEffect
<1>5. ASSUME NEW s \in Slot, task[s].job = j, task[s].pc = "complete",
             jobs'[j] = CompletedRow(jobs[j]), task'[s].pc \notin LivePc
      PROVE  RowEffect(j)
  <2>1. jobs'[j].result = "Success" /\ jobs'[j].retries = jobs[j].retries
    BY <1>5, <1>i DEF CompletedRow, Row
  <2> QED
    BY <1>5, <2>1 DEF RowEffect
<1>6. CASE jobs'[j] = FailedRow(jobs[j])
  <2>1. /\ jobs'[j].status = "FAILED" /\ jobs'[j].result = "Failed"
        /\ jobs'[j].retries = jobs[j].retries
    BY <1>6, <1>i DEF FailedRow, Row
  <2> QED
    BY <2>1 DEF RowEffect
<1>7. ASSUME NEW s \in Slot, task[s].job = j, task[s].pc = "retry",
             jobs'[j] = RetriedRow(jobs[j], task[s].snap + 1)
      PROVE  RowEffect(j)
  <2>1. jobs'[j].status = "QUEUED" /\ jobs'[j].result = jobs[j].result
    BY <1>7, <1>i DEF RetriedRow, Row
  <2> QED
    BY <1>7, <2>1 DEF RowEffect
<1>8. CASE jobs'[j] = CancelledRow(jobs[j])
  <2>1. /\ jobs'[j].status = "CANCELLED" /\ jobs'[j].result = jobs[j].result
        /\ jobs'[j].retries = jobs[j].retries
    BY <1>8, <1>i DEF CancelledRow, Row
  <2> QED
    BY <2>1 DEF RowEffect
<1>9. CASE jobs'[j] = [NewRow EXCEPT !.status = "DELETED"]
  <2>1. jobs'[j].status = "DELETED" /\ jobs'[j].result = "none"
    BY <1>9 DEF NewRow
  <2> QED
    BY <2>1 DEF RowEffect
<1> QED
  BY RowMoves, <1>1, <1>2, <1>3, <1>4, <1>5, <1>6, <1>7, <1>8, <1>9
     DEF RowMove

-----------------------------------------------------------------------------
(* What one step may do to one task.                                       *)
SlotMove(s) ==
  \/ task'[s] = task[s]
  \/ task'[s].pc = "idle"
  \/ /\ task'[s].pc = "fetch" /\ Held(task'[s].job)
     /\ task'[s].outcome = "none"
  \/ /\ task[s].pc # "idle"
     /\ task'[s].job = task[s].job
     /\ \/ /\ task'[s].outcome = task[s].outcome
           /\ \/ /\ task[s].pc = "fetch" /\ task'[s].pc = "mark"
                 /\ Exists(task[s].job)
                 /\ task'[s].snap = jobs[task[s].job].retries
                 /\ UNCHANGED attempts
              \/ /\ task[s].pc = "mark" /\ task'[s].pc = "run"
                 /\ task'[s].snap = task[s].snap
                 /\ attempts' = [attempts EXCEPT ![task[s].job] = @ + 1]
              \/ /\ task[s].pc = "run"
                 /\ task'[s].pc \in {"run", "complete", "fail"}
                 /\ task'[s].snap = task[s].snap
                 /\ UNCHANGED attempts
              \/ /\ task[s].pc = "fail" /\ task'[s].pc = "retry"
                 /\ task'[s].snap = task[s].snap
                 /\ UNCHANGED attempts
              \/ /\ task[s].pc = "retry" /\ task'[s].pc = "dispatch"
                 /\ jobs' = Updated(task[s].job,
                        RetriedRow(jobs[task[s].job], task[s].snap + 1))
                 /\ UNCHANGED attempts
              \/ task[s].pc = "hook" /\ task'[s].pc = "hook"
              \/ task'[s].pc = "lrem"
        \/ /\ task[s].pc = "complete" /\ task'[s].pc \in {"hook", "lrem"}
           /\ jobs' = Updated(task[s].job, CompletedRow(jobs[task[s].job]))
        \/ task'[s].pc \in {"hook", "lrem"} /\ task'[s].outcome = "Failed"

(* Each step does to a task one of the things a task goes through.         *)
LEMMA SlotMoves ==
  ASSUME TypeInv, [Next]_vars, NEW s \in Slot
  PROVE  SlotMove(s)
<1>i. task \in [Slot -> Task] /\ held \in [Worker -> Job \cup {None}]
  BY TypeInvParts DEF TaskInv, RestOK
<1>same. ASSUME task'[s] = task[s] PROVE SlotMove(s)
  BY <1>same DEF SlotMove
<1>1. ASSUME NEW w \in Worker, Acquire(w) PROVE SlotMove(s)
  <2>1. PICK t \in Slot :
          task' = [task EXCEPT ![t] = [Idle EXCEPT !.pc = "fetch",
                                                   !.job = held[w]]]
    BY <1>1 DEF Acquire
  <2>2. CASE t = s
    <3>1. /\ task'[s].pc = "fetch" /\ task'[s].job = held[w]
          /\ task'[s].outcome = "none"
      BY <2>1, <2>2, <1>i DEF Idle
    <3> QED
      BY <3>1 DEF SlotMove, Held
  <2>3. CASE t # s
    BY <2>1, <2>3, <1>i, <1>same
  <2> QED
    BY <2>2, <2>3
<1>2. ASSUME NEW w \in Worker, Dies(w) PROVE SlotMove(s)
  <2>1. task'[s] = task[s] \/ task'[s] = Idle
    BY <1>2 DEF Dies
  <2> QED
    BY <2>1 DEF SlotMove, Idle
<1>3. ASSUME NEW t \in Slot, TaskStep(t) PROVE SlotMove(s)
  <2>1. CASE Fetch(t)
    <3>1. CASE t = s
      BY <3>1, <2>1, <1>i DEF Fetch, SlotMove, Task
    <3>2. CASE t # s
      BY <3>2, <2>1, <1>i, <1>same DEF Fetch
    <3> QED
      BY <3>1, <3>2
  <2>2. CASE MarkProcessing(t)
    <3>1. CASE t = s
      BY <3>1, <2>2, <1>i DEF MarkProcessing, SlotMove, Task
    <3>2. CASE t # s
      BY <3>2, <2>2, <1>i, <1>same DEF MarkProcessing
    <3> QED
      BY <3>1, <3>2
  <2>3. CASE Progress(t)
    <3>1. PICK p \in ProgressSteps : task' = [task EXCEPT ![t].percent = p]
      BY <2>3 DEF Progress
    <3>2. task[t].pc = "run" /\ UNCHANGED attempts
      BY <2>3 DEF Progress
    <3>3. CASE t = s
      <4>1. /\ task'[s].pc = "run" /\ task'[s].job = task[s].job
            /\ task'[s].snap = task[s].snap
            /\ task'[s].outcome = task[s].outcome
        BY <3>1, <3>2, <3>3, <1>i DEF Task
      <4> QED
        BY <4>1, <3>2, <3>3 DEF SlotMove
    <3>4. CASE t # s
      BY <3>1, <3>4, <1>i, <1>same
    <3> QED
      BY <3>3, <3>4
  <2>4. CASE RunEnds(t)
    <3>1. PICK pc \in {"complete", "fail"} : Step(t, pc)
      BY <2>4 DEF RunEnds
    <3> QED
      BY <3>1, <2>4, <1>same, Stepped DEF RunEnds, SlotMove
  <2>5. CASE Complete(t)
    BY <2>5, <1>same, Reported DEF Complete, SlotMove
  <2>6. CASE Fail(t)
    BY <2>6, <1>same, Reported, Stepped DEF Fail, SlotMove
  <2>7. CASE Retry(t)
    BY <2>7, <1>same, Stepped DEF Retry, SlotMove
  <2>8. CASE Dispatch(t)
    BY <2>8, <1>same, Reported DEF Dispatch, SlotMove
  <2>9. CASE HookAttempt(t)
    <3>1. CASE Step(t, "lrem")
      BY <3>1, <2>9, <1>same, Stepped DEF HookAttempt, SlotMove
    <3>2. CASE task' = [task EXCEPT ![t].tries = @ + 1]
      <4>1. CASE t = s
        <5>1. /\ task'[s].pc = "hook" /\ task'[s].job = task[s].job
              /\ task'[s].outcome = task[s].outcome
          BY <4>1, <3>2, <2>9, <1>i DEF HookAttempt, Task
        <5> QED
          BY <5>1, <4>1, <2>9 DEF HookAttempt, SlotMove
      <4>2. CASE t # s
        BY <4>2, <3>2, <1>i, <1>same
      <4> QED
        BY <4>1, <4>2
    <3> QED
      BY <2>9, <3>1, <3>2 DEF HookAttempt
  <2>10. CASE LRem(t)
    BY <2>10, <1>i DEF LRem, SlotMove, Idle
  <2> QED
    BY <1>3, <2>1, <2>2, <2>3, <2>4, <2>5, <2>6, <2>7, <2>8, <2>9, <2>10
       DEF TaskStep
<1>4. ASSUME NEW t \in Slot, DbError(t) PROVE SlotMove(s)
  BY <1>4, <1>same, Reported, Stepped DEF DbError, SlotMove
<1>5. ASSUME NEW t \in Slot, LRemFails(t) PROVE SlotMove(s)
  BY <1>5, <1>i DEF LRemFails, SlotMove, Idle
<1> QED
  BY ZenonT(60), <1>same, <1>1, <1>2, <1>3, <1>4, <1>5
     DEF Next, vars, Insert, Push, PushFails, Pop, PopLost, Shutdown, Exit,
         Crash, Restart, TimerFires, TimerFails, CancelCheck, CancelWrite,
         Cleanup

(* Only a task that starts an execution counts one.                        *)
LEMMA AttemptsMove ==
  ASSUME TypeInv, [Next]_vars, NEW j \in Job
  PROVE  \/ attempts'[j] = attempts[j]
         \/ /\ attempts'[j] = attempts[j] + 1
            /\ \E s \in Slot : /\ task[s].pc = "mark" /\ task[s].job = j
                               /\ task'[s].pc = "run"
<1>i. attempts \in [Job -> Nat] /\ task \in [Slot -> Task]
  BY TypeInvParts DEF RestOK, TaskInv
<1>1. ASSUME NEW s \in Slot, MarkProcessing(s)
      PROVE  \/ attempts'[j] = attempts[j]
             \/ /\ attempts'[j] = attempts[j] + 1
                /\ task[s].pc = "mark" /\ task[s].job = j
                /\ task'[s].pc = "run"
  BY <1>1, <1>i DEF MarkProcessing, Task
<1> QED
  BY ZenonT(60), <1>1
     DEF Next, vars, TaskStep, Fetch, Progress, RunEnds, Complete, Fail, Retry,
         Dispatch, HookAttempt, LRem, DbError, LRemFails, Insert, Push,
         PushFails, Pop, PopLost, Acquire, Shutdown, Exit, Crash, Dies,
         Restart, TimerFires, TimerFails, CancelCheck, CancelWrite, Cleanup

(* A job waits again only after its insertion or a retry.                  *)
LEMMA WaitingFrom ==
  ASSUME TypeInv, TokenInv, [Next]_vars, NEW j \in Job, Waiting(j)'
  PROVE  \/ Waiting(j)
         \/ jobs[j].status = "NEW"
         \/ \E s \in Slot : task[s].pc = "dispatch" /\ task[s].job = j
<1>i. /\ held \in [Worker -> Job \cup {None}]
      /\ timer \in [Permit -> Job \cup {None}]
      /\ None # j
  BY TypeInvParts, JobAssumption DEF RestOK
<1>same. ASSUME UNCHANGED <<submitting, queue, held, timer>> PROVE Waiting(j)
  BY <1>same DEF Waiting, Queued, Held, Timed
<1>1. ASSUME NEW k \in Job, Insert(k)
      PROVE  Waiting(j) \/ jobs[j].status = "NEW"
  BY <1>1 DEF Insert, Waiting, Queued, Held, Timed
<1>2. ASSUME NEW k \in Job, queue' = Append(queue, k), UNCHANGED held,
             submitting' \subseteq submitting,
             \A p \in Permit : timer'[p] \in {timer[p], None},
             k \in submitting \/ Timed(k), ~Queued(k)
      PROVE  Waiting(j)
  <2>1. Queued(j)' <=> Queued(j) \/ j = k
    BY <1>2, AppendQueued
  <2>2. (Held(j)' => Held(j)) /\ (Timed(j)' => Timed(j))
    BY <1>2, <1>i DEF Held, Timed
  <2> QED
    BY <1>2, <2>1, <2>2 DEF Waiting
<1>3. ASSUME NEW k \in Job, Push(k) PROVE Waiting(j)
  <2>1. k \in submitting /\ ~Queued(k)
    BY <1>3 DEF Push, TokenInv
  <2> QED
    BY <1>2, <1>3, <2>1 DEF Push
<1>4. ASSUME NEW p \in Permit, TimerFires(p) PROVE Waiting(j)
  <2> DEFINE k == timer[p]
  <2>1. k \in Job /\ Timed(k)
    BY <1>4, <1>i DEF TimerFires, Timed
  <2>2. ~Queued(k)
    BY <2>1 DEF TokenInv
  <2>3. /\ queue' = Append(queue, k)
        /\ \A q \in Permit : timer'[q] \in {timer[q], None}
        /\ UNCHANGED <<held, submitting>>
    BY <1>4, <1>i DEF TimerFires
  <2> HIDE DEF k
  <2> QED
    BY <1>2, <2>1, <2>2, <2>3
<1>5. ASSUME UNCHANGED queue,
             submitting' \subseteq submitting,
             \A w \in Worker : held'[w] \in {held[w], None},
             \A p \in Permit : timer'[p] \in {timer[p], None}
      PROVE  Waiting(j)
  BY <1>5, <1>i DEF Waiting, Queued, Held, Timed
<1>6. ASSUME NEW w \in Worker, Pop(w) \/ PopLost(w) PROVE Waiting(j)
  <2> DEFINE h == Head(queue)
  <2>1. queue # <<>> /\ queue' = Tail(queue) /\ UNCHANGED <<submitting, timer>>
    BY <1>6 DEF Pop, PopLost, PopFrom
  <2>2. h \in Job /\ Queued(h) /\ (Queued(j)' => Queued(j))
    BY <2>1, TailQueued
  <2>3. held' = [held EXCEPT ![w] = h] \/ held' = held
    BY <1>6 DEF Pop, PopLost
  <2> HIDE DEF h
  <2>4. Held(j)' => Held(j) \/ j = h
    BY <2>3, <1>i DEF Held
  <2>5. Timed(j)' => Timed(j)
    BY <2>1 DEF Timed
  <2> QED
    BY <2>1, <2>2, <2>4, <2>5 DEF Waiting
<1>7. ASSUME NEW w \in Worker, Acquire(w) \/ Dies(w) PROVE Waiting(j)
  BY <1>7, <1>i, <1>5 DEF Acquire, Dies
<1>8. ASSUME NEW s \in Slot, Dispatch(s)
      PROVE  \/ Waiting(j)
             \/ task[s].pc = "dispatch" /\ task[s].job = j
  <2> DEFINE k == task[s].job
  <2>1. /\ task[s].pc = "dispatch" /\ UNCHANGED <<submitting, queue, held>>
        /\ \/ timer' = timer
           \/ \E p \in Permit : timer' = [timer EXCEPT ![p] = k]
    BY <1>8 DEF Dispatch
  <2>2. Timed(j)' => Timed(j) \/ j = k
    BY <2>1, <1>i DEF Timed
  <2> HIDE DEF k
  <2> QED
    BY <2>1, <2>2 DEF Waiting, Queued, Held, k
<1>9. ASSUME NEW k \in Job, PushFails(k) PROVE Waiting(j)
  BY <1>9, <1>i, <1>5 DEF PushFails
<1>10. ASSUME NEW p \in Permit, TimerFails(p) PROVE Waiting(j)
  BY <1>10, <1>i, <1>5 DEF TimerFails
<1> QED
  BY <1>same, <1>1, <1>3, <1>4, <1>6, <1>7, <1>8, <1>9, <1>10
     DEF Next, vars, TaskStep, Fetch, MarkProcessing, Progress, RunEnds,
         Complete, Fail, Retry, HookAttempt, LRem, DbError, LRemFails,
         OthersUnchanged, Shutdown, Exit, Crash, Restart, CancelCheck,
         CancelWrite, Cleanup

-----------------------------------------------------------------------------
(* Results.                                                                *)

(* A job with a token has a row that shows no result; a COMPLETED row shows *)
(* one; a task works on a job that was submitted.                          *)
ResultInv ==
  /\ \A j \in Job :
       /\ jobs[j].result = "Success" =>
            ~HasToken(j) /\ jobs[j].percent = 100 /\ jobs[j].status # "NEW"
       /\ jobs[j].status = "COMPLETED" => jobs[j].result = "Success"
  /\ \A s \in Slot :
       task[s].pc # "idle" => jobs[task[s].job].status # "NEW"
  /\ HookTellsTruth

(* No token appears from nowhere.                                          *)
LEMMA TokenFrom ==
  ASSUME TypeInv, TokenInv, [Next]_vars, NEW j \in Job, HasToken(j)'
  PROVE  HasToken(j) \/ jobs[j].status = "NEW"
<1>1. CASE Waiting(j)'
  BY <1>1, WaitingFrom DEF HasToken, Live, LivePc
<1>2. ASSUME NEW s \in Slot, Live(s, j)' PROVE HasToken(j)
  <2>1. task'[s].pc \in LivePc /\ task'[s].job = j
    BY <1>2 DEF Live
  <2>2. SlotMove(s)
    BY SlotMoves
  <2>3. Held(j) \/ Live(s, j)
    BY <2>1, <2>2 DEF SlotMove, Live, LivePc
  <2> QED
    BY <2>3 DEF HasToken, Waiting
<1> QED
  BY <1>1, <1>2 DEF HasToken

(* A stored result stays while the row does.                               *)
LEMMA ResultStays ==
  ASSUME TypeInv, TokenInv, ResultInv, [Next]_vars, NEW j \in Job,
         jobs[j].result = "Success"
  PROVE  \/ jobs'[j] = jobs[j]
         \/ jobs'[j] = CancelledRow(jobs[j])
         \/ jobs'[j] = [NewRow EXCEPT !.status = "DELETED"]
<1>1. ~HasToken(j) /\ jobs[j].status # "NEW"
  BY DEF ResultInv
<1>2. \A s \in Slot : task[s].job = j => task[s].pc \notin LivePc
  BY <1>1 DEF HasToken, Live
<1>3. RowMove(j)
  BY RowMoves
<1> QED
  BY <1>1, <1>2, <1>3 DEF RowMove, LivePc

(* A row exists from its insertion to its cleanup.                         *)
LEMMA ExistsFrom ==
  ASSUME TypeInv, [Next]_vars, NEW j \in Job, Exists(j)'
  PROVE  Exists(j) \/ jobs[j].status = "NEW"
<1>1. jobs[j] \in Row
  BY TypeInvParts DEF RestOK
<1>2. RowMove(j)
  BY RowMoves
<1> QED
  BY <1>1, <1>2 DEF RowMove, Exists, JobStatus, Row, NewRow

(* No step makes a row say what its result does not.                       *)
LEMMA ResultStep ==
  ASSUME TypeInv, TokenInv, ResultInv, [Next]_vars
  PROVE  ResultInv'
<1>i. /\ jobs \in [Job -> Row] /\ jobs' \in [Job -> Row]
      /\ task \in [Slot -> Task] /\ TaskInv'
      /\ \A s \in Slot : task[s].pc # "idle" => task[s].job \in Job
  BY TypeInvParts, TableStep, TaskInvStep DEF RestOK, TaskInv
<1>1. ASSUME NEW j \in Job, jobs'[j].result = "Success"
      PROVE  ~HasToken(j)' /\ jobs'[j].percent = 100 /\ jobs'[j].status # "NEW"
  <2>1. CASE jobs[j].result = "Success"
    <3>1. ~HasToken(j) /\ jobs[j].percent = 100 /\ jobs[j].status # "NEW"
      BY <2>1 DEF ResultInv
    <3>2. ~HasToken(j)'
      BY <3>1, TokenFrom
    <3>3. jobs'[j].status # "NEW"
      BY <3>1, NewStays
    <3>4. jobs'[j].percent = 100
      BY <2>1, <3>1, <1>1, <1>i, ResultStays DEF CancelledRow, NewRow, Row
    <3> QED
      BY <3>2, <3>3, <3>4
  <2>2. CASE jobs[j].result # "Success"
    <3>1. RowEffect(j)
      BY RowEffects
    <3>2. PICK s \in Slot :
            /\ task[s].job = j /\ task[s].pc = "complete"
            /\ jobs'[j] = CompletedRow(jobs[j]) /\ task'[s].pc \notin LivePc
      BY <2>2, <3>1, <1>1 DEF RowEffect
    <3>3. Live(s, j)
      BY <3>2 DEF Live, LivePc
    <3>4. /\ ~Waiting(j) /\ jobs[j].status # "NEW"
          /\ \A t \in Slot : Live(t, j) => t = s
      BY <3>3 DEF TokenInv, HasToken
    <3>5. ~Waiting(j)'
      <4> SUFFICES ASSUME Waiting(j)' PROVE FALSE
        OBVIOUS
      <4>1. PICK t \in Slot : task[t].pc = "dispatch" /\ task[t].job = j
        BY <3>4, WaitingFrom
      <4>2. t = s
        BY <4>1, <3>4 DEF Live, LivePc
      <4> QED
        BY <4>1, <4>2, <3>2
    <3>6. \A t \in Slot : ~Live(t, j)'
      <4> SUFFICES ASSUME NEW t \in Slot, Live(t, j)' PROVE FALSE
        OBVIOUS
      <4>1. SlotMove(t) /\ task'[t].pc \in LivePc /\ task'[t].job = j /\ t # s
        BY <3>2, SlotMoves DEF Live
      <4>2. ~Held(j) /\ ~Live(t, j)
        BY <3>4, <4>1 DEF Waiting
      <4> QED
        BY <4>1, <4>2 DEF SlotMove, Live, LivePc
    <3>7. jobs'[j].percent = 100 /\ jobs'[j].status # "NEW"
      BY <3>2, <3>4, <1>i, NewStays DEF CompletedRow, Row
    <3> QED
      BY <3>5, <3>6, <3>7 DEF HasToken
  <2> QED
    BY <2>1, <2>2
<1>2. ASSUME NEW j \in Job, jobs'[j].status = "COMPLETED"
      PROVE  jobs'[j].result = "Success"
  <2>1. RowEffect(j)
    BY RowEffects
  <2>2. jobs[j].status = "COMPLETED" => jobs[j].result = "Success"
    BY DEF ResultInv
  <2> QED
    BY <2>1, <2>2, <1>2 DEF RowEffect
<1>3. ASSUME NEW s \in Slot, task'[s].pc # "idle"
      PROVE  jobs'[task'[s].job].status # "NEW"
  <2>1. task'[s].job \in Job
    BY <1>3, <1>i DEF TaskInv
  <2>2. SlotMove(s)
    BY SlotMoves
  <2>3. CASE Held(task'[s].job)
    BY <2>1, <2>3, NewStays DEF TokenInv, HasToken, Waiting
  <2>4. CASE task[s].pc # "idle" /\ task'[s].job = task[s].job
    BY <2>1, <2>4, NewStays DEF ResultInv
  <2> QED
    BY <1>3, <2>2, <2>3, <2>4 DEF SlotMove
<1>4. HookTellsTruth'
  <2>0. \A s \in Slot : task'[s].pc = "hook" => task'[s].job \in Job
    BY <1>i DEF TaskInv
  <2> SUFFICES ASSUME NEW s \in Slot, NEW j \in Job, task'[s].job = j,
                      task'[s].pc = "hook", task'[s].outcome = "Completed",
                      Exists(j)'
               PROVE  jobs'[j].result = "Success"
    BY <2>0 DEF HookTellsTruth, Exists
  <2>1. SlotMove(s)
    BY SlotMoves
  <2>2. /\ task[s].job = j /\ task[s].pc # "idle"
        /\ \/ task[s].pc = "hook" /\ task[s].outcome = "Completed"
           \/ jobs' = Updated(j, CompletedRow(jobs[j]))
    BY <2>1 DEF SlotMove
  <2>3. jobs[j].status # "NEW" /\ jobs[j] \in Row
    BY <2>2, <1>i DEF ResultInv
  <2>4. Exists(j)
    BY <2>3, ExistsFrom
  <2>5. CASE task[s].pc = "hook" /\ task[s].outcome = "Completed"
    <3>1. jobs[j].result = "Success"
      BY <2>2, <2>4, <2>5 DEF ResultInv, HookTellsTruth
    <3>2. jobs'[j].status # "DELETED"
      BY DEF Exists, JobStatus
    <3> QED
      BY <2>3, <3>1, <3>2, ResultStays DEF CancelledRow, NewRow, Row
  <2>6. CASE jobs' = Updated(j, CompletedRow(jobs[j]))
    <3>1. jobs'[j] = CompletedRow(jobs[j])
      BY <2>4, <2>6, <1>i DEF Updated
    <3> QED
      BY <3>1, <2>3 DEF CompletedRow, Row
  <2> QED
    BY <2>2, <2>5, <2>6
<1> QED
  BY <1>1, <1>2, <1>3, <1>4 DEF ResultInv

(* What a row says of its result is so in every state.                     *)
LEMMA ResultInvariant == Spec => []ResultInv
<1>1. Init => ResultInv
  BY DEF Init, ResultInv, HookTellsTruth, NewRow, Idle
<1>2. TypeInv /\ TokenInv /\ ResultInv /\ [Next]_vars => ResultInv'
  BY ResultStep
<1> QED
  BY Typing, TokenUnique, <1>1, <1>2, PTL DEF Spec

(* A COMPLETED row shows its result and 100 percent.                       *)
THEOREM CompletedRows == Spec => []CompletedIsWhole
<1>1. ResultInv => CompletedIsWhole
  BY DEF ResultInv, CompletedIsWhole
<1> QED
  BY ResultInvariant, <1>1, PTL

(* No webhook reports a completion the row does not hold.                  *)
THEOREM TruthfulHooks == Spec => []HookTellsTruth
<1>1. ResultInv => HookTellsTruth
  BY DEF ResultInv
<1> QED
  BY ResultInvariant, <1>1, PTL

(* A stored result is not replaced, and only a cancel changes its status.   *)
THEOREM ResultsKept == Spec => ResultIsKept
<1>1. TypeInv /\ TokenInv /\ ResultInv /\ [Next]_vars =>
        [\A j \in Job :
           jobs[j].result = "Success" /\ Exists(j)' =>
             /\ jobs'[j].result = "Success"
             /\ jobs'[j].status \in {jobs[j].status, "CANCELLED"}]_vars
  <2> SUFFICES ASSUME TypeInv, TokenInv, ResultInv, [Next]_vars,
                      NEW j \in Job, jobs[j].result = "Success", Exists(j)'
               PROVE  /\ jobs'[j].result = "Success"
                      /\ jobs'[j].status \in {jobs[j].status, "CANCELLED"}
    OBVIOUS
  <2>1. jobs[j] \in Row /\ jobs'[j].status # "DELETED"
    BY TypeInvParts DEF RestOK, Exists, JobStatus
  <2> QED
    BY <2>1, ResultStays DEF CancelledRow, NewRow, Row
<1> QED
  BY Typing, TokenUnique, ResultInvariant, <1>1, PTL DEF Spec, ResultIsKept

-----------------------------------------------------------------------------
(* The retry budget.                                                       *)

(* The stored count is that of a job that may be fetched again.            *)
Ready(j) == Exists(j) => attempts[j] <= jobs[j].retries

(* From the fetch on it is the task's copy that counts.                    *)
TaskBudget(s) ==
  /\ task[s].pc \in {"fetch", "dispatch"} => Ready(task[s].job)
  /\ task[s].pc = "mark" => attempts[task[s].job] <= task[s].snap
  /\ task[s].pc \in {"run", "complete", "fail", "retry"} =>
       attempts[task[s].job] <= task[s].snap + 1

BudgetInv ==
  /\ RetryBudget
  /\ \A j \in Job : jobs[j].status = "NEW" => attempts[j] = 0
  /\ \A j \in Job : Waiting(j) => Ready(j)
  /\ \A s \in Slot : TaskBudget(s)

(* While no task marks or retries a job its counts stay.                   *)
LEMMA ReadyStays ==
  ASSUME TypeInv, TokenInv, BudgetInv, [Next]_vars, NEW j \in Job,
         Ready(j) \/ jobs[j].status = "NEW",
         \A s \in Slot : task[s].job = j => task[s].pc \notin {"mark", "retry"}
  PROVE  Ready(j)'
<1>1. jobs[j] \in Row /\ attempts[j] \in Nat
  BY TypeInvParts DEF RestOK
<1>2. attempts'[j] = attempts[j]
  BY AttemptsMove
<1>3. Exists(j)' => Exists(j) \/ jobs[j].status = "NEW"
  BY ExistsFrom
<1>4. Exists(j)' => jobs'[j].retries = jobs[j].retries
  <2>1. RowEffect(j)
    BY RowEffects
  <2>2. jobs'[j].status = "DELETED" => ~Exists(j)'
    BY DEF Exists, JobStatus
  <2> QED
    BY <2>1, <2>2 DEF RowEffect
<1>5. jobs[j].status = "NEW" => attempts[j] <= jobs[j].retries
  BY <1>1 DEF BudgetInv, Row, Retries
<1> QED
  BY <1>2, <1>3, <1>4, <1>5 DEF Ready

(* No step counts an attempt that the budget does not have.                *)
LEMMA BudgetStep ==
  ASSUME TypeInv, TokenInv, BudgetInv, [Next]_vars
  PROVE  BudgetInv'
<1>i. /\ jobs \in [Job -> Row] /\ attempts \in [Job -> Nat]
      /\ task \in [Slot -> Task] /\ MaxJobRetries \in Nat
      /\ \A s \in Slot : task[s].pc # "idle" => task[s].job \in Job
  BY TypeInvParts, CapacityAssumption DEF RestOK, TaskInv
<1>r. \A s \in Slot :
        /\ task[s].snap \in Nat /\ task[s].snap <= MaxJobRetries
        /\ task[s].pc = "retry" => task[s].snap + 1 \in Retries
  BY <1>i, Ranges, TypeInvParts DEF Task, Retries, TaskInv, RetryInv
<1>1. ASSUME NEW j \in Job PROVE attempts'[j] <= MaxJobRetries + 1
  <2>1. attempts[j] \in Nat /\ attempts[j] <= MaxJobRetries + 1
    BY <1>i DEF BudgetInv, RetryBudget
  <2>2. ASSUME NEW s \in Slot, task[s].pc = "mark", task[s].job = j
        PROVE  attempts[j] <= MaxJobRetries
    <3>1. attempts[j] <= task[s].snap
      BY <2>2 DEF BudgetInv, TaskBudget
    <3> QED
      BY <3>1, <2>1, <1>r, <1>i
  <2>3. attempts'[j] = attempts[j]
        \/ (attempts[j] <= MaxJobRetries /\ attempts'[j] = attempts[j] + 1)
    BY <2>2, AttemptsMove
  <2> QED
    BY <2>1, <2>3, <1>i
<1>2. ASSUME NEW j \in Job, jobs'[j].status = "NEW" PROVE attempts'[j] = 0
  <2>1. jobs[j].status = "NEW"
    BY <1>2, NewStays
  <2>2. attempts[j] = 0 /\ ~HasToken(j)
    BY <2>1 DEF BudgetInv, TokenInv
  <2>3. \A s \in Slot : ~(task[s].pc = "mark" /\ task[s].job = j)
    BY <2>2 DEF HasToken, Live, LivePc
  <2> QED
    BY <2>2, <2>3, AttemptsMove
<1>3. ASSUME NEW j \in Job, Waiting(j)' PROVE Ready(j)'
  <2>1. CASE Waiting(j)
    <3>1. \A s \in Slot :
            task[s].job = j => task[s].pc \notin {"mark", "retry"}
      BY <2>1 DEF TokenInv, Live, LivePc
    <3> QED
      BY <2>1, <3>1, ReadyStays DEF BudgetInv
  <2>2. CASE jobs[j].status = "NEW"
    <3>1. \A s \in Slot :
            task[s].job = j => task[s].pc \notin {"mark", "retry"}
      BY <2>2 DEF TokenInv, HasToken, Live, LivePc
    <3> QED
      BY <2>2, <3>1, ReadyStays
  <2>3. ASSUME NEW s \in Slot, task[s].pc = "dispatch", task[s].job = j
        PROVE  Ready(j)'
    <3>1. Ready(j) /\ Live(s, j)
      BY <2>3 DEF BudgetInv, TaskBudget, Live, LivePc
    <3>2. \A t \in Slot :
            task[t].job = j => task[t].pc \notin {"mark", "retry"}
      BY <2>3, <3>1 DEF TokenInv, Live, LivePc
    <3> QED
      BY <3>1, <3>2, ReadyStays
  <2> QED
    BY <1>3, <2>1, <2>2, <2>3, WaitingFrom
<1>4. ASSUME NEW s \in Slot, NEW j \in Job, task'[s].job = j,
             task'[s].pc \in LivePc
      PROVE  /\ task'[s].pc \in {"fetch", "dispatch"} => Ready(j)'
             /\ task'[s].pc = "mark" => attempts'[j] <= task'[s].snap
             /\ task'[s].pc \in {"run", "complete", "fail", "retry"} =>
                  attempts'[j] <= task'[s].snap + 1
  <2>m. SlotMove(s)
    BY SlotMoves
  <2>t. Live(s, j) => \A t \in Slot : Live(t, j) => t = s
    BY DEF TokenInv
  <2>a. ASSUME task[s].job = j, task[s].pc \in LivePc, task[s].pc # "mark"
        PROVE  attempts'[j] = attempts[j]
    <3>1. \A t \in Slot : ~(task[t].pc = "mark" /\ task[t].job = j)
      BY <2>a, <2>t DEF Live, LivePc
    <3> QED
      BY <3>1, AttemptsMove
  <2>1. CASE task'[s] = task[s]
    <3>1. task[s].job = j /\ task[s].pc \in LivePc /\ TaskBudget(s)
      BY <2>1, <1>4 DEF BudgetInv
    <3>2. CASE task[s].pc \in {"fetch", "dispatch"}
      <4>1. \A t \in Slot :
              task[t].job = j => task[t].pc \notin {"mark", "retry"}
        BY <3>1, <3>2, <2>t DEF Live, LivePc
      <4>2. Ready(j)'
        BY <3>1, <3>2, <4>1, ReadyStays DEF TaskBudget
      <4> QED
        BY <4>2, <3>2, <2>1
    <3>3. CASE task[s].pc = "mark"
      <4>1. \A t \in Slot : ~(task[t].pc = "mark" /\ task[t].job = j
                             /\ task'[t].pc = "run")
        BY <3>1, <3>3, <2>t, <2>1 DEF Live, LivePc
      <4>2. attempts'[j] = attempts[j]
        BY <4>1, AttemptsMove
      <4> QED
        BY <2>1, <3>1, <3>3, <4>2 DEF TaskBudget
    <3>4. CASE task[s].pc \in {"run", "complete", "fail", "retry"}
      BY <2>1, <3>1, <3>4, <2>a DEF TaskBudget
    <3> QED
      BY <3>1, <3>2, <3>3, <3>4 DEF LivePc
  <2>2. CASE task'[s].pc = "fetch" /\ Held(j)
    <3>1. Ready(j)
      BY <2>2 DEF BudgetInv, Waiting
    <3>2. \A t \in Slot :
            task[t].job = j => task[t].pc \notin {"mark", "retry"}
      BY <2>2 DEF TokenInv, Waiting, Live, LivePc
    <3> QED
      BY <2>2, <3>1, <3>2, ReadyStays
  <2>3. CASE task[s].job = j /\ task[s].pc = "fetch" /\ task'[s].pc = "mark"
             /\ Exists(j) /\ task'[s].snap = jobs[j].retries
             /\ UNCHANGED attempts
    BY <2>3 DEF BudgetInv, TaskBudget, Ready
  <2>4. CASE task[s].job = j /\ task[s].pc = "mark" /\ task'[s].pc = "run"
             /\ task'[s].snap = task[s].snap
             /\ attempts' = [attempts EXCEPT ![j] = @ + 1]
    <3>1. attempts[j] <= task[s].snap
      BY <2>4 DEF BudgetInv, TaskBudget
    <3>2. attempts'[j] = attempts[j] + 1
      BY <2>4, <1>i
    <3> QED
      BY <2>4, <3>1, <3>2, <1>i, <1>r
  <2>5. CASE task[s].job = j
             /\ task[s].pc \in {"run", "fail"}
             /\ task'[s].pc \in {"run", "complete", "fail", "retry"}
             /\ task'[s].snap = task[s].snap /\ UNCHANGED attempts
    BY <2>5 DEF BudgetInv, TaskBudget
  <2>6. CASE task[s].job = j /\ task[s].pc = "retry"
             /\ task'[s].pc = "dispatch" /\ UNCHANGED attempts
             /\ jobs' = Updated(j, RetriedRow(jobs[j], task[s].snap + 1))
    <3>1. attempts[j] <= task[s].snap + 1
      BY <2>6 DEF BudgetInv, TaskBudget
    <3>2. Exists(j)' => Exists(j)
      <4>1. jobs[j].status # "NEW"
        BY <2>6 DEF TokenInv, HasToken, Live, LivePc
      <4> QED
        BY <4>1, ExistsFrom
    <3>3. Exists(j) => jobs'[j].retries = task[s].snap + 1
      <4>1. Exists(j) => jobs'[j] = RetriedRow(jobs[j], task[s].snap + 1)
        BY <2>6, <1>i DEF Updated
      <4> QED
        BY <4>1, <1>i DEF RetriedRow, Row
    <3> QED
      BY <2>6, <3>1, <3>2, <3>3 DEF Ready
  <2> QED
    BY <1>4, <2>m, <2>1, <2>2, <2>3, <2>4, <2>5, <2>6 DEF SlotMove, LivePc
<1>5. ASSUME NEW s \in Slot PROVE TaskBudget(s)'
  <2>1. task'[s].pc \in LivePc => task'[s].job \in Job
    BY TaskInvStep DEF TaskInv, LivePc
  <2> QED
    BY <2>1, <1>4 DEF TaskBudget, LivePc, Ready, Exists
<1> QED
  BY <1>1, <1>2, <1>3, <1>5 DEF BudgetInv, RetryBudget

(* The attempts of a job are within its budget in every state.             *)
LEMMA BudgetInvariant == Spec => []BudgetInv
<1>1. Init => BudgetInv
  BY CapacityAssumption
     DEF Init, BudgetInv, RetryBudget, TaskBudget, Waiting, Queued, Held,
         Timed, Idle, Ready, Exists, NewRow, JobStatus
<1>2. TypeInv /\ TokenInv /\ BudgetInv /\ [Next]_vars => BudgetInv'
  BY BudgetStep
<1> QED
  BY Typing, TokenUnique, <1>1, <1>2, PTL DEF Spec

(* A job is executed at most once and once for each retry, although the     *)
(* count is read when an execution starts and written when it has failed.  *)
THEOREM RetriesBounded == Spec => []RetryBudget
<1>1. BudgetInv => RetryBudget
  BY DEF BudgetInv
<1> QED
  BY BudgetInvariant, <1>1, PTL

-----------------------------------------------------------------------------
(* The processing list.                                                    *)

Holders(j) == {w \in Worker : held[w] = j}
Tasks(j) == {s \in Slot : task[s].job = j}
Covered(j) == Cardinality(Holders(j)) + Cardinality(Tasks(j)) <= processing[j]

(* There are finitely many workers and slots to count in.                  *)
LEMMA FiniteParts == IsFiniteSet(Worker) /\ IsFiniteSet(Slot)
<1>1. IsFiniteSet(1..MaxConcurrentJobs)
  BY CapacityAssumption, FS_Interval
<1> QED
  BY <1>1, WorkerAssumption, FS_Product DEF Slot

(* The tasks and the slots that have a job can be counted.                 *)
LEMMA Counts ==
  ASSUME NEW j
  PROVE  /\ IsFiniteSet(Holders(j)) /\ Cardinality(Holders(j)) \in Nat
         /\ IsFiniteSet(Tasks(j)) /\ Cardinality(Tasks(j)) \in Nat
<1>1. Holders(j) \subseteq Worker /\ Tasks(j) \subseteq Slot
  BY DEF Holders, Tasks
<1>2. IsFiniteSet(Holders(j)) /\ IsFiniteSet(Tasks(j))
  BY <1>1, FiniteParts, FS_Subset
<1> QED
  BY <1>2, FS_CardinalityType

(* Ids are let go before, or with, their entries in the list.              *)
LEMMA CoverShrinks ==
  ASSUME TypeInv, [Next]_vars, NEW j \in Job, Covered(j),
         Holders(j)' \subseteq Holders(j), Tasks(j)' \subseteq Tasks(j),
         processing'[j] >= processing[j]
  PROVE  Covered(j)'
<1>1. /\ processing[j] \in Nat /\ processing'[j] \in Nat
  BY TypeInvParts, RestStep DEF RestOK
<1>2. /\ Cardinality(Holders(j))' \in Nat
      /\ Cardinality(Tasks(j))' \in Nat
      /\ Cardinality(Holders(j))' <= Cardinality(Holders(j))
      /\ Cardinality(Tasks(j))' <= Cardinality(Tasks(j))
  BY Counts, FS_Subset, FS_CardinalityType
<1> QED
  BY <1>1, <1>2, Counts DEF Covered

(* No step leaves more workers and tasks with a job than its id is in the  *)
(* processing list.                                                        *)
LEMMA CoverStep ==
  ASSUME TypeInv, [Next]_vars, NEW j \in Job, Covered(j)
  PROVE  Covered(j)'
<1>i. /\ processing \in [Job -> Nat] /\ processing[j] \in Nat
      /\ held \in [Worker -> Job \cup {None}]
      /\ task \in [Slot -> Task]
      /\ j # None
  BY TypeInvParts, JobAssumption DEF RestOK, TaskInv
<1>same. ASSUME UNCHANGED <<held, processing>>,
                \A s \in Slot : task'[s].job = task[s].job
         PROVE  Covered(j)'
  <2>1. Holders(j)' = Holders(j) /\ Tasks(j)' = Tasks(j)
    BY <1>same DEF Holders, Tasks
  <2> QED
    BY <2>1, <1>same DEF Covered
<1>1. ASSUME NEW w \in Worker, Pop(w) \/ PopLost(w) PROVE Covered(j)'
  <2> DEFINE h == Head(queue)
  <2>1. h \in Job /\ held[w] = None /\ UNCHANGED task
        /\ processing' = [processing EXCEPT ![h] = @ + 1]
    BY <1>1, TypeInvParts, QueueTypes DEF Pop, PopLost, PopFrom, RestOK
  <2>2. held' = [held EXCEPT ![w] = h] \/ held' = held
    BY <1>1 DEF Pop, PopLost
  <2> HIDE DEF h
  <2>3. Tasks(j)' = Tasks(j)
    BY <2>1 DEF Tasks
  <2>4. CASE h # j \/ held' = held
    <3>1. Holders(j)' \subseteq Holders(j)
      BY <2>2, <2>4, <1>i DEF Holders
    <3>2. processing'[j] >= processing[j]
      BY <2>1, <1>i
    <3> QED
      BY <2>3, <3>1, <3>2, CoverShrinks
  <2>5. CASE h = j /\ held' = [held EXCEPT ![w] = h]
    <3>1. Holders(j)' = Holders(j) \cup {w}
      BY <2>5, <1>i DEF Holders
    <3>2. w \notin Holders(j)
      BY <2>1, <1>i DEF Holders
    <3>3. Cardinality(Holders(j))' = Cardinality(Holders(j)) + 1
      BY <3>1, <3>2, Counts, FS_AddElement
    <3>4. processing'[j] = processing[j] + 1
      BY <2>1, <2>5, <1>i
    <3> QED
      BY <2>3, <3>3, <3>4, <1>i, Counts DEF Covered
  <2> QED
    BY <2>2, <2>4, <2>5
<1>2. ASSUME NEW w \in Worker, Acquire(w) PROVE Covered(j)'
  <2>1. PICK s \in Slot :
          task' = [task EXCEPT ![s] = [Idle EXCEPT !.pc = "fetch",
                                                   !.job = held[w]]]
    BY <1>2 DEF Acquire
  <2>2. held' = [held EXCEPT ![w] = None] /\ UNCHANGED processing
    BY <1>2 DEF Acquire
  <2>3. task'[s].job = held[w] /\ \A t \in Slot : t # s => task'[t] = task[t]
    BY <2>1, <1>i DEF Idle
  <2>4. CASE held[w] # j
    <3>1. Holders(j)' \subseteq Holders(j) /\ Tasks(j)' \subseteq Tasks(j)
      BY <2>2, <2>3, <2>4, <1>i DEF Holders, Tasks
    <3> QED
      BY <3>1, <2>2, <1>i, CoverShrinks
  <2>5. CASE held[w] = j
    <3>1. Holders(j)' = Holders(j) \ {w} /\ w \in Holders(j)
      BY <2>2, <2>5, <1>i DEF Holders
    <3>2. Cardinality(Holders(j))' = Cardinality(Holders(j)) - 1
      BY <3>1, Counts, FS_RemoveElement
    <3>3. Tasks(j)' = Tasks(j) \cup {s}
      BY <2>3, <2>5 DEF Tasks
    <3>4. /\ Cardinality(Tasks(j))' <= Cardinality(Tasks(j)) + 1
          /\ Cardinality(Tasks(j))' \in Nat
      <4> DEFINE T == Tasks(j)
      <4>1. IsFiniteSet(T) /\ Cardinality(T) \in Nat
        BY Counts
      <4> HIDE DEF T
      <4>2. Cardinality(T \cup {s})
              = IF s \in T THEN Cardinality(T) ELSE Cardinality(T) + 1
        BY <4>1, FS_AddElement
      <4>3. /\ Cardinality(T \cup {s}) <= Cardinality(T) + 1
            /\ Cardinality(T \cup {s}) \in Nat
        BY <4>1, <4>2
      <4> QED
        BY <3>3, <4>3 DEF T
    <3>5. processing'[j] = processing[j]
      BY <2>2
    <3> QED
      BY <3>2, <3>4, <3>5, <1>i, Counts DEF Covered
  <2> QED
    BY <2>4, <2>5
<1>3. ASSUME NEW w \in Worker, Dies(w) PROVE Covered(j)'
  <2>1. Holders(j)' \subseteq Holders(j) /\ Tasks(j)' \subseteq Tasks(j)
    BY <1>3, <1>i DEF Dies, Holders, Tasks, Idle
  <2>2. processing'[j] = processing[j]
    BY <1>3 DEF Dies
  <2> QED
    BY <2>1, <2>2, <1>i, CoverShrinks
<1>4. ASSUME NEW s \in Slot, LRem(s) PROVE Covered(j)'
  <2>1. /\ task' = [task EXCEPT ![s] = Idle] /\ UNCHANGED held
        /\ task[s].job \in Job
        /\ processing' = [processing EXCEPT
                            ![task[s].job] = IF @ = 0 THEN 0 ELSE @ - 1]
    BY <1>4, TypeInvParts DEF LRem, TaskInv
  <2>2. Holders(j)' = Holders(j)
    BY <2>1 DEF Holders
  <2>3. Tasks(j)' = Tasks(j) \ {s}
    BY <2>1, <1>i DEF Tasks, Idle
  <2>4. CASE task[s].job # j
    <3>1. processing'[j] = processing[j]
      BY <2>1, <2>4, <1>i
    <3> QED
      BY <2>2, <2>3, <3>1, <1>i, CoverShrinks
  <2>5. CASE task[s].job = j
    <3>1. s \in Tasks(j)
      BY <2>5 DEF Tasks
    <3>2. Cardinality(Tasks(j))' = Cardinality(Tasks(j)) - 1
          /\ Cardinality(Tasks(j))' \in Nat
      BY <2>3, <3>1, Counts, FS_RemoveElement, FS_CardinalityType
    <3>3. processing[j] # 0
      BY <3>2, <1>i, Counts DEF Covered
    <3>4. processing'[j] = processing[j] - 1
      BY <2>1, <2>5, <3>3, <1>i
    <3> QED
      BY <2>2, <3>2, <3>4, <1>i, Counts DEF Covered
  <2> QED
    BY <2>4, <2>5
<1>5. ASSUME NEW s \in Slot, LRemFails(s) PROVE Covered(j)'
  <2>1. /\ task' = [task EXCEPT ![s] = Idle] /\ UNCHANGED <<held, processing>>
    BY <1>5 DEF LRemFails, OthersUnchanged
  <2>2. Holders(j)' \subseteq Holders(j) /\ Tasks(j)' \subseteq Tasks(j)
    BY <2>1, <1>i DEF Holders, Tasks, Idle
  <2> QED
    BY <2>1, <2>2, <1>i, CoverShrinks
<1>6. ASSUME NEW s \in Slot, TaskStep(s), ~LRem(s)
      PROVE  /\ UNCHANGED <<held, processing>>
             /\ \A t \in Slot : task'[t].job = task[t].job
  <2>1. UNCHANGED <<held, processing>>
    BY <1>6
       DEF TaskStep, Fetch, MarkProcessing, Progress, RunEnds, Complete, Fail,
           Retry, Dispatch, HookAttempt, OthersUnchanged
  <2> DEFINE Keeps == \A t \in Slot : task'[t].job = task[t].job
  <2> SUFFICES Keeps
    BY <2>1
  <2>2. CASE Fetch(s)
    BY <2>2, <1>i DEF Fetch, Task
  <2>3. CASE MarkProcessing(s)
    BY <2>3, <1>i DEF MarkProcessing, Task
  <2>4. CASE Progress(s)
    <3>1. PICK p \in ProgressSteps : task' = [task EXCEPT ![s].percent = p]
      BY <2>4 DEF Progress
    <3> QED
      BY <3>1, <1>i DEF Task
  <2>5. CASE HookAttempt(s)
    <3>1. CASE Step(s, "lrem")
      BY <3>1, Stepped
    <3>2. CASE task' = [task EXCEPT ![s].tries = @ + 1]
      BY <3>2, <1>i DEF Task
    <3> QED
      BY <2>5, <3>1, <3>2 DEF HookAttempt
  <2>6. ASSUME NEW outcome, Report(s, outcome) PROVE Keeps
    BY <2>6, Reported
  <2>7. ASSUME NEW pc, Step(s, pc) PROVE Keeps
    BY <2>7, Stepped
  <2>8. CASE RunEnds(s) \/ Complete(s) \/ Fail(s) \/ Retry(s) \/ Dispatch(s)
    BY <2>8, <2>6, <2>7 DEF RunEnds, Complete, Fail, Retry, Dispatch
  <2> QED
    BY <1>6, <2>2, <2>3, <2>4, <2>5, <2>8 DEF TaskStep
<1>7. ASSUME NEW s \in Slot, DbError(s)
      PROVE  /\ UNCHANGED <<held, processing>>
             /\ \A t \in Slot : task'[t].job = task[t].job
  BY <1>7, Reported, Stepped DEF DbError, OthersUnchanged
<1> QED
  BY <1>same, <1>1, <1>2, <1>3, <1>4, <1>5, <1>6, <1>7
     DEF Next, vars, Insert, Push, PushFails, Shutdown, Exit, Crash, Restart,
         TimerFires, TimerFails, CancelCheck, CancelWrite, Cleanup

(* Every id a worker holds or works on has its entry in the processing      *)
(* list, although each LREM removes any one of its occurrences.            *)
THEOREM ProcessingFound == Spec => []ProcessingCovers
<1>1. ProcessingCovers <=> \A j \in Job : Covered(j)
  BY DEF ProcessingCovers, Covered, Holders, Tasks
<1>2. Init => \A j \in Job : Covered(j)
  <2> SUFFICES ASSUME Init, NEW j \in Job PROVE Covered(j)
    OBVIOUS
  <2>1. Holders(j) = {} /\ Tasks(j) = {} /\ processing[j] = 0
    BY JobAssumption DEF Init, Holders, Tasks, Idle
  <2> QED
    BY <2>1, FS_EmptySet DEF Covered
<1>3. TypeInv /\ (\A j \in Job : Covered(j)) /\ [Next]_vars
        => (\A j \in Job : Covered(j))'
  BY CoverStep
<1> QED
  BY Typing, <1>1, <1>2, <1>3, PTL DEF Spec

-----------------------------------------------------------------------------
(* The job queue implements JobAttempts.                                   *)

(* What the refinement mapping reads of a job.                             *)
LEMMA PhaseOf ==
  ASSUME NEW j \in Job
  PROVE  /\ phaseBar[j] = IF jobs[j].status = "NEW" THEN "new"
                          ELSE IF Running(j) THEN "running"
                          ELSE IF Pending(j) THEN "pending"
                          ELSE "over"
         /\ phaseBar'[j] = IF jobs'[j].status = "NEW" THEN "new"
                           ELSE IF Running(j)' THEN "running"
                           ELSE IF Pending(j)' THEN "pending"
                           ELSE "over"
  BY DEF phaseBar

(* An execution has the only token of its job.                             *)
LEMMA RunningAlone ==
  ASSUME TokenInv, NEW j \in Job, NEW s \in Slot,
         task[s].pc = "run", task[s].job = j
  PROVE  ~Waiting(j) /\ \A t \in Slot : Live(t, j) => t = s
<1>1. Live(s, j)
  BY DEF Live, LivePc
<1> QED
  BY <1>1 DEF TokenInv

(* An execution only starts where a task marks the job.                    *)
LEMMA RunningFrom ==
  ASSUME TypeInv, [Next]_vars, NEW j \in Job, Running(j)'
  PROVE  \/ Running(j)
         \/ \E s \in Slot : /\ task[s].pc = "mark" /\ task[s].job = j
                            /\ task'[s].pc = "run"
<1>1. PICK s \in Slot : task'[s].pc = "run" /\ task'[s].job = j
  BY DEF Running
<1>2. SlotMove(s)
  BY SlotMoves
<1> QED
  BY <1>1, <1>2 DEF SlotMove, Running

(* A job that was given up is not taken up again.                          *)
LEMMA PendingFrom ==
  ASSUME TypeInv, TokenInv, [Next]_vars, NEW j \in Job, Pending(j)',
         jobs[j].status # "NEW"
  PROVE  Pending(j)
<1>1. CASE Waiting(j)'
  BY <1>1, WaitingFrom DEF Pending, Live, LivePc
<1>2. ASSUME NEW s \in Slot, Live(s, j)', task'[s].pc # "complete"
      PROVE  Pending(j)
  <2>1. task'[s].pc \in LivePc /\ task'[s].job = j /\ SlotMove(s)
    BY <1>2, SlotMoves DEF Live
  <2>2. Held(j) \/ (Live(s, j) /\ task[s].pc # "complete")
    BY <2>1, <1>2 DEF SlotMove, Live, LivePc
  <2> QED
    BY <2>2 DEF Pending, Waiting
<1> QED
  BY <1>1, <1>2 DEF Pending

(* What follows an execution is a failure, or nothing more.                *)
LEMMA RunningTo ==
  ASSUME TypeInv, TokenInv, [Next]_vars, NEW j \in Job, Running(j),
         ~Running(j)', Pending(j)'
  PROVE  \E s \in Slot : /\ task[s].pc = "run" /\ task[s].job = j
                         /\ task'[s].pc = "fail"
<1>1. PICK s \in Slot : task[s].pc = "run" /\ task[s].job = j
  BY DEF Running
<1>2. ~Waiting(j) /\ \A t \in Slot : Live(t, j) => t = s
  BY <1>1, RunningAlone
<1>3. jobs[j].status # "NEW"
  BY <1>1 DEF TokenInv, HasToken, Live, LivePc
<1>4. ~Waiting(j)'
  BY <1>1, <1>2, <1>3, WaitingFrom DEF Live, LivePc
<1>5. PICK t \in Slot : Live(t, j)' /\ task'[t].pc # "complete"
  BY <1>4 DEF Pending
<1>6. task'[t].pc \in LivePc \ {"run", "complete"} /\ task'[t].job = j
      /\ SlotMove(t)
  BY <1>5, SlotMoves DEF Live, Running
<1>7. ~Held(j)
  BY <1>2 DEF Waiting
<1>8. Live(t, j) /\ t = s
  BY <1>2, <1>6, <1>7 DEF SlotMove, Live, LivePc
<1>9. task'[s].pc = "fail"
  BY <1>1, <1>6, <1>7, <1>8 DEF SlotMove, LivePc
<1> QED
  BY <1>1, <1>9

(* Jobs are only ever given up by a step that starts nothing, fails nothing *)
(* and inserts nothing.                                                    *)
LEMMA GivesUp ==
  ASSUME TypeInv, TokenInv, [Next]_vars, UNCHANGED attempts,
         \A j \in Job : jobs[j].status = "NEW" => jobs'[j].status = "NEW",
         \A s \in Slot : ~(task[s].pc = "mark" /\ task'[s].pc = "run"),
         \A s \in Slot : ~(task[s].pc = "run" /\ task'[s].pc = "fail")
  PROVE  [Attempts!Next]_(Attempts!avars)
<1>1. ASSUME NEW j \in Job
      PROVE  \/ phaseBar'[j] = phaseBar[j]
             \/ phaseBar[j] \in {"pending", "running"} /\ phaseBar'[j] = "over"
  <2>1. jobs'[j].status = "NEW" <=> jobs[j].status = "NEW"
    BY NewStays
  <2>2. Running(j)' => Running(j)
    BY RunningFrom
  <2>3. jobs[j].status # "NEW" /\ Pending(j)' => Pending(j)
    BY PendingFrom
  <2>4. Running(j) /\ ~Running(j)' => ~Pending(j)'
    BY RunningTo
  <2> QED
    BY <2>1, <2>2, <2>3, <2>4, PhaseOf
<1> DEFINE J == {j \in Job : phaseBar'[j] # phaseBar[j]}
<1>2. phaseBar' = [j \in Job |-> IF j \in J THEN "over" ELSE phaseBar[j]]
  <2>1. phaseBar' = [j \in Job |-> phaseBar'[j]]
    BY DEF phaseBar
  <2>2. \A j \in Job : phaseBar'[j] = IF j \in J THEN "over" ELSE phaseBar[j]
    BY <1>1
  <2> HIDE DEF J
  <2> QED
    BY Zenon, <2>1, <2>2
<1>3. CASE J = {}
  <2>1. \A j \in Job : phaseBar'[j] = phaseBar[j]
    BY <1>3
  <2>2. phaseBar = [j \in Job |-> phaseBar[j]]
        /\ phaseBar' = [j \in Job |-> phaseBar'[j]]
    BY DEF phaseBar
  <2>3. phaseBar' = phaseBar
    BY Zenon, <2>1, <2>2
  <2> QED
    BY <2>3 DEF Attempts!avars
<1>4. CASE J # {}
  <2>1. \A j \in J : phaseBar[j] \in {"pending", "running"}
    BY <1>1
  <2>2. J \in SUBSET Job
    OBVIOUS
  <2> HIDE DEF J
  <2>3. Attempts!GiveUp(J)
    BY <1>2, <1>4, <2>1 DEF Attempts!GiveUp
  <2> QED
    BY <2>2, <2>3 DEF Attempts!Next
<1> QED
  BY <1>3, <1>4

(* One job moves on.                                                       *)
LEMMA OnePhase ==
  ASSUME NEW j \in Job, NEW v, phaseBar'[j] = v,
         \A k \in Job : k # j => phaseBar'[k] = phaseBar[k]
  PROVE  phaseBar' = [phaseBar EXCEPT ![j] = v]
<1>1. /\ phaseBar' = [k \in Job |-> phaseBar'[k]]
      /\ phaseBar = [k \in Job |-> phaseBar[k]]
  BY DEF phaseBar
<1>2. [phaseBar EXCEPT ![j] = v]
        = [k \in Job |-> IF k = j THEN v ELSE phaseBar[k]]
  BY <1>1, Zenon
<1>3. \A k \in Job : phaseBar'[k] = IF k = j THEN v ELSE phaseBar[k]
  OBVIOUS
<1> QED
  BY <1>1, <1>2, <1>3, Zenon

(* A step of one task on job j leaves the phases of the others.            *)
LEMMA OtherPhases ==
  ASSUME TypeInv, NEW s \in Slot, NEW j \in Job, task[s].job = j,
         task'[s].job = j,
         \A t \in Slot : t # s => task'[t] = task[t],
         UNCHANGED <<submitting, queue, held, timer>>,
         \A k \in Job : k # j => jobs'[k] = jobs[k]
  PROVE  \A k \in Job : k # j => phaseBar'[k] = phaseBar[k]
<1> SUFFICES ASSUME NEW k \in Job, k # j PROVE phaseBar'[k] = phaseBar[k]
  OBVIOUS
<1>1. Running(k)' <=> Running(k)
  BY DEF Running
<1>2. Waiting(k)' <=> Waiting(k)
  BY DEF Waiting, Queued, Held, Timed
<1>3. \A t \in Slot : (Live(t, k) /\ task[t].pc # "complete")'
                      <=> Live(t, k) /\ task[t].pc # "complete"
  BY DEF Live
<1>4. Pending(k)' <=> Pending(k)
  BY <1>2, <1>3 DEF Pending
<1> QED
  BY <1>1, <1>4, PhaseOf

(* JobQueue::submit gives a new job its life.                              *)
LEMMA InsertSubmits ==
  ASSUME TypeInv, TokenInv, [Next]_vars, NEW j \in Job, Insert(j)
  PROVE  Attempts!Submit(j)
<1>i. jobs \in [Job -> Row]
  BY TypeInvParts DEF RestOK
<1>1. /\ UNCHANGED <<queue, held, task, timer, attempts>>
      /\ submitting' = submitting \cup {j}
      /\ jobs[j].status = "NEW" /\ jobs'[j].status # "NEW"
      /\ \A k \in Job : k # j => jobs'[k] = jobs[k]
  BY <1>i DEF Insert, Row
<1>2. \A k \in Job : k # j => phaseBar'[k] = phaseBar[k]
  <2> SUFFICES ASSUME NEW k \in Job, k # j PROVE phaseBar'[k] = phaseBar[k]
    OBVIOUS
  <2>1. Running(k)' <=> Running(k)
    BY <1>1 DEF Running
  <2>2. Waiting(k)' <=> Waiting(k)
    BY <1>1 DEF Waiting, Queued, Held, Timed
  <2>3. Pending(k)' <=> Pending(k)
    BY <1>1, <2>2 DEF Pending, Live
  <2> QED
    BY <1>1, <2>1, <2>3, PhaseOf
<1>3. phaseBar[j] = "new"
  BY <1>1, PhaseOf
<1>4. phaseBar'[j] = "pending"
  <2>1. ~Running(j)
    BY <1>1 DEF Running, TokenInv, HasToken, Live, LivePc
  <2>2. ~Running(j)'
    BY <1>1, <2>1 DEF Running
  <2>3. Pending(j)'
    BY <1>1 DEF Pending, Waiting
  <2> QED
    BY <1>1, <2>2, <2>3, PhaseOf
<1>5. phaseBar' = [phaseBar EXCEPT ![j] = "pending"]
  BY <1>2, <1>4, OnePhase
<1> QED
  BY <1>1, <1>3, <1>5 DEF Attempts!Submit

(* update_status PROCESSING starts an execution the budget allows.         *)
LEMMA MarkStarts ==
  ASSUME TypeInv, TokenInv, BudgetInv, [Next]_vars,
         NEW s \in Slot, MarkProcessing(s)
  PROVE  Attempts!Start(task[s].job)
<1>i. /\ jobs \in [Job -> Row] /\ task \in [Slot -> Task]
      /\ task[s].job \in Job /\ task[s].snap \in Nat
      /\ task[s].snap <= MaxJobRetries /\ MaxJobRetries \in Nat
      /\ attempts \in [Job -> Nat]
  BY TypeInvParts, CapacityAssumption
     DEF MarkProcessing, TaskInv, RestOK, Task, Retries
<1>j. PICK j \in Job : j = task[s].job
  BY <1>i
<1>1. /\ task[s].pc = "mark" /\ task[s].job = j
      /\ task'[s].pc = "run" /\ task'[s].job = j
      /\ \A t \in Slot : t # s => task'[t] = task[t]
      /\ UNCHANGED <<submitting, queue, held, timer>>
      /\ attempts' = [attempts EXCEPT ![j] = @ + 1]
      /\ jobs' = Updated(j, MarkedRow(jobs[j]))
  BY <1>i, <1>j DEF MarkProcessing, OthersUnchanged, Task
<1>2. \A k \in Job : k # j => jobs'[k] = jobs[k]
  BY <1>1, <1>i DEF Updated
<1>3. Live(s, j) /\ jobs[j].status # "NEW"
  BY <1>1 DEF Live, LivePc, TokenInv, HasToken
<1>4. ~Running(j) /\ Pending(j)
  BY <1>1, <1>3 DEF Running, Pending, TokenInv, Live, LivePc
<1>5. phaseBar[j] = "pending"
  BY <1>3, <1>4, PhaseOf
<1>6. phaseBar'[j] = "running"
  <2>1. jobs'[j].status # "NEW"
    BY <1>3, NewStays
  <2>2. Running(j)'
    BY <1>1 DEF Running
  <2> QED
    BY <2>1, <2>2, PhaseOf
<1>7. phaseBar' = [phaseBar EXCEPT ![j] = "running"]
  BY <1>1, <1>2, <1>6, OtherPhases, OnePhase
<1>8. attempts[j] <= MaxJobRetries
  <2>1. attempts[j] <= task[s].snap
    BY <1>1 DEF BudgetInv, TaskBudget
  <2> QED
    BY <2>1, <1>i
<1> QED
  BY <1>j, <1>1, <1>5, <1>7, <1>8 DEF Attempts!Start

(* execute_job returns an error.                                           *)
LEMMA RunFails ==
  ASSUME TypeInv, TokenInv, [Next]_vars, NEW s \in Slot, RunEnds(s),
         task'[s].pc = "fail"
  PROVE  Attempts!Fails(task[s].job)
<1>j. PICK j \in Job : j = task[s].job
  BY TypeInvParts DEF RunEnds, TaskInv
<1>1. /\ task[s].pc = "run" /\ task[s].job = j
      /\ task'[s].job = j
      /\ \A t \in Slot : t # s => task'[t] = task[t]
      /\ UNCHANGED <<jobs, submitting, queue, held, timer, attempts>>
  BY <1>j, Stepped DEF RunEnds, OthersUnchanged
<1>2. /\ jobs[j].status # "NEW"
      /\ \A t \in Slot : Live(t, j) => t = s
  BY <1>1, RunningAlone DEF TokenInv, HasToken, Live, LivePc
<1>3. Running(j) /\ ~Running(j)' /\ Pending(j)'
  BY <1>1, <1>2 DEF Running, Pending, Live, LivePc
<1>4. phaseBar[j] = "running" /\ phaseBar'[j] = "pending"
  BY <1>1, <1>2, <1>3, PhaseOf
<1>5. phaseBar' = [phaseBar EXCEPT ![j] = "pending"]
  BY <1>1, <1>4, OtherPhases, OnePhase
<1> QED
  BY <1>j, <1>1, <1>4, <1>5, Zenon DEF Attempts!Fails

(* No statement but the INSERT uses a new id.                              *)
LEMMA OnlyInsertUses ==
  ASSUME TypeInv, TokenInv, [Next]_vars, NEW j \in Job,
         jobs[j].status = "NEW", ~Insert(j)
  PROVE  jobs'[j].status = "NEW"
<1>i. /\ jobs \in [Job -> Row] /\ ~Exists(j)
      /\ \A s \in Slot : task[s].pc # "idle" => task[s].job \in Job
  BY TypeInvParts DEF RestOK, TaskInv, Exists, JobStatus
<1>u. ASSUME NEW k \in Job, NEW row, jobs' = Updated(k, row)
      PROVE  jobs'[j].status = "NEW"
  BY <1>u, <1>i, UpdatedRow
<1>1. ASSUME NEW k \in Job, Insert(k) PROVE jobs'[j].status = "NEW"
  BY <1>1, <1>i DEF Insert
<1>2. ASSUME NEW s \in Slot, TaskStep(s), jobs' # jobs
      PROVE  jobs'[j].status = "NEW"
  BY <1>2, <1>u, <1>i
     DEF TaskStep, Fetch, MarkProcessing, Progress, RunEnds, Complete, Fail,
         Retry, Dispatch, HookAttempt, LRem
<1>3. ASSUME NEW s \in Slot, DbError(s), jobs' # jobs
      PROVE  jobs'[j].status = "NEW"
  BY <1>3, <1>u, <1>i DEF DbError
<1>4. ASSUME NEW c \in Canceller, CancelWrite(c), jobs' # jobs
      PROVE  jobs'[j].status = "NEW"
  <2>1. cancelling[c] \in Job
    BY <1>4, TypeInvParts DEF CancelWrite, RestOK
  <2> QED
    BY <1>4, <2>1, <1>u DEF CancelWrite
<1>5. CASE Cleanup
  BY <1>5 DEF Cleanup, Terminal
<1> QED
  BY ZenonT(60), <1>1, <1>2, <1>3, <1>4, <1>5
     DEF Next, vars, Push, PushFails, Pop, PopLost, PopFrom, Acquire, Shutdown,
         Exit, Crash, Dies, Restart, LRemFails, TimerFires, TimerFails,
         CancelCheck, OthersUnchanged

(* Only these two steps start or fail an execution.                        *)
LEMMA OnlyRunMoves ==
  ASSUME TypeInv, [Next]_vars, NEW s \in Slot, ~MarkProcessing(s),
         ~(RunEnds(s) /\ task'[s].pc = "fail")
  PROVE  /\ ~(task[s].pc = "mark" /\ task'[s].pc = "run")
         /\ ~(task[s].pc = "run" /\ task'[s].pc = "fail")
<1> DEFINE Goal == /\ ~(task[s].pc = "mark" /\ task'[s].pc = "run")
                   /\ ~(task[s].pc = "run" /\ task'[s].pc = "fail")
<1>i. task \in [Slot -> Task]
  BY TypeInvParts DEF TaskInv
<1>same. ASSUME task'[s].pc = task[s].pc PROVE Goal
  BY <1>same
<1>1. ASSUME NEW w \in Worker, Acquire(w) PROVE Goal
  BY <1>1, <1>i DEF Acquire, Idle
<1>2. ASSUME NEW w \in Worker, Dies(w) PROVE Goal
  BY <1>2, <1>i DEF Dies, Idle
<1>3. ASSUME NEW t \in Slot, t # s, \A x \in Slot : x # t => task'[x] = task[x]
      PROVE  Goal
  BY <1>3
<1>4. ASSUME NEW t \in Slot, TaskStep(t) PROVE Goal
  <2>1. CASE t # s
    <3>1. task'[s] = task[s]
      BY <1>4, <2>1, <1>i
         DEF TaskStep, Fetch, MarkProcessing, Progress, RunEnds, Complete,
             Fail, Retry, Dispatch, HookAttempt, LRem, Step, Report
    <3> QED
      BY <3>1
  <2>2. CASE t = s
    <3>1. CASE task[s].pc = "mark"
      BY <1>4, <2>2, <3>1
         DEF TaskStep, Fetch, Progress, RunEnds, Complete, Fail, Retry,
             Dispatch, HookAttempt, LRem
    <3>2. CASE task[s].pc = "run"
      <4>1. Progress(s) \/ RunEnds(s)
        BY <1>4, <2>2, <3>2
           DEF TaskStep, Fetch, MarkProcessing, Complete, Fail, Retry,
               Dispatch, HookAttempt, LRem
      <4>2. Progress(s) => task'[s].pc = "run"
        BY <1>i DEF Progress, Task
      <4> QED
        BY <4>1, <4>2, <3>2
    <3> QED
      BY <3>1, <3>2
  <2> QED
    BY <2>1, <2>2
<1>5. ASSUME NEW t \in Slot, DbError(t) PROVE Goal
  <2>1. CASE t = s
    <3>1. task'[s].pc \in {"hook", "lrem"}
      BY <1>5, <2>1, Reported, Stepped DEF DbError
    <3> QED
      BY <3>1
  <2>2. CASE t # s
    BY <1>5, <2>2, <1>same, Reported, Stepped DEF DbError
  <2> QED
    BY <2>1, <2>2
<1>6. ASSUME NEW t \in Slot, LRemFails(t) PROVE Goal
  BY <1>6, <1>i DEF LRemFails, Idle
<1> QED
  BY <1>same, <1>1, <1>2, <1>4, <1>5, <1>6
     DEF Next, vars, Insert, Push, PushFails, Pop, PopLost, Shutdown, Exit,
         Crash, Restart, TimerFires, TimerFails, CancelCheck, CancelWrite,
         Cleanup

(* Every step of the queue is one of JobAttempts, or none.                 *)
LEMMA RefinesStep ==
  ASSUME TypeInv, TokenInv, BudgetInv, [Next]_vars
  PROVE  [Attempts!Next]_(Attempts!avars)
<1>i. task \in [Slot -> Task]
  BY TypeInvParts DEF TaskInv
<1>1. ASSUME NEW j \in Job, Insert(j) PROVE Attempts!Next
  BY <1>1, InsertSubmits DEF Attempts!Next
<1>2. ASSUME NEW s \in Slot, MarkProcessing(s) PROVE Attempts!Next
  <2>1. task[s].job \in Job
    BY <1>2, TypeInvParts DEF MarkProcessing, TaskInv
  <2> QED
    BY <1>2, <2>1, MarkStarts DEF Attempts!Next
<1>3. ASSUME NEW s \in Slot, RunEnds(s), task'[s].pc = "fail"
      PROVE  Attempts!Next
  <2>1. task[s].job \in Job
    BY <1>3, TypeInvParts DEF RunEnds, TaskInv
  <2> QED
    BY <1>3, <2>1, RunFails DEF Attempts!Next
<1>4. ASSUME \A j \in Job : ~Insert(j), \A s \in Slot : ~MarkProcessing(s),
             \A s \in Slot : ~(RunEnds(s) /\ task'[s].pc = "fail")
      PROVE  [Attempts!Next]_(Attempts!avars)
  <2>1. UNCHANGED attempts
    BY ZenonT(60), <1>4
       DEF Next, vars, TaskStep, Fetch, Progress, RunEnds, Complete, Fail,
           Retry, Dispatch, HookAttempt, LRem, DbError, LRemFails, Push,
           PushFails, Pop, PopLost, Acquire, Shutdown, Exit, Crash, Dies,
           Restart, TimerFires, TimerFails, CancelCheck, CancelWrite, Cleanup
  <2>2. ASSUME NEW j \in Job, jobs[j].status = "NEW"
        PROVE  jobs'[j].status = "NEW"
    BY <1>4, <2>2, OnlyInsertUses
  <2>3. ASSUME NEW s \in Slot
        PROVE  /\ ~(task[s].pc = "mark" /\ task'[s].pc = "run")
               /\ ~(task[s].pc = "run" /\ task'[s].pc = "fail")
    BY <1>4, <2>3, OnlyRunMoves
  <2> QED
    BY <2>1, <2>2, <2>3, GivesUp
<1> QED
  BY <1>1, <1>2, <1>3, <1>4

(* Executions are as JobAttempts allows them, for any number of jobs,       *)
(* workers, permits, retries and faults.                                   *)
THEOREM QueueImplementsAttempts == Spec => ImplementsAttempts
<1>1. Init => Attempts!Init
  BY DEF Init, Attempts!Init, phaseBar, NewRow
<1>2. TypeInv /\ TokenInv /\ BudgetInv /\ [Next]_vars
        => [Attempts!Next]_(Attempts!avars)
  BY RefinesStep
<1> QED
  BY Typing, TokenUnique, BudgetInvariant, <1>1, <1>2, PTL
     DEF Spec, ImplementsAttempts, Attempts!AttemptsSpec
=============================================================================
