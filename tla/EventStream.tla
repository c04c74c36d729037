---------------------------- MODULE EventStream ----------------------------
(***************************************************************************)
(* The WebSocket streams of core/src/ws.rs on top of JobQueue: a task that  *)
(* has written a row publishes an event on the SimulationBus of its own     *)
(* process, a broadcast channel from which every open stream of the process *)
(* takes the events one by one, forwards those of its job, and closes after *)
(* a terminal one.  The bus is memory: it ends with the process, reaches no *)
(* other process, and drops the oldest event of a stream that is behind.    *)
(***************************************************************************)
EXTENDS JobQueue

CONSTANTS
  Client,    \* those who connect, once each
  Analyze,   \* the jobs whose success carries a simulation result
  Capacity   \* event_bus_capacity

ASSUME StreamAssumption == Analyze \subseteq Job /\ Capacity \in Nat \ {0}

VARIABLES
  owed,    \* the event each task is about to publish
  stream   \* each client's connection

allvars == <<vars, owed, stream>>

Kind == {"progress", "notice", "completed", "failed"}
Event == [job : Job, kind : Kind, percent : Percent]
NoEvent == [job |-> None, kind |-> "progress", percent |-> 0]

(* inbox is what the stream's receiver has not taken, behind whether it has *)
(* lost an event, kind and percent the last frame sent to the client.      *)
Stream == [state : {"new", "open", "closed", "ended"},
           at : Worker \cup {None}, job : Job \cup {None},
           inbox : Seq(Event), behind : BOOLEAN,
           kind : Kind, percent : Percent]
NewStream == [state |-> "new", at |-> None, job |-> None, inbox |-> <<>>,
              behind |-> FALSE, kind |-> "progress", percent |-> 0]

StreamTypeOK ==
  /\ TypeOK
  /\ owed \in [Slot -> Event \cup {NoEvent}]
  /\ stream \in [Client -> Stream]
  /\ \A c \in Client :
       /\ Len(stream[c].inbox) <= Capacity
       /\ stream[c].state = "open" => run[stream[c].at] # "down"

StreamInit ==
  /\ Init
  /\ owed = [s \in Slot |-> NoEvent]
  /\ stream = [c \in Client |-> NewStream]

-----------------------------------------------------------------------------
(* Mutant: "completed" is published before the result is stored.           *)
EmittedEarly(s) ==
  LET old == task[s]
      new == task'[s]
      of(kind, percent) ==
        [job |-> old.job, kind |-> kind, percent |-> percent]
  IN  CASE new.pc = "run" -> of("progress", new.percent)
        [] new.pc = "complete" -> of("completed", 100)
        [] OTHER -> NoEvent

(* What a task publishes after a step of it, once the statement of that     *)
(* step has returned.  An execution that fails publishes "failed" whether   *)
(* or not it has been put back into the queue.                             *)
Emitted(s) ==
  LET old == task[s]
      new == task'[s]
      of(kind, percent) ==
        [job |-> old.job, kind |-> kind, percent |-> percent]
      reports(outcome) ==
        new.pc \in {"hook", "lrem"} /\ new.outcome = outcome
  IN  CASE new.pc = "run" -> of("progress", new.percent)
        [] old.pc = "complete" /\ reports("Completed") ->
             of(IF old.job \in Analyze THEN "completed" ELSE "progress", 100)
        [] old.pc \in {"fail", "retry", "dispatch"} /\ reports("Failed") ->
             of("failed", old.percent)
        [] OTHER -> NoEvent

Dying(w) == run[w] # "down" /\ run'[w] = "down"

(* A task that owes an event does nothing before it has published it; only  *)
(* the timeout of an execution takes it away, with the rest of the          *)
(* progress report.  The shortest retry delay, 30 seconds, is longer than a *)
(* task takes from dispatching the retry to publishing "failed".           *)
OwesFirst ==
  \A s \in Slot : owed[s] # NoEvent =>
    /\ \/ task'[s] = task[s]
       \/ Dying(s[1])
       \/ task'[s].pc = "fail" /\ owed[s].percent > 10
    /\ \A p \in Permit : timer[p] = owed[s].job =>
         timer'[p] = timer[p] \/ Dying(s[1])

JobStep ==
  /\ Next
  /\ OwesFirst
  /\ owed' = [s \in Slot |-> IF Dying(s[1]) THEN NoEvent
                             ELSE IF task'[s] = task[s] THEN owed[s]
                             ELSE Emitted(s)]
  /\ stream' = [c \in Client |->
       IF stream[c].state = "open" /\ Dying(stream[c].at)
         THEN [NewStream EXCEPT !.state = "ended"] ELSE stream[c]]

-----------------------------------------------------------------------------
(* broadcast::Sender::send to one receiver.                                *)
Offered(t, e) ==
  IF Len(t.inbox) < Capacity
    THEN [t EXCEPT !.inbox = Append(@, e)]
    ELSE [t EXCEPT !.inbox = Append(Tail(@), e), !.behind = TRUE]

Send(s, e) ==
  stream' = [c \in Client |->
    IF stream[c].state = "open" /\ stream[c].at = s[1]
      THEN Offered(stream[c], e) ELSE stream[c]]

Publish(s) ==
  /\ owed[s] # NoEvent
  /\ Send(s, owed[s])
  /\ owed' = [owed EXCEPT ![s] = NoEvent]
  /\ UNCHANGED vars

(* A provider_failover or consensus_check event.                           *)
Notify(s) ==
  /\ task[s].pc = "run" /\ owed[s] = NoEvent
  /\ Send(s, [job |-> task[s].job, kind |-> "notice", percent |-> 0])
  /\ UNCHANGED <<vars, owed>>

(* The upgrade of GET /ws/jobs/:job_id: the stream begins with the next     *)
(* event, whatever the job's row says.                                     *)
Connect(c) ==
  /\ stream[c].state = "new"
  /\ \E w \in Worker, j \in Job :
       /\ run[w] # "down" /\ jobs[j].status # "NEW"
       /\ stream' = [stream EXCEPT ![c] = [NewStream EXCEPT
            !.state = "open", !.at = w, !.job = j]]
  /\ UNCHANGED <<vars, owed>>

(* Mutant: only Completed ends a stream.                                   *)
IsTerminalMissesFailed(e) == e.kind = "completed"
IsTerminal(e) == e.kind \in {"completed", "failed"}

(* One turn of handle_socket's loop.                                       *)
Forward(t, e) ==
  IF e.job # t.job \/ e.kind = "notice"
    THEN t
    ELSE IF IsTerminal(e)
      THEN [t EXCEPT !.state = "closed", !.inbox = <<>>,
                     !.kind = e.kind, !.percent = e.percent]
      ELSE [t EXCEPT !.kind = e.kind, !.percent = e.percent]

Receive(c) ==
  LET t == stream[c] IN
  /\ t.state = "open" /\ t.inbox # <<>>
  /\ stream' = [stream EXCEPT
       ![c] = Forward([t EXCEPT !.inbox = Tail(@)], Head(t.inbox))]
  /\ UNCHANGED <<vars, owed>>

(* The client closes the socket, or a frame cannot be sent.                *)
Leave(c) ==
  /\ stream[c].state = "open"
  /\ stream' = [stream EXCEPT ![c] = [NewStream EXCEPT !.state = "ended"]]
  /\ UNCHANGED <<vars, owed>>

StreamNext ==
  \/ JobStep
  \/ \E s \in Slot : Publish(s) \/ Notify(s)
  \/ \E c \in Client : Connect(c) \/ Receive(c) \/ Leave(c)

StreamSpec == StreamInit /\ [][StreamNext]_allvars

(* Besides JobQueue's: a task publishes without waiting for anything, and   *)
(* Tokio wakes a receiver that has something to take.                      *)
StreamFairSpec ==
  /\ StreamSpec
  /\ Fairness
  /\ \A s \in Slot : WF_allvars(Publish(s))
  /\ \A c \in Client : WF_allvars(Receive(c))

-----------------------------------------------------------------------------
(* A client that was told "completed" can fetch the result: the event is    *)
(* not ahead of the row, and no other execution takes the result away.      *)
CompletedIsStored ==
  \A c \in Client :
    stream[c].kind = "completed" /\ Exists(stream[c].job) =>
      jobs[stream[c].job].result = "Success"

(* The percentage a client is shown never goes back, although the job may   *)
(* be executed several times - unless the stream has lost an event.        *)
PercentGrows ==
  [][\A c \in Client :
       stream[c].state = "open" /\ stream'[c].state # "ended" =>
         stream'[c].percent >= stream[c].percent \/ stream[c].behind]_allvars

(* Without faults the stream of an Analyze job, opened before it is first   *)
(* executed in the process that runs it, is closed by the server - unless   *)
(* the stream has lost an event, or a cancelled job is cleaned up before    *)
(* its turn.                                                               *)
StreamCloses ==
  [](faults = 0) => \A c \in Client :
    /\ stream[c].state = "open" /\ stream[c].job \in Analyze
    /\ attempts[stream[c].job] = 0
    ~> \/ stream[c].state # "open" \/ stream[c].behind
       \/ ~Exists(stream[c].job)

(* What the header of ws.rs says: the server streams "until the job reaches *)
(* a terminal state", and then closes.                                     *)
ClosedOnlyWhenOver ==
  [][\A c \in Client :
       stream[c].state = "open" /\ stream'[c].state = "closed" =>
         jobs[stream[c].job].status \in Terminal \cup {"DELETED"}]_allvars
=============================================================================
