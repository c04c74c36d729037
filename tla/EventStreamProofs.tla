------------------------- MODULE EventStreamProofs -------------------------
(***************************************************************************)
(* What a stream of EventStream says of a job is true of its row: the proof *)
(* that JobQueue's result invariant carries over to events that are still   *)
(* to be published, that wait in an inbox, or that a client has seen.       *)
(***************************************************************************)
EXTENDS EventStream, JobQueueProofs

(* The result of j is in its row, or the row has been cleaned up.          *)
Done(j) ==
  /\ j \in Job
  /\ jobs[j].status # "NEW"
  /\ Exists(j) => jobs[j].result = "Success"

Honest(e) == e.kind = "completed" => Done(e.job)

(* A task that may still run has nothing to report.                        *)
LiveQuiet == \A s \in Slot : task[s].pc \in LivePc => task[s].outcome = "none"

(* A connection that has been told, and has to tell, nothing but the truth. *)
Sound(t) ==
  /\ t \in Stream
  /\ Honest(t)
  /\ \A i \in DOMAIN t.inbox : Honest(t.inbox[i])

StreamInv ==
  /\ LiveQuiet
  /\ owed \in [Slot -> Event \cup {NoEvent}]
  /\ \A s \in Slot : Honest(owed[s])
  /\ stream \in [Client -> Stream]
  /\ \A c \in Client : Sound(stream[c])

-----------------------------------------------------------------------------
(* The queue under the streams.                                            *)
LEMMA StreamSteps == [StreamNext]_allvars => [Next]_vars
  BY DEF StreamNext, JobStep, Publish, Notify, Connect, Receive, Leave,
         allvars

(* The queue under the streams keeps its own invariants.                   *)
LEMMA QueueInvariants == StreamSpec => [](TypeInv /\ TokenInv /\ ResultInv)
<1>1. StreamInit => Init
  BY DEF StreamInit
<1>2. [StreamNext]_allvars => [Next]_vars
  BY StreamSteps
<1>3. StreamSpec => Spec
  BY <1>1, <1>2, PTL DEF StreamSpec, Spec
<1> QED
  BY <1>3, Typing, TokenUnique, ResultInvariant, PTL

(* What is done stays done.                                                *)
LEMMA DoneStays ==
  ASSUME TypeInv, TokenInv, ResultInv, [Next]_vars, NEW j, Done(j)
  PROVE  Done(j)'
<1>1. j \in Job /\ jobs[j].status # "NEW"
  BY DEF Done
<1>2. jobs[j] \in Row
  BY <1>1, TypeInvParts DEF RestOK
<1>3. jobs'[j].status # "NEW"
  BY <1>1, NewStays
<1>4. ASSUME Exists(j)' PROVE jobs'[j].result = "Success"
  <2>1. Exists(j)
    BY <1>1, <1>4, ExistsFrom
  <2>2. jobs[j].result = "Success" /\ jobs'[j].status # "DELETED"
    BY <2>1, <1>4 DEF Done, Exists, JobStatus
  <2>3. \/ jobs'[j] = jobs[j]
        \/ jobs'[j] = CancelledRow(jobs[j])
        \/ jobs'[j] = [NewRow EXCEPT !.status = "DELETED"]
    BY <1>1, <2>2, ResultStays
  <2>4. CancelledRow(jobs[j]).result = jobs[j].result
    BY <1>2 DEF CancelledRow, Row
  <2> QED
    BY <2>2, <2>3, <2>4 DEF NewRow
<1> QED
  BY <1>1, <1>3, <1>4 DEF Done

(* An event that told the truth goes on telling it.                        *)
LEMMA HonestStays ==
  ASSUME TypeInv, TokenInv, ResultInv, [Next]_vars, NEW e, Honest(e)
  PROVE  Honest(e)'
  BY DoneStays DEF Honest

(* A task that may still run goes on having nothing to report.             *)
LEMMA QuietStep ==
  ASSUME TypeInv, LiveQuiet, [Next]_vars
  PROVE  LiveQuiet'
<1> SUFFICES ASSUME NEW s \in Slot, task'[s].pc \in LivePc
             PROVE  task'[s].outcome = "none"
  BY DEF LiveQuiet
<1>1. SlotMove(s)
  BY SlotMoves
<1> QED
  BY <1>1 DEF SlotMove, LiveQuiet, LivePc

(* An event is owed of a statement that has been applied.                  *)
LEMMA EmittedHonest ==
  ASSUME TypeInv, TokenInv, ResultInv, LiveQuiet, [Next]_vars,
         NEW s \in Slot, NEW e, e = Emitted(s)
  PROVE  Honest(e)'
<1> SUFFICES ASSUME e.kind = "completed" PROVE Done(e.job)'
  BY DEF Honest
<1>1. /\ task[s].pc = "complete" /\ task'[s].pc \in {"hook", "lrem"}
      /\ task'[s].outcome = "Completed" /\ e.job = task[s].job
  BY DEF Emitted, NoEvent
<1>2. task[s].outcome = "none"
  BY <1>1 DEF LiveQuiet, LivePc
<1>3. SlotMove(s)
  BY SlotMoves
<1>j. PICK j \in Job : j = task[s].job
  BY <1>1, TypeInvParts DEF TaskInv
<1>4. jobs' = Updated(j, CompletedRow(jobs[j]))
  BY <1>1, <1>2, <1>3, <1>j DEF SlotMove
<1>5. jobs \in [Job -> Row] /\ jobs[j].status # "NEW"
  BY <1>1, <1>j, TypeInvParts DEF RestOK, ResultInv
<1>6. jobs'[j].status # "NEW"
  BY <1>5, NewStays
<1>7. ASSUME Exists(j)' PROVE jobs'[j].result = "Success"
  <2>1. Exists(j)
    BY <1>5, <1>7, ExistsFrom
  <2>2. jobs'[j] = CompletedRow(jobs[j])
    BY <1>4, <1>5, <2>1 DEF Updated
  <2> QED
    BY <2>2, <1>5 DEF CompletedRow, Row
<1>8. Done(j)'
  BY <1>6, <1>7 DEF Done
<1> QED
  BY <1>8, <1>1, <1>j

(* What a task says is an event, or nothing.                               *)
LEMMA EmittedTyped ==
  ASSUME TypeInv, [Next]_vars, NEW s \in Slot, task'[s] # task[s]
  PROVE  Emitted(s) \in Event \cup {NoEvent}
<1>1. task[s] \in Task /\ task'[s] \in Task
  BY TaskInvStep, TypeInvParts DEF TaskInv
<1>2. task[s].percent \in Percent /\ task'[s].percent \in Percent
  BY <1>1 DEF Task
<1>3. task[s].pc # "idle" => task[s].job \in Job
  BY TypeInvParts DEF TaskInv
<1>4. task'[s].pc = "run" => task[s].pc # "idle"
  BY SlotMoves DEF SlotMove
<1> QED
  BY <1>2, <1>3, <1>4, Ranges DEF Emitted, Event, Kind

-----------------------------------------------------------------------------
(* What happens to a connection.                                           *)
LEMMA SoundStays ==
  ASSUME TypeInv, TokenInv, ResultInv, [Next]_vars, NEW t, Sound(t)
  PROVE  Sound(t)'
<1>1. Honest(t)'
  BY HonestStays DEF Sound
<1>2. \A i \in DOMAIN t.inbox : Honest(t.inbox[i])'
  BY HonestStays DEF Sound
<1> QED
  BY <1>1, <1>2 DEF Sound

(* A new stream has an empty inbox and has told nothing.                   *)
LEMMA NewStreamTyped ==
  NewStream \in Stream /\ NewStream.kind = "progress" /\ NewStream.inbox = <<>>
  BY Ranges DEF NewStream, Stream, Kind

(* A sound stream is a stream.                                             *)
LEMMA SoundTyped ==
  ASSUME NEW t, Sound(t)
  PROVE  t \in Stream
  BY DEF Sound

(* A stream that has received nothing is sound.                            *)
LEMMA FreshSound ==
  ASSUME NEW t \in Stream, t.kind = "progress", t.inbox = <<>>
  PROVE  Sound(t)
  BY DEF Sound, Honest

(* A sound stream to which the truth is offered is sound, also when the    *)
(* offer is dropped or pushes the oldest event out.                        *)
LEMMA OfferedSound ==
  ASSUME NEW t, Sound(t), NEW e \in Event, Honest(e)
  PROVE  Sound(Offered(t, e))
<1>1. t \in Stream /\ t.inbox \in Seq(Event)
  BY DEF Sound, Stream
<1>2. Len(t.inbox) # 0 \/ Len(t.inbox) < Capacity
  BY <1>1, StreamAssumption
<1>3. CASE Len(t.inbox) < Capacity
  <2> DEFINE q == Append(t.inbox, e)
  <2>1. q \in Seq(Event)
    BY <1>1
  <2>2. \A i \in DOMAIN q : Honest(q[i])
    BY <1>1 DEF Sound
  <2>3. Offered(t, e) = [t EXCEPT !.inbox = q]
    BY <1>3 DEF Offered
  <2> HIDE DEF q
  <2> QED
    BY <1>1, <2>1, <2>2, <2>3 DEF Sound, Honest, Stream
<1>4. CASE ~(Len(t.inbox) < Capacity)
  <2> DEFINE r == Tail(t.inbox)
             q == Append(r, e)
  <2>1. t.inbox # <<>>
    BY <1>1, <1>2, <1>4
  <2>2. r \in Seq(Event) /\ \A i \in DOMAIN r : r[i] = t.inbox[i + 1]
                           /\ i + 1 \in DOMAIN t.inbox
    BY <1>1, <2>1
  <2>3. \A i \in DOMAIN r : Honest(r[i])
    BY <2>2 DEF Sound
  <2> HIDE DEF r
  <2>4. q \in Seq(Event) /\ \A i \in DOMAIN q : Honest(q[i])
    BY <2>2, <2>3
  <2>5. Offered(t, e) = [t EXCEPT !.inbox = q, !.behind = TRUE]
    BY <1>4 DEF Offered, r
  <2> HIDE DEF q
  <2> QED
    BY <1>1, <2>4, <2>5 DEF Sound, Honest, Stream
<1> QED
  BY <1>3, <1>4

(* A sound stream that forwards the head of its inbox is sound.            *)
LEMMA ForwardSound ==
  ASSUME NEW t, Sound(t), t.inbox # <<>>
  PROVE  Sound(Forward([t EXCEPT !.inbox = Tail(@)], Head(t.inbox)))
<1> DEFINE e == Head(t.inbox)
           r == Tail(t.inbox)
           u == [t EXCEPT !.inbox = r]
<1>1. t \in Stream /\ t.inbox \in Seq(Event)
  BY DEF Sound, Stream
<1>2. e \in Event /\ Honest(e)
  BY <1>1 DEF Sound
<1>3. r \in Seq(Event) /\ \A i \in DOMAIN r : r[i] = t.inbox[i + 1]
                         /\ i + 1 \in DOMAIN t.inbox
  BY <1>1
<1>4. \A i \in DOMAIN r : Honest(r[i])
  BY <1>3 DEF Sound
<1> HIDE DEF e, r
<1>5. u \in Stream /\ u.kind = t.kind /\ u.job = t.job /\ u.inbox = r
  BY <1>1, <1>3 DEF Stream
<1>f. Forward([t EXCEPT !.inbox = Tail(@)], Head(t.inbox)) =
        IF e.job # u.job \/ e.kind = "notice"
          THEN u
          ELSE IF IsTerminal(e)
            THEN [u EXCEPT !.state = "closed", !.inbox = <<>>,
                           !.kind = e.kind, !.percent = e.percent]
            ELSE [u EXCEPT !.kind = e.kind, !.percent = e.percent]
  BY DEF Forward, u, e, r
<1> HIDE DEF u
<1>6. Sound(u)
  BY <1>4, <1>5 DEF Sound, Honest
<1>7. CASE ~(e.job # u.job \/ e.kind = "notice") /\ IsTerminal(e)
  <2>1. ASSUME NEW v, v = [u EXCEPT !.state = "closed", !.inbox = <<>>,
                                    !.kind = e.kind, !.percent = e.percent]
        PROVE  Sound(v)
    <3>1. e.kind \in Kind /\ e.percent \in Percent /\ <<>> \in Seq(Event)
      BY <1>2 DEF Event
    <3>2. v \in Stream
      BY <2>1, <3>1, <1>5 DEF Stream
    <3>3. v.inbox = <<>> /\ v.kind = e.kind /\ v.job = e.job
      BY <2>1, <1>5, <1>7 DEF Stream
    <3> QED
      BY <3>2, <3>3, <1>2 DEF Sound, Honest
  <2> QED
    BY <2>1, <1>7, <1>f
<1>8. CASE ~(e.job # u.job \/ e.kind = "notice") /\ ~IsTerminal(e)
  <2>1. ASSUME NEW v, v = [u EXCEPT !.kind = e.kind, !.percent = e.percent]
        PROVE  Sound(v)
    <3>1. v \in Stream /\ v.inbox = r /\ v.kind = e.kind /\ v.job = e.job
      BY <2>1, <1>2, <1>5, <1>8 DEF Stream, Event
    <3> QED
      BY <3>1, <1>2, <1>4 DEF Sound, Honest
  <2> QED
    BY <2>1, <1>8, <1>f
<1> QED
  BY <1>6, <1>7, <1>8, <1>f

(* A step that leaves the queue alone.                                     *)
LEMMA StreamsOnly ==
  ASSUME StreamInv, UNCHANGED vars,
         owed' \in [Slot -> Event \cup {NoEvent}],
         \A s \in Slot : Honest(owed'[s]),
         stream' \in [Client -> Stream],
         \A c \in Client : Sound(stream'[c])
  PROVE  StreamInv'
  BY DEF StreamInv, vars, LiveQuiet, Sound, Honest, Done, Exists

(* Sending the truth leaves every stream sound.                            *)
LEMMA SendSound ==
  ASSUME StreamInv, NEW s \in Slot, NEW e \in Event, Honest(e), Send(s, e)
  PROVE  stream' \in [Client -> Stream] /\ \A c \in Client : Sound(stream'[c])
<1>1. ASSUME NEW c \in Client PROVE Sound(stream'[c])
  BY <1>1, OfferedSound DEF Send, StreamInv
<1> QED
  BY <1>1, SoundTyped DEF Send

-----------------------------------------------------------------------------
(* The invariant holds.                                                    *)
LEMMA JobStepKeeps ==
  ASSUME TypeInv, TokenInv, ResultInv, StreamInv, JobStep
  PROVE  StreamInv'
<1>0. [Next]_vars
  BY DEF JobStep
<1>1. LiveQuiet'
  BY <1>0, QuietStep DEF StreamInv
<1>2. ASSUME NEW s \in Slot, NEW e, e = owed'[s]
      PROVE  e \in Event \cup {NoEvent} /\ Honest(e)'
  <2>1. CASE e = NoEvent
    BY <2>1 DEF Honest, NoEvent
  <2>2. CASE e = owed[s]
    BY <2>2, <1>0, HonestStays DEF StreamInv
  <2>3. CASE e = Emitted(s) /\ task'[s] # task[s]
    BY <2>3, <1>0, EmittedTyped, EmittedHonest DEF StreamInv
  <2> QED
    BY <1>2, <2>1, <2>2, <2>3 DEF JobStep
<1>3. owed' \in [Slot -> Event \cup {NoEvent}]
  BY <1>2 DEF JobStep
<1>4. \A s \in Slot : Honest(owed[s])'
  BY <1>2 DEF Honest, Done, Exists
<1>5. ASSUME NEW c \in Client, NEW t, t = stream'[c] 
      PROVE  t \in Stream /\ Sound(t)'
  <2>1. CASE t = stream[c]
    BY <2>1, <1>0, SoundStays, SoundTyped DEF StreamInv
  <2>2. CASE t = [NewStream EXCEPT !.state = "ended"]
    <3>1. t \in Stream /\ t.kind = "progress" /\ t.inbox = <<>>
      BY <2>2, NewStreamTyped DEF Stream
    <3> QED
      BY <3>1 DEF Sound, Honest
  <2> QED
    BY <1>5, <2>1, <2>2 DEF JobStep
<1>6. \A c \in Client : Sound(stream[c])'
  BY <1>5 DEF Sound, Honest, Done, Exists
<1>7. stream' \in [Client -> Stream]
  BY <1>5 DEF JobStep
<1> QED
  BY <1>1, <1>3, <1>4, <1>6, <1>7 DEF StreamInv

(* No step of the queue or of a stream makes a stream unsound.             *)
LEMMA StreamStep ==
  ASSUME TypeInv, TokenInv, ResultInv, StreamInv, [StreamNext]_allvars
  PROVE  StreamInv'
<1>1. CASE JobStep
  BY <1>1, JobStepKeeps
<1>2. ASSUME NEW s \in Slot, Publish(s) PROVE StreamInv'
  <2>1. owed[s] \in Event /\ Honest(owed[s])
    BY <1>2 DEF Publish, StreamInv
  <2>2. Honest(NoEvent)
    BY DEF Honest, NoEvent
  <2>3. /\ owed' \in [Slot -> Event \cup {NoEvent}]
        /\ \A t \in Slot : Honest(owed'[t])
    BY <1>2, <2>2 DEF Publish, StreamInv
  <2> QED
    BY <1>2, <2>1, <2>3, SendSound, StreamsOnly DEF Publish
<1>3. ASSUME NEW s \in Slot, Notify(s) PROVE StreamInv'
  <2>1. task[s].job \in Job
    BY <1>3, TypeInvParts DEF TaskInv, Notify
  <2>2. ASSUME NEW e, e = [job |-> task[s].job, kind |-> "notice", percent |-> 0]
        PROVE  e \in Event /\ Honest(e)
    BY <2>1, <2>2, Ranges DEF Event, Kind, Honest
  <2>3. UNCHANGED <<vars, owed>>
    BY <1>3 DEF Notify
  <2>4. stream' \in [Client -> Stream] /\ \A c \in Client : Sound(stream'[c])
    BY <1>3, <2>2, SendSound DEF Notify
  <2> QED
    BY <2>3, <2>4, StreamsOnly DEF StreamInv
<1>4. ASSUME NEW c \in Client, NEW t, Sound(t),
             stream' = [stream EXCEPT ![c] = t], UNCHANGED <<vars, owed>>
      PROVE  StreamInv'
  <2>1. stream' \in [Client -> Stream] /\ \A d \in Client : Sound(stream'[d])
    BY <1>4, SoundTyped DEF StreamInv
  <2> QED
    BY <1>4, <2>1, StreamsOnly DEF StreamInv
<1>5. ASSUME NEW c \in Client, Connect(c) PROVE StreamInv'
  <2>1. PICK w \in Worker, j \in Job :
          stream' = [stream EXCEPT ![c] = [NewStream EXCEPT
            !.state = "open", !.at = w, !.job = j]]
    BY <1>5 DEF Connect
  <2>2. ASSUME NEW t, t = [NewStream EXCEPT
                             !.state = "open", !.at = w, !.job = j]
        PROVE  Sound(t)
    BY <2>2, FreshSound, NewStreamTyped DEF Stream
  <2> QED
    BY <1>4, <1>5, <2>1, <2>2 DEF Connect
<1>6. ASSUME NEW c \in Client, Receive(c) PROVE StreamInv'
  BY <1>4, <1>6, ForwardSound DEF Receive, StreamInv
<1>7. ASSUME NEW c \in Client, Leave(c) PROVE StreamInv'
  <2>1. ASSUME NEW t, t = [NewStream EXCEPT !.state = "ended"]
        PROVE  Sound(t)
    BY <2>1, FreshSound, NewStreamTyped DEF Stream
  <2> QED
    BY <1>4, <1>7, <2>1 DEF Leave
<1>8. CASE UNCHANGED allvars
  BY <1>8, StreamsOnly DEF allvars, StreamInv
<1> QED
  BY <1>1, <1>2, <1>3, <1>5, <1>6, <1>7, <1>8 DEF StreamNext

(* At the start nothing was sent.                                          *)
LEMMA StreamStart == StreamInit => StreamInv
<1> SUFFICES ASSUME StreamInit PROVE StreamInv
  OBVIOUS
<1>2. Sound(NewStream) /\ stream \in [Client -> Stream]
  BY NewStreamTyped, FreshSound DEF StreamInit
<1>3. LiveQuiet
  BY DEF LiveQuiet, LivePc, StreamInit, Init, Idle
<1> QED
  BY <1>2, <1>3 DEF StreamInit, StreamInv, Honest, NoEvent

(* Every stream is sound in every state.                                   *)
LEMMA StreamInvariant == StreamSpec => []StreamInv
<1>1. TypeInv /\ TokenInv /\ ResultInv /\ StreamInv /\ [StreamNext]_allvars
        => StreamInv'
  BY StreamStep
<1> QED
  BY <1>1, StreamStart, QueueInvariants, PTL DEF StreamSpec

(* A client that has been told "completed" finds the result in the row, as  *)
(* long as the row is kept: send_event comes after the UPDATE has returned, *)
(* and no later execution of the job, no cancellation and no cleanup puts   *)
(* another result there (ws.rs, handle_socket; jobs.rs, process_job).      *)
THEOREM CompletedFound == StreamSpec => []CompletedIsStored
<1>1. StreamInv => CompletedIsStored
  BY DEF StreamInv, CompletedIsStored, Sound, Honest, Done
<1> QED
  BY <1>1, StreamInvariant, PTL

-----------------------------------------------------------------------------
(* A stream lives in a process that is up, and never holds more than the    *)
(* channel's capacity.                                                     *)
PlaceInv ==
  \A c \in Client :
    /\ Len(stream[c].inbox) <= Capacity
    /\ stream[c].state = "open" => run[stream[c].at] # "down"

(* An offer never makes an inbox longer than its capacity.                 *)
LEMMA OfferedFits ==
  ASSUME NEW t \in Stream, NEW e \in Event, Len(t.inbox) <= Capacity
  PROVE  /\ Len(Offered(t, e).inbox) <= Capacity
         /\ Offered(t, e).state = t.state /\ Offered(t, e).at = t.at
<1>1. t.inbox \in Seq(Event)
  BY DEF Stream
<1>2. CASE Len(t.inbox) < Capacity
  <2>1. Offered(t, e) = [t EXCEPT !.inbox = Append(t.inbox, e)]
    BY <1>2 DEF Offered
  <2>2. Len(Append(t.inbox, e)) <= Capacity
    BY <1>1, <1>2, StreamAssumption
  <2> QED
    BY <2>1, <2>2 DEF Stream
<1>3. CASE ~(Len(t.inbox) < Capacity)
  <2> DEFINE q == Append(Tail(t.inbox), e)
  <2>1. Offered(t, e) = [t EXCEPT !.inbox = q, !.behind = TRUE]
    BY <1>3 DEF Offered
  <2>2. Len(q) <= Capacity
    BY <1>1, <1>3, StreamAssumption
  <2> HIDE DEF q
  <2> QED
    BY <2>1, <2>2 DEF Stream
<1> QED
  BY <1>2, <1>3

(* No step makes an inbox longer than the channel, or leaves a stream open *)
(* in a process that is down.                                              *)
LEMMA PlaceStep ==
  ASSUME TypeInv, StreamInv, PlaceInv, [StreamNext]_allvars
  PROVE  PlaceInv'
<1>i. stream \in [Client -> Stream] /\ owed \in [Slot -> Event \cup {NoEvent}]
  BY DEF StreamInv, Sound
<1>n. Len(<<>>) <= Capacity
  BY StreamAssumption
<1>1. CASE JobStep
  <2> SUFFICES ASSUME NEW c \in Client
               PROVE  /\ Len(stream'[c].inbox) <= Capacity
                      /\ stream'[c].state = "open" =>
                           run'[stream'[c].at] # "down"
    BY DEF PlaceInv
  <2>1. CASE stream[c].state = "open" /\ Dying(stream[c].at)
    <3>1. stream'[c] = [NewStream EXCEPT !.state = "ended"]
      BY <1>1, <2>1 DEF JobStep
    <3> QED
      BY <3>1, <1>n DEF NewStream
  <2>2. CASE ~(stream[c].state = "open" /\ Dying(stream[c].at))
    BY <1>1, <2>2 DEF JobStep, PlaceInv, Dying
  <2> QED
    BY <2>1, <2>2
<1>2. ASSUME NEW s \in Slot, NEW e \in Event, Send(s, e), UNCHANGED vars
      PROVE  PlaceInv'
  BY <1>2, <1>i, OfferedFits DEF Send, PlaceInv, vars
<1>3. ASSUME NEW s \in Slot, Publish(s) PROVE PlaceInv'
  BY <1>2, <1>3, <1>i DEF Publish
<1>4. ASSUME NEW s \in Slot, Notify(s) PROVE PlaceInv'
  <2>1. task[s].job \in Job
    BY <1>4, TypeInvParts DEF TaskInv, Notify
  <2>2. ASSUME NEW e, e = [job |-> task[s].job, kind |-> "notice", percent |-> 0]
        PROVE  e \in Event
    BY <2>1, <2>2, Ranges DEF Event, Kind
  <2> QED
    BY <1>2, <1>4, <2>2 DEF Notify
<1>5. ASSUME NEW c \in Client, NEW t, Len(t.inbox) <= Capacity,
             t.state = "open" => run[t.at] # "down",
             stream' = [stream EXCEPT ![c] = t], UNCHANGED vars
      PROVE  PlaceInv'
  BY <1>5, <1>i DEF PlaceInv, vars
<1>6. ASSUME NEW c \in Client, Connect(c) PROVE PlaceInv'
  <2>1. PICK w \in Worker, j \in Job :
          /\ run[w] # "down"
          /\ stream' = [stream EXCEPT ![c] = [NewStream EXCEPT
               !.state = "open", !.at = w, !.job = j]]
    BY <1>6 DEF Connect
  <2>2. ASSUME NEW t, t = [NewStream EXCEPT
                             !.state = "open", !.at = w, !.job = j]
        PROVE  Len(t.inbox) <= Capacity /\ t.at = w
    BY <2>2, <1>n DEF NewStream
  <2> QED
    BY <1>5, <1>6, <2>1, <2>2 DEF Connect
<1>7. ASSUME NEW c \in Client, Receive(c) PROVE PlaceInv'
  <2> DEFINE r == Tail(stream[c].inbox)
             u == [stream[c] EXCEPT !.inbox = r]
             v == Forward(u, Head(stream[c].inbox))
  <2>1. stream' = [stream EXCEPT ![c] = v] /\ UNCHANGED vars
    BY <1>7 DEF Receive
  <2>2. stream[c].inbox \in Seq(Event) /\ stream[c].inbox # <<>>
    BY <1>7, <1>i DEF Receive, Stream
  <2>3. Len(r) <= Capacity
    BY <2>2, StreamAssumption DEF PlaceInv
  <2>4. run[stream[c].at] # "down"
    BY <1>7 DEF Receive, PlaceInv
  <2> HIDE DEF r
  <2>5. Len(v.inbox) <= Capacity /\ v.at = stream[c].at
    BY <1>i, <1>n, <2>3 DEF Forward, Stream
  <2> HIDE DEF v
  <2> QED
    BY <1>5, <2>1, <2>4, <2>5
<1>8. ASSUME NEW c \in Client, Leave(c) PROVE PlaceInv'
  <2>1. ASSUME NEW t, t = [NewStream EXCEPT !.state = "ended"]
        PROVE  Len(t.inbox) <= Capacity /\ t.state # "open"
    BY <2>1, <1>n DEF NewStream
  <2> QED
    BY <1>5, <1>8, <2>1 DEF Leave
<1>9. CASE UNCHANGED allvars
  BY <1>9 DEF allvars, vars, PlaceInv
<1> QED
  BY <1>1, <1>3, <1>4, <1>6, <1>7, <1>8, <1>9 DEF StreamNext

(* Every event and every connection is of its type, an inbox holds at most  *)
(* the capacity of the bus, and a stream does not outlive the process that  *)
(* serves it (ws.rs, SimulationBus and handle_socket).                     *)
THEOREM StreamTyping == StreamSpec => []StreamTypeOK
<1>1. StreamInit => PlaceInv
  BY StreamAssumption DEF StreamInit, PlaceInv, NewStream
<1>2. TypeInv /\ StreamInv /\ PlaceInv /\ [StreamNext]_allvars => PlaceInv'
  BY PlaceStep
<1>3. TypeInv /\ StreamInv /\ PlaceInv => StreamTypeOK
  BY DEF TypeInv, StreamInv, PlaceInv, StreamTypeOK, Sound
<1> QED
  BY <1>1, <1>2, <1>3, StreamInvariant, QueueInvariants, PTL DEF StreamSpec
=============================================================================
