--------------------------- MODULE WebhookDelivery ---------------------------
(***************************************************************************)
(* core/src/webhooks.rs: contract events go through a bounded channel to    *)
(* one worker, which posts each of them to the subscriptions that match it, *)
(* one after the other, with retries.  An endpoint may answer that it took  *)
(* the event, take it and answer something else or too late, or not get it. *)
(* A request ends by its timeout at the latest.  Nothing is stored: a       *)
(* restart loses the queue and is left out.                                 *)
(***************************************************************************)
EXTENDS Integers, SequencesExt

CONSTANTS
  Events,        \* events that are offered
  Subscribers,   \* subscriptions that may exist; each matches every event
  QueueCapacity, \* queue_capacity
  MaxAttempts,   \* max_attempts
  Idle           \* the worker has no event

ASSUME WebhookAssumption ==
  /\ QueueCapacity \in Nat \ {0} /\ MaxAttempts \in Nat
  /\ Idle \notin Events /\ IsFiniteSet(Subscribers)

VARIABLES
  senders,  \* events whose enqueue waits for room
  queue,    \* the channel
  current,  \* the event the worker delivers, or Idle
  todo,     \* subscriptions it still has to serve, the first of them now
  attempts, \* posts of the delivery in hand that were sent
  posting,  \* one of them is under way
  registry, \* SubscriptionRegistry
  accepted, \* history: events in the order the channel took them
  inbox     \* history: per subscription, the events its endpoint got

webhookVars == <<senders, queue, current, todo, attempts, posting, registry,
                 accepted, inbox>>

WebhookTypeOK ==
  /\ senders \subseteq Events
  /\ queue \in Seq(Events) /\ Len(queue) <= QueueCapacity
  /\ current \in Events \cup {Idle}
  /\ todo \in Seq(Subscribers) /\ (current = Idle => todo = << >>)
  /\ attempts \in Nat /\ posting \in BOOLEAN
  /\ registry \subseteq Subscribers
  /\ accepted \in Seq(Events)
  /\ inbox \in [Subscribers -> Seq(Events)]

WebhookInit ==
  /\ senders = {} /\ queue = << >>
  /\ current = Idle /\ todo = << >> /\ attempts = 0 /\ posting = FALSE
  /\ registry \in SUBSET Subscribers
  /\ accepted = << >> /\ inbox = [s \in Subscribers |-> << >>]

\* max_attempts.max(1)
LastAttempt == IF MaxAttempts = 0 THEN 1 ELSE MaxAttempts

-----------------------------------------------------------------------------
\* Each event is offered once, by a task of its own.
Ingest(e) ==
  /\ e \notin senders \cup ToSet(accepted)
  /\ senders' = senders \cup {e}
  /\ UNCHANGED <<queue, current, todo, attempts, posting, registry, accepted,
                 inbox>>

\* Waits as long as the channel is full.
Enqueue(e) ==
  /\ e \in senders
  /\ Len(queue) < QueueCapacity
  /\ queue' = Append(queue, e)
  /\ senders' = senders \ {e}
  /\ accepted' = Append(accepted, e)
  /\ UNCHANGED <<current, todo, attempts, posting, registry, inbox>>

\* insert and remove; what the worker has read does not change.
Subscribe(s) ==
  /\ registry' = registry \cup {s}
  /\ s \notin registry
  /\ UNCHANGED <<senders, queue, current, todo, attempts, posting, accepted, inbox>>

Unsubscribe(s) ==
  /\ registry' = registry \ {s}
  /\ s \in registry
  /\ UNCHANGED <<senders, queue, current, todo, attempts, posting, accepted, inbox>>

-----------------------------------------------------------------------------
\* The worker

\* The next event, and who subscribes now, in the order of a hash map.
Take ==
  /\ current = Idle /\ queue # << >>
  /\ queue' = Tail(queue)
  /\ todo' \in SetToSeqs(registry)
  /\ current' = IF todo' = << >> THEN Idle ELSE Head(queue)
  /\ attempts' = 0
  /\ UNCHANGED <<senders, posting, registry, accepted, inbox>>

Post ==
  /\ current # Idle /\ ~ posting
  /\ posting' = TRUE
  /\ attempts' = attempts + 1
  /\ UNCHANGED <<senders, queue, current, todo, registry, accepted, inbox>>

\* On to the next subscription, or to the next event.
Finish ==
  /\ todo' = Tail(todo)
  /\ current' = IF Len(todo) = 1 THEN Idle ELSE current
  /\ attempts' = 0

Got == inbox' = [inbox EXCEPT ![Head(todo)] = Append(@, current)]

Delivered ==
  /\ posting /\ posting' = FALSE
  /\ Got /\ Finish
  /\ UNCHANGED <<senders, queue, registry, accepted>>

\* A status that is not retried; who answers so has not taken the event.
Refused ==
  /\ posting /\ posting' = FALSE
  /\ Finish
  /\ UNCHANGED <<senders, queue, registry, accepted, inbox>>

(* Mutant: a failed post goes back to the end of the queue.               *)
FailedRequeued ==
  /\ posting /\ posting' = FALSE
  /\ Got \/ UNCHANGED inbox
  /\ Finish
  /\ queue' = Append(queue, current)
  /\ UNCHANGED <<senders, registry, accepted>>

(* Mutant: a failed post is tried again whatever the count.               *)
FailedForever ==
  /\ posting /\ posting' = FALSE
  /\ attempts' = 0
  /\ UNCHANGED <<senders, queue, current, todo, registry, accepted, inbox>>

\* No answer in time, or one that is retried, whether or not the endpoint has
\* taken the event; the last attempt gives up.
Failed ==
  /\ posting /\ posting' = FALSE
  /\ Got \/ UNCHANGED inbox
  /\ IF attempts < LastAttempt THEN UNCHANGED <<current, todo, attempts>>
                               ELSE Finish
  /\ UNCHANGED <<senders, queue, registry, accepted>>

Worker == Take \/ Post \/ Delivered \/ Refused \/ Failed

WebhookNext ==
  \/ \E e \in Events : Ingest(e) \/ Enqueue(e)
  \/ \E s \in Subscribers : Subscribe(s) \/ Unsubscribe(s)
  \/ Worker

WebhookSpec == WebhookInit /\ [][WebhookNext]_webhookVars

\* The worker goes on: its posts and its pauses end by their timers.  Senders
\* that wait are let in as there is room, in their order.
WebhookFairness ==
  /\ WF_webhookVars(Worker)
  /\ \A e \in Events : WF_webhookVars(Enqueue(e))

-----------------------------------------------------------------------------
\* Properties

\* An endpoint sees the events in the order the channel took them, and each
\* of them no more often than it may be posted, although a post that failed
\* may have been taken and others wait meanwhile.
DeliveredInOrder ==
  \A s \in Subscribers :
    /\ \A i, j \in DOMAIN inbox[s] :
         i < j => \A m, n \in DOMAIN accepted :
                    accepted[m] = inbox[s][i] /\ accepted[n] = inbox[s][j] => m <= n
    /\ \A e \in Events :
         Cardinality({i \in DOMAIN inbox[s] : inbox[s][i] = e}) <= LastAttempt

\* Every event that is offered gets its turn: however endpoints fail, they
\* hold up the one worker for as many attempts as they have, not for ever.
EventsGetTheirTurn ==
  \A e \in Events :
    e \in senders ~> /\ e \in ToSet(accepted) /\ e \notin ToSet(queue)
                     /\ current # e
=============================================================================
