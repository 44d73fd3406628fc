---------------------------- MODULE TaskDelivery ----------------------------
(***************************************************************************)
(* The delivery coordinator of runtime/tasks.py: what becomes of the       *)
(* result of a root task with conversation delivery, between the end of    *)
(* the task and the follow-up its actor runs in the owner Conversation.    *)
(*                                                                         *)
(* One conversation of one actor.  Its run gate is reduced to idle,        *)
(* running and interrupting (which stands for interrupted too: neither     *)
(* answers a further interrupt).  A run is the "user" run (a WebSocket     *)
(* send) or the actor's developer notice; when the manager discards the    *)
(* Conversation object of a run, the run goes on as an orphan and at its   *)
(* end drains the queue of whatever object the manager then holds.         *)
(*                                                                         *)
(* Sending to a mailbox, draining and releasing the gate never suspend, so *)
(* the exit of a run is one step.                                          *)
(***************************************************************************)
EXTENDS Integers, SequencesExt

CONSTANTS
  Tasks,    \* root tasks with delivery = "conversation"
  Agents,   \* the tasks of kind "agent"
  NoTask

ASSUME DeliveryAssumption == Agents \subseteq Tasks /\ NoTask \notin Tasks

VARIABLES
  status,       \* absent, running, done or cancelled
  delivery,     \* RuntimeTaskRecord.delivery_state
  coordinating, \* terminal tasks whose schedule_task_delivery has yet to run
  present,      \* the manager holds a Conversation object
  gate,         \* its _run_state
  queue,        \* its _pending_task_deliveries
  suppressed,   \* its _task_delivery_suppressed_until lies ahead
  user,         \* the user run: out, in (the object held), orphaned
  starting,     \* that run has not reached allow_task_deliveries
  mailbox,      \* the actor's mailbox: task_delivery messages
  actor,        \* receiving, opening, in, orphaned, dead (ConversationBlocked)
  handling,     \* the message the actor has taken
  followUps     \* developer notices run for each task

conversation == <<present, gate, queue, suppressed>>
runs == <<user, starting, actor, handling>>
vars == <<status, delivery, coordinating, conversation, runs, mailbox, followUps>>

Plain == Tasks \ Agents
Running == gate # "idle"
Settled == {"delivered", "skipped"}

-----------------------------------------------------------------------------

Init ==
  /\ status = [t \in Tasks |-> "absent"] /\ delivery = [t \in Tasks |-> "pending"]
  /\ coordinating = {}
  /\ present = FALSE /\ gate = "idle" /\ queue = <<>> /\ suppressed = FALSE
  /\ user = "out" /\ starting = FALSE
  /\ mailbox = <<>> /\ actor = "receiving" /\ handling = NoTask
  /\ followUps = [t \in Tasks |-> 0]

\* A tool of a run registers a task.
Submit(t) ==
  /\ status[t] = "absent"
  /\ (user # "out" /\ ~starting) \/ actor \in {"in", "orphaned"}
  /\ status' = [status EXCEPT ![t] = "running"]
  /\ UNCHANGED <<delivery, coordinating, conversation, runs, mailbox, followUps>>

\* The task ends and on_terminal starts the coordinator's asyncio task.
OnlyIfIdle(t) ==   \* mistake: a running conversation is left to its drain
  IF Running THEN coordinating ELSE coordinating \cup {t}
Coordinated(t) == coordinating \cup {t}

End(t, how) ==
  /\ status[t] = "running"
  /\ status' = [status EXCEPT ![t] = how]
  /\ coordinating' = Coordinated(t)
  /\ UNCHANGED <<delivery, conversation, runs, mailbox, followUps>>

SkippedByStatus(S) ==   \* mistake: the task's status is recorded for its delivery
  [t \in Tasks |-> IF t \in S THEN status[t] ELSE delivery[t]]
Skipped(S) == [t \in Tasks |-> IF t \in S THEN "skipped" ELSE delivery[t]]

\* skip_conversation_task_deliveries: every plain delivery of the owner still to be made.
SkippableAnyway ==   \* mistake: deliveries already made are skipped too
  {t \in Plain : status[t] # "absent"}
Skippable == {t \in Plain : status[t] # "absent" /\ delivery[t] \in {"pending", "queued"}}

\* Conversation.queue_task_delivery.
Enqueued(q, t) == IF Contains(q, t) THEN q ELSE Append(q, t)

\* schedule_task_delivery.  A delegate's result is not subject to suppression.
SuppressibleIfIdle(t) ==   \* mistake: a running conversation queues first
  t \in Plain /\ present /\ suppressed /\ ~Running
Suppressible(t) == t \in Plain /\ present /\ suppressed

Coordinate(t) ==
  /\ t \in coordinating
  /\ coordinating' = coordinating \ {t}
  /\ \/ /\ delivery[t] # "pending"
        /\ UNCHANGED <<delivery, queue, mailbox>>
     \/ /\ delivery[t] = "pending" /\ Suppressible(t)
        /\ delivery' = Skipped({t})
        /\ UNCHANGED <<queue, mailbox>>
     \/ /\ delivery[t] = "pending" /\ ~Suppressible(t) /\ present /\ Running
        /\ delivery' = [delivery EXCEPT ![t] = "queued"]
        /\ queue' = Enqueued(queue, t)
        /\ UNCHANGED mailbox
     \/ /\ delivery[t] = "pending" /\ ~Suppressible(t) /\ ~(present /\ Running)
        /\ delivery' = [delivery EXCEPT ![t] = "delivered"]
        /\ mailbox' = Append(mailbox, t)
        /\ UNCHANGED queue
  /\ UNCHANGED <<status, present, gate, suppressed, runs, followUps>>

-----------------------------------------------------------------------------
(* Runs of the conversation.                                               *)

\* A user run enters the gate of the object the manager holds or creates.
UserEnters ==
  /\ user = "out" /\ ~Running
  /\ user' = "in" /\ starting' = TRUE
  /\ present' = TRUE /\ gate' = "running"
  /\ UNCHANGED <<status, delivery, coordinating, queue, suppressed, mailbox, actor, handling,
                 followUps>>

\* allow_task_deliveries, after the run's status was written: whichever object is held.
UserLiftsSuppression ==
  /\ user # "out" /\ starting
  /\ starting' = FALSE /\ suppressed' = FALSE
  /\ UNCHANGED <<status, delivery, coordinating, present, gate, queue, user, mailbox, actor,
                 handling, followUps>>

\* drain_pending_task_deliveries, in the order of the queue.
Drains(t) == delivery[t] \in {"pending", "queued"}
Dropped == {t \in ToSet(queue) : Drains(t) /\ status[t] = "cancelled" /\ t \notin Agents}
Sent == {t \in ToSet(queue) : Drains(t)} \ Dropped

\* The tasks of S, each once, in the order of the queue.
InQueueOrder(S) ==
  {s \in SetToSeqs(S) : \A i, j \in DOMAIN s : i < j =>
     \E m, n \in DOMAIN queue : m < n /\ queue[m] = s[i] /\ queue[n] = s[j]}

LeaveDelivery ==   \* mistake: the gate is released without draining
  UNCHANGED <<delivery, mailbox, queue>>
Drain ==
  /\ delivery' = [t \in Tasks |-> IF t \in Sent THEN "delivered" ELSE Skipped(Dropped)[t]]
  /\ \E sent \in InQueueOrder(Sent) : mailbox' = mailbox \o sent
  /\ queue' = <<>>

\* _exit_run.  The last step of an orphan leaves the gate of the present object alone.
ExitRun(who) ==
  /\ Drain
  /\ gate' = IF who = "in" THEN "idle" ELSE gate
  /\ UNCHANGED <<status, coordinating, present, suppressed, followUps>>

UserLeaves ==
  /\ user # "out" /\ ~starting
  /\ ExitRun(user)
  /\ user' = "out"
  /\ UNCHANGED <<starting, actor, handling>>

\* Conversation.interrupt, which suppresses task deliveries: delegates stay queued.
Interrupt ==
  /\ present /\ gate = "running"
  /\ gate' = "interrupting" /\ suppressed' = TRUE
  /\ queue' \in InQueueOrder(ToSet(queue) \cap Agents)
  /\ delivery' = Skipped(Skippable)
  /\ UNCHANGED <<status, coordinating, present, runs, mailbox, followUps>>

\* DEFAULT_TASK_DELIVERY_SUPPRESSION_TTL_S passes.
SuppressionExpires ==
  /\ suppressed /\ suppressed' = FALSE
  /\ UNCHANGED <<status, delivery, coordinating, present, gate, queue, runs, mailbox,
                 followUps>>

\* ConversationManager.discard (sweep, close_for_actor, delete): the object and its queue
\* are gone, the run on it is not.
Discard ==
  /\ present
  /\ present' = FALSE /\ gate' = "idle" /\ queue' = <<>> /\ suppressed' = FALSE
  /\ delivery' = Skipped(Skippable)
  /\ user' = IF user = "in" THEN "orphaned" ELSE user
  /\ actor' = IF actor = "in" THEN "orphaned" ELSE actor
  /\ UNCHANGED <<status, coordinating, starting, mailbox, handling, followUps>>

-----------------------------------------------------------------------------
(* The actor's mailbox loop.                                               *)

ActorTakes ==
  /\ actor = "receiving" /\ mailbox # <<>>
  /\ handling' = Head(mailbox) /\ mailbox' = Tail(mailbox) /\ actor' = "opening"
  /\ UNCHANGED <<status, delivery, coordinating, conversation, user, starting, followUps>>

\* get_or_create answers and append_developer_notice enters the gate.
ActorRuns ==
  /\ actor = "opening" /\ ~Running
  /\ present' = TRUE /\ gate' = "running" /\ actor' = "in"
  /\ followUps' = [followUps EXCEPT ![handling] = @ + 1]
  /\ UNCHANGED <<status, delivery, coordinating, queue, suppressed, user, starting, mailbox,
                 handling>>

\* ConversationBusy: the delivery goes to the queue, its state changed only if pending.
ActorFindsBusy ==
  /\ actor = "opening" /\ Running
  /\ queue' = Enqueued(queue, handling)
  /\ delivery' = [delivery EXCEPT ![handling] = IF @ = "pending" THEN "queued" ELSE @]
  /\ actor' = "receiving" /\ handling' = NoTask
  /\ UNCHANGED <<status, coordinating, present, gate, suppressed, user, starting, mailbox,
                 followUps>>

\* The notice's run ends; ConversationBlocked or an error also ends the mailbox loop.
ActorLeaves(next) ==
  /\ actor \in {"in", "orphaned"}
  /\ ExitRun(actor)
  /\ actor' = next /\ handling' = NoTask
  /\ UNCHANGED <<user, starting>>

Next ==
  \/ \E t \in Tasks : Submit(t)
  \/ \E t \in Tasks, how \in {"done", "cancelled"} : End(t, how)
  \/ \E t \in Tasks : Coordinate(t)
  \/ UserEnters
  \/ UserLiftsSuppression
  \/ UserLeaves
  \/ Interrupt
  \/ SuppressionExpires
  \/ Discard
  \/ ActorTakes
  \/ ActorRuns
  \/ ActorFindsBusy
  \/ \E next \in {"receiving", "dead"} : ActorLeaves(next)

Spec == Init /\ [][Next]_vars

\* The event loop runs the coordinator's asyncio task.  Nothing bounds a run: it lasts as
\* long as the model calls tools.
Fairness == \A t \in Tasks : WF_vars(Coordinate(t))

FairSpec == Spec /\ Fairness

-----------------------------------------------------------------------------

\* Every variable has its type.
TypeOK ==
  /\ status \in [Tasks -> {"absent", "running", "done", "cancelled"}]
  /\ delivery \in [Tasks -> {"pending", "queued", "delivered", "skipped"}]
  /\ coordinating \subseteq Tasks
  /\ present \in BOOLEAN /\ suppressed \in BOOLEAN /\ starting \in BOOLEAN
  /\ gate \in {"idle", "running", "interrupting"}
  /\ queue \in Seq(Tasks) /\ mailbox \in Seq(Tasks)
  /\ user \in {"out", "in", "orphaned"}
  /\ actor \in {"receiving", "opening", "in", "orphaned", "dead"}
  /\ handling \in Tasks \cup {NoTask}
  /\ followUps \in [Tasks -> Nat]

InMailbox(t) == Cardinality({i \in DOMAIN mailbox : mailbox[i] = t})
Opening(t) == IF actor = "opening" /\ handling = t THEN 1 ELSE 0

\* A task has at most one follow-up, run or on its way, and none unless its delivery is
\* recorded as made: a skipped or queued result never reaches the conversation as well.
OneFollowUp ==
  \A t \in Tasks :
    followUps[t] + InMailbox(t) + Opening(t) <= IF delivery[t] = "delivered" THEN 1 ELSE 0

\* A task, and what is on its way to the actor, as the outbox sees them.  A delivered result
\* that is neither on its way nor followed up was put back by ActorFindsBusy.
Post == (IF actor = "opening" THEN <<handling>> ELSE <<>>) \o mailbox

Undecided(t) ==
  IF status[t] = "absent" THEN "absent" ELSE IF status[t] = "running" THEN "open" ELSE "owed"

Letter(t) ==
  CASE delivery[t] = "pending"   -> Undecided(t)
    [] delivery[t] = "queued"    -> "kept"
    [] delivery[t] = "skipped"   -> "skipped"
    [] delivery[t] = "delivered" ->
         IF followUps[t] # 0 THEN "made" ELSE IF Contains(Post, t) THEN "sent" ELSE "lost"

Results == INSTANCE Outbox WITH
  Letters <- Tasks, letter <- [t \in Tasks |-> Letter(t)], post <- Post

\* The coordinator implements an outbox: a result is sent, kept or skipped, what was sent is
\* taken once and in the order it was sent, and nothing that is over is taken up again by a
\* drain, an interrupt, a discard or the coordinator's late step.
ResultsAreSettledOnce == Results!OutboxSpec

\* A queued result waits for a run that will drain it: it is in the queue of the object
\* the manager holds, and that object's gate is taken.
QueuedIsDrained ==
  \A t \in Plain : delivery[t] = "queued" => Contains(queue, t) /\ present /\ Running

\* While deliveries are suppressed no result of a plain task is queued or delivered.
SuppressedIsSkipped ==
  [][\A t \in Plain : suppressed /\ delivery[t] \notin Settled
                        => delivery'[t] \notin {"queued", "delivered"}]_vars

\* Every terminal task is decided about: queued, delivered or skipped.
TerminalIsDecided ==
  \A t \in Tasks : status[t] \in {"done", "cancelled"} ~> delivery[t] # "pending"

\* A delivered result is a follow-up that runs: it waits in the mailbox, is being opened,
\* was run, or is back in the queue of a busy conversation.
DeliveredIsFollowedUp ==
  \A t \in Tasks : delivery[t] = "delivered" =>
    followUps[t] + InMailbox(t) + Opening(t) > 0 \/ Contains(queue, t)

=============================================================================
