------------------------------ MODULE TaskTree ------------------------------
(***************************************************************************)
(* The runtime task tree of src/src/yuubot/runtime/tasks.py: TaskRegistry  *)
(* (who is whose child) and TaskScheduler (one managed asyncio task per    *)
(* record, cooperative cancellation, a parent that outlives its subtree).  *)
(*                                                                         *)
(* An action is one stretch of code between two suspension points of the   *)
(* event loop.  Text, exit codes, owners and retention are left out: a     *)
(* tree never crosses actors (put refuses it), so the tasks below are      *)
(* those of one actor.                                                     *)
(***************************************************************************)
CONSTANTS
  Tasks,    \* task ids; each is submitted at most once (new_task_id)
  Agents,   \* the tasks whose body is the subagent loop of subagents.py
  NoTask    \* parent of a root task

ASSUME TaskAssumption == Agents \subseteq Tasks /\ NoTask \notin Tasks

VARIABLES
  parent,           \* record.parent_task_id
  status,           \* record.status, or "absent" before the record exists
  point,            \* where the asyncio task of the record is suspended
  outcome,          \* _run's local final_status
  accepting,        \* record._accepting_children
  cancelRequested,  \* record._cancel_requested
  asyncCancel,      \* asyncio.Task.cancel() called and not yet delivered
  treeChanged,      \* record._tree_changed is set
  notices,          \* record._child_notices: the children not yet read
  delivery          \* record.delivery_state

vars == <<parent, status, point, outcome, accepting, cancelRequested,
          asyncCancel, treeChanged, notices, delivery>>

Ends     == {"done", "failed", "cancelled"}
Statuses == {"absent", "running", "waiting_children"} \cup Ends

(* new: _run not entered yet.  body: inside coro_factory.  agent_wait: the *)
(* subagent loop awaits _tree_changed.  unwinding: the body handles its    *)
(* CancelledError.  tree_wait: _wait_for_children awaits _tree_changed.    *)
Points == {"none", "new", "body", "agent_wait", "unwinding", "tree_wait", "over"}

-----------------------------------------------------------------------------

Terminal(t) == status[t] \in Ends
Active(t)   == status[t] \in {"running", "waiting_children"}

\* record._own_finished: set when the body has left, however it left.
OwnFinishedByStatus(t) == status[t] = "waiting_children"   \* a tempting mistake
OwnFinished(t) == point[t] \in {"tree_wait", "over"}

ActiveChildren(t) == {c \in Tasks : parent[c] = t /\ Active(c)}

\* The records TaskScheduler.cancel visits: t, then its active children, then theirs
\* (the least set closed under ActiveChildren that holds t).
CascadeOneLevel(t) == {t} \cup ActiveChildren(t)   \* mistake: no recursion
Cascade(t) ==
  {d \in Tasks : \A S \in SUBSET Tasks :
     (t \in S /\ \A a \in S : ActiveChildren(a) \subseteq S) => d \in S}

\* The cancel flags of every record in hit; the records in skip give up their delivery.
MarkCancelled(hit, skip) ==
  /\ cancelRequested' = [x \in Tasks |-> cancelRequested[x] \/ x \in hit]
  /\ asyncCancel' = [x \in Tasks |-> asyncCancel[x] \/ (x \in hit /\ Active(x) /\ ~OwnFinished(x))]
  /\ delivery' = [x \in Tasks |-> IF x \in skip /\ delivery[x] = "pending"
                                  THEN "skipped" ELSE delivery[x]]

\* Records of hit that wait for their children are woken instead of cancelled.
Woken(hit) == {x \in hit : Active(x) /\ OwnFinished(x)}

-----------------------------------------------------------------------------

Init ==
  /\ parent = [t \in Tasks |-> NoTask]
  /\ status = [t \in Tasks |-> "absent"]
  /\ point = [t \in Tasks |-> "none"]
  /\ outcome = [t \in Tasks |-> "done"]
  /\ accepting = [t \in Tasks |-> TRUE]
  /\ cancelRequested = [t \in Tasks |-> FALSE]
  /\ asyncCancel = [t \in Tasks |-> FALSE]
  /\ treeChanged = [t \in Tasks |-> FALSE]
  /\ notices = [t \in Tasks |-> {}]
  /\ delivery = [t \in Tasks |-> "pending"]

\* The checks of TaskRegistry.put on a parent.
TakesChildrenWhenOpen(p) == accepting[p]   \* mistake: is_terminal not asked
TakesChildren(p) == Active(p) /\ accepting[p]

\* put and schedule of one record.  A child names a parent whose body has run:
\* only from there on does anyone know the parent's id.
Submit(t, p) ==
  /\ status[t] = "absent"
  /\ p # NoTask => status[p] # "absent" /\ point[p] # "new" /\ TakesChildren(p)
  /\ parent' = [parent EXCEPT ![t] = p]
  /\ status' = [status EXCEPT ![t] = "running"]
  /\ point' = [point EXCEPT ![t] = "new"]
  /\ treeChanged' = [x \in Tasks |-> treeChanged[x] \/ x = p]
  /\ UNCHANGED <<outcome, accepting, cancelRequested, asyncCancel, notices, delivery>>

Start(t) ==
  /\ point[t] = "new" /\ ~asyncCancel[t]
  /\ point' = [point EXCEPT ![t] = "body"]
  /\ UNCHANGED <<parent, status, outcome, accepting, cancelRequested, asyncCancel,
                 treeChanged, notices, delivery>>

\* An ending child's notice goes to a parent that still accepts children.
Informs(t) ==
  parent[t] # NoTask /\ Active(parent[t]) /\ accepting[parent[t]]

\* queue_child_notice sets the parent's event with the notice.
SetsNoEvent(t, x) == treeChanged[x]   \* mistake: the notice without the event
EventAfterEndOf(t, x) == treeChanged[x] \/ (Informs(t) /\ x = parent[t])

AmericanSpelling(t, final) == IF cancelRequested[t] THEN "canceled" ELSE final   \* mistake
FinalStatus(t, final) == IF cancelRequested[t] THEN "cancelled" ELSE final

\* The internal delivery of an ending record: made, given up, or (at a root) left to
\* the delivery coordinator.
SettledDelivery(t) ==
  IF Informs(t) THEN "delivered"
  ELSE IF parent[t] # NoTask /\ delivery[t] = "pending" THEN "skipped"
  ELSE delivery[t]

Finish(t, final) ==
  /\ status' = [status EXCEPT ![t] = FinalStatus(t, final)]
  /\ point' = [point EXCEPT ![t] = "over"]
  /\ notices' = [x \in Tasks |-> IF Informs(t) /\ x = parent[t]
                                 THEN notices[x] \cup {t} ELSE notices[x]]
  /\ treeChanged' = [x \in Tasks |-> EventAfterEndOf(t, x)]
  /\ delivery' = [delivery EXCEPT ![t] = SettledDelivery(t)]
  /\ UNCHANGED <<parent, outcome, cancelRequested, asyncCancel>>

\* One turn of the loop of _wait_for_children: clear the event, then suspend on it.
AwaitChildren(t, hit) ==
  /\ status' = [status EXCEPT ![t] = "waiting_children"]
  /\ point' = [point EXCEPT ![t] = "tree_wait"]
  /\ treeChanged' = [x \in Tasks |-> x # t /\ (treeChanged[x] \/ x \in Woken(hit))]
  /\ MarkCancelled(hit, hit)
  /\ UNCHANGED <<parent, notices>>

\* The body has left with `final`: a failed or cancelled body closes and cancels its
\* subtree; then the record waits for its active children, or ends if it has none.
Leave(t, final) ==
  LET hit == IF final = "done" THEN {} ELSE Cascade(t) IN
  /\ accepting' = [x \in Tasks |-> accepting[x] /\ x \notin hit]
  /\ \/ /\ ActiveChildren(t) = {}
        /\ Finish(t, final)
     \/ /\ ActiveChildren(t) # {}
        /\ outcome' = [outcome EXCEPT ![t] = final]
        /\ AwaitChildren(t, hit \ {t})

\* A body other than the subagent loop returns whenever it likes; the subagent loop
\* returns on a "stop" that finds no notice to read and no active child.
Return(t) ==
  /\ point[t] = "body" /\ ~asyncCancel[t]
  /\ t \in Agents => notices[t] = {} /\ ActiveChildren(t) = {}
  /\ Leave(t, "done")

Fail(t) ==
  /\ point[t] = "body" /\ ~asyncCancel[t]
  /\ Leave(t, "failed")

\* CancelledError reaches the suspended body, which cleans up before it lets go of it: a
\* subagent closes its harness, a shell terminates its command (terminate_pty).
CancelArrives(t) ==
  /\ point[t] \in {"body", "agent_wait"} /\ asyncCancel[t]
  /\ point' = [point EXCEPT ![t] = "unwinding"]
  /\ UNCHANGED <<parent, status, outcome, accepting, cancelRequested, asyncCancel,
                 treeChanged, notices, delivery>>

Unwound(t) ==
  /\ point[t] = "unwinding"
  /\ Leave(t, "cancelled")

\* _on_task_done for a task cancelled before its first step: _run never ran.
CancelledBeforeStart(t) ==
  /\ point[t] = "new" /\ asyncCancel[t]
  /\ Finish(t, "cancelled")
  /\ UNCHANGED accepting

\* The subagent loop at a "stop": unread notices become its next message ...
AgentReads(t) ==
  /\ t \in Agents /\ point[t] = "body" /\ ~asyncCancel[t]
  /\ notices[t] # {}
  /\ notices' = [notices EXCEPT ![t] = {}]
  /\ UNCHANGED <<parent, status, point, outcome, accepting, cancelRequested,
                 asyncCancel, treeChanged, delivery>>

\* ... and with none unread but children active it waits for the tree to change.
AgentWaits(t) ==
  /\ t \in Agents /\ point[t] = "body" /\ ~asyncCancel[t]
  /\ notices[t] = {} /\ ActiveChildren(t) # {}
  /\ status' = [status EXCEPT ![t] = "waiting_children"]
  /\ treeChanged' = [treeChanged EXCEPT ![t] = FALSE]
  /\ point' = [point EXCEPT ![t] = "agent_wait"]
  /\ UNCHANGED <<parent, outcome, accepting, cancelRequested, asyncCancel, notices,
                 delivery>>

\* It resumes with the notices it finds, or, having found none, goes on to its result
\* (Return's guard is not evaluated again: the loop waits only once).
AgentResumes(t) ==
  /\ point[t] = "agent_wait" /\ treeChanged[t] /\ ~asyncCancel[t]
  /\ \/ /\ notices[t] # {}
        /\ notices' = [notices EXCEPT ![t] = {}]
        /\ status' = [status EXCEPT ![t] = "running"]
        /\ point' = [point EXCEPT ![t] = "body"]
        /\ UNCHANGED <<parent, outcome, accepting, cancelRequested, asyncCancel,
                       treeChanged, delivery>>
     \/ /\ notices[t] = {}
        /\ Leave(t, "done")

\* _wait_for_children resumes: it ends the record or clears the event and waits again.
TreeResumes(t) ==
  /\ point[t] = "tree_wait" /\ treeChanged[t]
  /\ \/ /\ ActiveChildren(t) = {}
        /\ Finish(t, outcome[t])
        /\ UNCHANGED accepting
     \/ /\ ActiveChildren(t) # {}
        /\ treeChanged' = [treeChanged EXCEPT ![t] = FALSE]
        /\ UNCHANGED <<parent, status, point, outcome, accepting, cancelRequested,
                       asyncCancel, notices, delivery>>

\* TaskScheduler.cancel(record) on every record of `roots`; the root of a cascade keeps
\* its delivery unless skip, the records below it never do.
CancelFrom(roots, skip) ==
  LET hit == UNION {Cascade(t) : t \in roots}
      below == UNION {Cascade(t) \ {t} : t \in roots} IN
  /\ accepting' = [x \in Tasks |-> accepting[x] /\ x \notin hit]
  /\ MarkCancelled(hit, IF skip THEN hit ELSE below)
  /\ treeChanged' = [x \in Tasks |-> treeChanged[x] \/ x \in Woken(hit)]
  /\ UNCHANGED <<parent, status, point, outcome, notices>>

\* cancel_runtime_task, on any record the registry still knows.
Cancel(t) == status[t] # "absent" /\ CancelFrom({t}, FALSE)

\* shutdown, and cancel_for_owner_prefix when the actor is disabled.
CancelAll ==
  LET running == {t \in Tasks : Active(t)} IN
  running # {} /\ CancelFrom(running, TRUE)

Next ==
  \/ \E t \in Tasks, p \in Tasks \cup {NoTask} : Submit(t, p)
  \/ \E t \in Tasks : Start(t)
  \/ \E t \in Tasks : Return(t)
  \/ \E t \in Tasks : Fail(t)
  \/ \E t \in Tasks : CancelArrives(t)
  \/ \E t \in Tasks : Unwound(t)
  \/ \E t \in Tasks : CancelledBeforeStart(t)
  \/ \E t \in Tasks : AgentReads(t)
  \/ \E t \in Tasks : AgentWaits(t)
  \/ \E t \in Tasks : AgentResumes(t)
  \/ \E t \in Tasks : TreeResumes(t)
  \/ \E t \in Tasks : Cancel(t)
  \/ CancelAll

Spec == Init /\ [][Next]_vars

\* What the event loop owes: a ready task gets its step.  The cleanup of a subagent ends,
\* too: Harness.close gives every tool a bounded time.  Nothing ends that of a shell, whose
\* terminate_pty needs a thread of the executor that other shells may hold for ever, and
\* nothing makes a body return, fail or be submitted.
Fairness ==
  /\ \A t \in Tasks :
       /\ WF_vars(Start(t)) /\ WF_vars(CancelArrives(t))
       /\ WF_vars(CancelledBeforeStart(t)) /\ WF_vars(AgentResumes(t))
       /\ WF_vars(TreeResumes(t))
  /\ \A t \in Agents : WF_vars(Unwound(t))

FairSpec == Spec /\ Fairness

-----------------------------------------------------------------------------

\* Every variable has its type: statuses and phases are among those the code names.
TypeOK ==
  /\ parent \in [Tasks -> Tasks \cup {NoTask}]
  /\ status \in [Tasks -> Statuses]
  /\ point \in [Tasks -> Points]
  /\ outcome \in [Tasks -> Ends]
  /\ accepting \in [Tasks -> BOOLEAN]
  /\ cancelRequested \in [Tasks -> BOOLEAN]
  /\ asyncCancel \in [Tasks -> BOOLEAN]
  /\ treeChanged \in [Tasks -> BOOLEAN]
  /\ notices \in [Tasks -> SUBSET Tasks]
  /\ delivery \in [Tasks -> {"pending", "delivered", "skipped"}]

\* A task ends only after its whole subtree: below a terminal record nothing is active,
\* whatever was cancelled, failed or submitted on the way (system-design.md 1.5).
TreeEndsBottomUp ==
  \A c \in Tasks : Active(c) /\ parent[c] # NoTask => Active(parent[c])

\* Once a record is cancelled, or its body failed, no active record below it is left
\* uncancelled or still takes children: a cascade cannot be outrun by a submission.
CancelReachesSubtree ==
  \A c \in Tasks : Active(c) /\ parent[c] # NoTask /\ ~accepting[parent[c]]
                     => cancelRequested[c] /\ ~accepting[c]

\* No lost wakeup between the last child's end and a parent that suspends: a record that
\* still accepts children and waits on a quiet subtree has its event set.
WakeupNotLost ==
  \A t \in Tasks :
    /\ point[t] \in {"tree_wait", "agent_wait"}
    /\ accepting[t] /\ ActiveChildren(t) = {}
    => treeChanged[t]

\* What a record is to the tree it belongs to.
Stage(t) ==
  IF ~Active(t) THEN status[t]
  ELSE IF accepting[t] THEN "open"
  ELSE IF cancelRequested[t] THEN "cancelling" ELSE "failing"

TreeStage == [t \in Tasks |-> Stage(t)]

Tree == INSTANCE Nursery WITH
  Members <- Tasks, Outside <- NoTask, stage <- TreeStage, above <- parent

\* The registry and the scheduler implement structured concurrency: whatever callbacks,
\* submissions, failures and cancellations interleave, no task is opened under a parent
\* that is closing, a subtree closes whole, and a task ends once, after everything below
\* it, as cancelled exactly when it was cancelled (system-design.md 1.5).
TreeIsNursery == Tree!NurserySpec

\* Cancellation is cooperative, but no cancelled task misses it: wherever its body was, the
\* body leaves, even one that would run for ever; only one that is not a subagent's may
\* stay in its own cleanup (tasks.py:354-373; pty_runner.py:46-54).
HeldInCleanup(t) == t \notin Agents /\ point[t] = "unwinding"

CancelStopsBody ==
  \A t \in Tasks :
    (cancelRequested[t] /\ Active(t)) ~> (OwnFinished(t) \/ HeldInCleanup(t))

\* What system-design.md 1.5 promises of every waiting parent, cancelled or not: the
\* end of its last child wakes it, so the tree is never silently stuck.
ChildEndWakesParent ==
  \A t \in Tasks :
    point[t] = "tree_wait" /\ ActiveChildren(t) = {} => treeChanged[t]

=============================================================================
