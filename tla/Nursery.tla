------------------------------- MODULE Nursery -------------------------------
(***************************************************************************)
(* What runtime/tasks.py promises of a tree of tasks, without the event    *)
(* loop, events, notices and suspension points it takes to keep it:        *)
(* structured concurrency.  A task is opened under a parent that is still  *)
(* open; a failure or a cancellation closes a whole subtree at once; a     *)
(* task ends once, when nothing below it is live, and its end says why.    *)
(***************************************************************************)
CONSTANTS
  Members,  \* the tasks
  Outside   \* the parent of a root

VARIABLES
  stage,  \* absent, open, failing, cancelling, or the final status
  above   \* the parent of each task

nursery == <<stage, above>>

Live(m)  == stage[m] \in {"open", "failing", "cancelling"}
Below(m) == {c \in Members : above[c] = m /\ Live(c)}

\* A set of live tasks with every live task below them.
Whole(S) == \A m \in S : Live(m) /\ Below(m) \subseteq S

NurseryInit ==
  /\ stage = [m \in Members |-> "absent"]
  /\ above = [m \in Members |-> Outside]

OpenTask(m, p) ==
  /\ stage[m] = "absent"
  /\ p # Outside => stage[p] = "open"
  /\ stage' = [stage EXCEPT ![m] = "open"]
  /\ above' = [above EXCEPT ![m] = p]

\* The body of m fails over the live tasks S below it: it waits for them, cancelled.
FailOver(m, S) ==
  /\ stage[m] = "open" /\ m \notin S
  /\ Below(m) # {} /\ Below(m) \subseteq S /\ Whole(S)
  /\ stage' = [x \in Members |-> IF x = m THEN "failing"
                                 ELSE IF x \in S THEN "cancelling" ELSE stage[x]]
  /\ UNCHANGED above

CancelAllOf(S) ==
  /\ Whole(S)
  /\ stage' = [x \in Members |-> IF x \in S THEN "cancelling" ELSE stage[x]]
  /\ UNCHANGED above

\* A task that was cancelled says so, and no other task does.
Verdict == [open |-> {"done", "failed"}, failing |-> {"failed"}, cancelling |-> {"cancelled"}]

EndTask(m, how) ==
  /\ Live(m) /\ Below(m) = {} /\ how \in Verdict[stage[m]]
  /\ stage' = [stage EXCEPT ![m] = how]
  /\ UNCHANGED above

NurseryNext ==
  \/ \E m \in Members, p \in Members \cup {Outside} : OpenTask(m, p)
  \/ \E m \in Members, S \in SUBSET Members : FailOver(m, S)
  \/ \E S \in SUBSET Members : CancelAllOf(S)
  \/ \E m \in Members, how \in {"done", "failed", "cancelled"} : EndTask(m, how)

NurserySpec == NurseryInit /\ [][NurseryNext]_nursery
==============================================================================
