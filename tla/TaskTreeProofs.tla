--------------------------- MODULE TaskTreeProofs ---------------------------
(***************************************************************************)
(* Proofs about TaskTree, for every set of tasks: type correctness, the    *)
(* bottom-up end of a tree, the reach of a cancellation, the absence of    *)
(* lost wakeups while a parent accepts children, an end that is final, and *)
(* a tree that implements Nursery.  And about Shell, the tasks that run a  *)
(* command, for every number of shells and threads: an end that is whole   *)
(* unless its reader broke off.  The two share no state.                   *)
(***************************************************************************)
EXTENDS TaskTree, Shell, FiniteSetTheorems, TLAPS

\* What ties the coroutine's suspension point to the record's status, and a child to a
\* parent that has started: the facts the three invariants rest on.
Shape ==
  \A t \in Tasks :
    /\ Active(t) <=> point[t] \in {"new", "body", "agent_wait", "unwinding", "tree_wait"}
    /\ status[t] = "absent" <=> point[t] = "none"
    /\ status[t] = "absent" => parent[t] = NoTask
    /\ parent[t] # NoTask => point[parent[t]] \notin {"none", "new"} /\ parent[t] # t

\* Parents never form a cycle: every set of tasks has a member whose parent is outside.
Grounded == \A S \in SUBSET Tasks : S # {} => \E x \in S : parent[x] \notin S

IInv == TypeOK /\ Shape /\ Grounded /\ TreeEndsBottomUp /\ CancelReachesSubtree /\ WakeupNotLost

\* The cascade of t holds t.
LEMMA CascadeHoldsRoot == ASSUME NEW t \in Tasks PROVE t \in Cascade(t)
  BY DEF Cascade

\* A cascade is closed under active children.
LEMMA CascadeClosed ==
  ASSUME NEW t \in Tasks, NEW a \in Cascade(t), NEW c \in ActiveChildren(a)
  PROVE  c \in Cascade(t)
  <1>1. c \in Tasks
    BY DEF ActiveChildren
  <1>2. ASSUME NEW S \in SUBSET Tasks, t \in S, \A x \in S : ActiveChildren(x) \subseteq S
        PROVE  c \in S
    BY <1>2 DEF Cascade
  <1> QED
    BY <1>1, <1>2 DEF Cascade

\* Below its root a cascade holds active records only.
LEMMA CascadeActive ==
  ASSUME NEW t \in Tasks, NEW d \in Cascade(t), d # t
  PROVE  Active(d)
  <1> DEFINE S == {t} \cup {x \in Tasks : Active(x)}
  <1>1. S \in SUBSET Tasks /\ t \in S
    OBVIOUS
  <1>2. \A x \in S : ActiveChildren(x) \subseteq S
    BY DEF ActiveChildren
  <1>3. d \in S
    BY <1>1, <1>2 DEF Cascade
  <1> QED
    BY <1>3

\* Without active children the cascade is its root alone.
LEMMA CascadeAlone ==
  ASSUME NEW t \in Tasks, ActiveChildren(t) = {}
  PROVE  Cascade(t) = {t}
  <1>1. \A d \in Cascade(t) : d \in {t}
    <2> TAKE d \in Cascade(t)
    <2>1. {t} \in SUBSET Tasks /\ \A x \in {t} : ActiveChildren(x) \subseteq {t}
      OBVIOUS
    <2> QED
      BY <2>1 DEF Cascade
  <1> QED
    BY <1>1, CascadeHoldsRoot

\* Below its root every member of a cascade has its parent there too.
LEMMA CascadeParent ==
  ASSUME NEW t \in Tasks, NEW d \in Cascade(t), d # t
  PROVE  parent[d] \in Cascade(t)
  <1> SUFFICES ASSUME parent[d] \notin Cascade(t) PROVE FALSE
    OBVIOUS
  <1> DEFINE S == Cascade(t) \ {d}
  <1>1. S \in SUBSET Tasks /\ t \in S
    BY CascadeHoldsRoot DEF Cascade
  <1>2. ASSUME NEW a \in S, NEW c \in ActiveChildren(a) PROVE c \in S
    <2>1. c \in Cascade(t)
      BY CascadeClosed
    <2>2. parent[c] = a
      BY DEF ActiveChildren
    <2> QED
      BY <2>1, <2>2
  <1>3. d \in S
    BY <1>1, <1>2 DEF Cascade
  <1> QED
    BY <1>3

\* A record is never below itself.
LEMMA CascadeNotAboveRoot ==
  ASSUME NEW t \in Tasks, Grounded
  PROVE  parent[t] \notin Cascade(t)
  <1> SUFFICES ASSUME parent[t] \in Cascade(t) PROVE FALSE
    OBVIOUS
  <1>1. \A x \in Cascade(t) : parent[x] \in Cascade(t)
    BY CascadeParent
  <1>2. Cascade(t) \in SUBSET Tasks /\ Cascade(t) # {}
    BY CascadeHoldsRoot DEF Cascade
  <1> QED
    BY <1>1, <1>2 DEF Grounded

\* A cascade visits records only.
LEMMA CascadeInTasks == ASSUME NEW t \in Tasks PROVE Cascade(t) \subseteq Tasks
  BY DEF Cascade

-----------------------------------------------------------------------------

\* _finish keeps the types of all it writes (accepting is its caller's).
LEMMA FinishTypeOK ==
  ASSUME NEW t \in Tasks, NEW final \in Ends, TypeOK, Finish(t, final)
  PROVE  /\ parent' \in [Tasks -> Tasks \cup {NoTask}]
         /\ status' \in [Tasks -> Statuses]
         /\ point' \in [Tasks -> Points]
         /\ outcome' \in [Tasks -> Ends]
         /\ cancelRequested' \in [Tasks -> BOOLEAN]
         /\ asyncCancel' \in [Tasks -> BOOLEAN]
         /\ treeChanged' \in [Tasks -> BOOLEAN]
         /\ notices' \in [Tasks -> SUBSET Tasks]
         /\ delivery' \in [Tasks -> {"pending", "delivered", "skipped"}]
  <1>1. FinalStatus(t, final) \in Statuses
    BY DEF FinalStatus, Statuses, Ends
  <1>2. SettledDelivery(t) \in {"pending", "delivered", "skipped"}
    BY DEF SettledDelivery, TypeOK
  <1>3. \A x \in Tasks : EventAfterEndOf(t, x) \in BOOLEAN
    BY DEF EventAfterEndOf, TypeOK, Informs
  <1> QED
    BY <1>1, <1>2, <1>3 DEF Finish, TypeOK, Points

\* So does the tail of _run, whether the record ends or waits.
LEMMA LeaveTypeOK ==
  ASSUME NEW t \in Tasks, NEW final \in Ends, TypeOK, Leave(t, final)
  PROVE  TypeOK'
  <1>1. accepting' \in [Tasks -> BOOLEAN]
    BY DEF Leave, TypeOK
  <1>2. CASE Finish(t, final)
    BY <1>1, <1>2, FinishTypeOK DEF TypeOK
  <1>3. ASSUME NEW hit, AwaitChildren(t, hit), outcome' = [outcome EXCEPT ![t] = final]
        PROVE  TypeOK'
    BY <1>1, <1>3 DEF AwaitChildren, MarkCancelled, TypeOK, Statuses, Points, Ends
  <1> QED
    BY <1>2, <1>3 DEF Leave

\* So does cancel, whichever records it starts from.
LEMMA CancelFromTypeOK ==
  ASSUME NEW roots \in SUBSET Tasks, NEW skip \in BOOLEAN, TypeOK, CancelFrom(roots, skip)
  PROVE  TypeOK'
  BY DEF CancelFrom, MarkCancelled, TypeOK

\* Every step of the registry and the scheduler keeps the types.
LEMMA TypeStep == TypeOK /\ [Next]_vars => TypeOK'
  <1> SUFFICES ASSUME TypeOK, [Next]_vars PROVE TypeOK'
    OBVIOUS
  <1>1. ASSUME NEW t \in Tasks, NEW p \in Tasks \cup {NoTask}, Submit(t, p) PROVE TypeOK'
    BY <1>1 DEF Submit, TypeOK, Statuses, Points
  <1>2. ASSUME NEW t \in Tasks, Start(t) PROVE TypeOK'
    BY <1>2 DEF Start, TypeOK, Points
  <1>3. ASSUME NEW t \in Tasks, Return(t) PROVE TypeOK'
    BY <1>3, LeaveTypeOK DEF Return, Ends
  <1>4. ASSUME NEW t \in Tasks, Fail(t) PROVE TypeOK'
    BY <1>4, LeaveTypeOK DEF Fail, Ends
  <1>5. ASSUME NEW t \in Tasks, CancelArrives(t) PROVE TypeOK'
    BY <1>5 DEF CancelArrives, TypeOK, Points
  <1>6. ASSUME NEW t \in Tasks, Unwound(t) PROVE TypeOK'
    BY <1>6, LeaveTypeOK DEF Unwound, Ends
  <1>7. ASSUME NEW t \in Tasks, CancelledBeforeStart(t) PROVE TypeOK'
    <2>1. "cancelled" \in Ends
      BY DEF Ends
    <2> QED
      BY <1>7, <2>1, FinishTypeOK DEF CancelledBeforeStart, TypeOK
  <1>8. ASSUME NEW t \in Tasks, AgentReads(t) PROVE TypeOK'
    BY <1>8 DEF AgentReads, TypeOK
  <1>9. ASSUME NEW t \in Tasks, AgentWaits(t) PROVE TypeOK'
    BY <1>9 DEF AgentWaits, TypeOK, Statuses, Points
  <1>10. ASSUME NEW t \in Tasks, AgentResumes(t) PROVE TypeOK'
    <2>1. CASE Leave(t, "done")
      BY <2>1, LeaveTypeOK DEF Ends
    <2>2. CASE ~Leave(t, "done")
      BY <2>2, <1>10 DEF AgentResumes, TypeOK, Statuses, Points
    <2> QED
      BY <2>1, <2>2
  <1>11. ASSUME NEW t \in Tasks, TreeResumes(t) PROVE TypeOK'
    <2>1. outcome[t] \in Ends
      BY DEF TypeOK
    <2>2. CASE Finish(t, outcome[t]) /\ UNCHANGED accepting
      BY <2>1, <2>2, FinishTypeOK DEF TypeOK
    <2>3. CASE ~(Finish(t, outcome[t]) /\ UNCHANGED accepting)
      BY <2>3, <1>11 DEF TreeResumes, TypeOK
    <2> QED
      BY <2>2, <2>3
  <1>12. ASSUME NEW t \in Tasks, Cancel(t) PROVE TypeOK'
    BY <1>12, CancelFromTypeOK DEF Cancel
  <1>13. CASE CancelAll
    BY <1>13, CancelFromTypeOK DEF CancelAll
  <1>14. CASE UNCHANGED vars
    BY <1>14 DEF vars, TypeOK
  <1> QED
    BY <1>1, <1>2, <1>3, <1>4, <1>5, <1>6, <1>7, <1>8, <1>9, <1>10, <1>11, <1>12,
       <1>13, <1>14 DEF Next

\* The records of the task tree keep their shape through every step of the scheduler.
THEOREM TaskTreeTypes == Spec => []TypeOK
  <1>1. Init => TypeOK
    BY TaskAssumption DEF Init, TypeOK, Statuses, Points, Ends
  <1> QED
    BY <1>1, TypeStep, PTL DEF Spec

-----------------------------------------------------------------------------

\* A record's end preserves the invariant, from any suspension point of an active record
\* that has no active children left.
LEMMA FinishPreserves ==
  ASSUME NEW t \in Tasks, NEW final \in Ends, IInv, TypeOK', Active(t),
         ActiveChildren(t) = {}, Finish(t, final),
         \A x \in Tasks : accepting'[x] => accepting[x],
         \A x \in Tasks : x # t => accepting'[x] = accepting[x]
  PROVE  IInv'
  <1> USE DEF IInv
  <1>1. FinalStatus(t, final) \in Ends
    BY DEF FinalStatus, Ends
  <1>2. \A x \in Tasks : x # t => status'[x] = status[x] /\ point'[x] = point[x]
    BY DEF Finish, TypeOK
  <1>3. status'[t] \in Ends /\ point'[t] = "over" /\ parent' = parent
    BY <1>1 DEF Finish, TypeOK
  <1>4. Shape'
    BY <1>2, <1>3 DEF Shape, TypeOK, Active, Ends
  <1>5. TreeEndsBottomUp'
    BY <1>2, <1>3 DEF TreeEndsBottomUp, TypeOK, Active, Ends, ActiveChildren
  <1>6. CancelReachesSubtree'
    <2> SUFFICES ASSUME NEW c \in Tasks, Active(c)', parent[c] # NoTask,
                        ~accepting'[parent[c]]
                 PROVE  cancelRequested'[c] /\ ~accepting'[c]
      BY <1>3 DEF CancelReachesSubtree
    <2>1. c # t /\ Active(c)
      BY <1>2, <1>3 DEF Active, Ends
    <2>2. parent[c] # t
      BY <2>1 DEF ActiveChildren
    <2>3. parent[c] \in Tasks
      BY DEF TypeOK
    <2> QED
      BY <2>1, <2>2, <2>3 DEF CancelReachesSubtree, Finish
  <1>7. WakeupNotLost'
    <2> SUFFICES ASSUME NEW w \in Tasks, point'[w] \in {"tree_wait", "agent_wait"},
                        accepting'[w], ActiveChildren(w)' = {}
                 PROVE  treeChanged'[w]
      BY DEF WakeupNotLost
    <2>1. w # t /\ point[w] = point'[w] /\ accepting[w]
      BY <1>2, <1>3
    <2>2. treeChanged'[w] = EventAfterEndOf(t, w)
      BY DEF Finish, TypeOK
    <2>3. CASE parent[t] = w
      <3>1. Active(w)
        BY <2>1 DEF Shape
      <3> QED
        BY <2>1, <2>2, <2>3, <3>1, TaskAssumption DEF EventAfterEndOf, Informs
    <2>4. CASE parent[t] # w
      <3>1. ActiveChildren(w) = ActiveChildren(w)'
        BY <1>2, <1>3, <2>4 DEF ActiveChildren, Active
      <3> QED
        BY <2>1, <2>2, <3>1 DEF WakeupNotLost, EventAfterEndOf
    <2> QED
      BY <2>3, <2>4
  <1>8. Grounded'
    BY <1>3 DEF Grounded
  <1> QED
    BY <1>4, <1>5, <1>6, <1>7, <1>8

\* A body that leaves preserves it: the record ends, or closes over its cancelled subtree
\* and waits.
LEMMA LeavePreserves ==
  ASSUME NEW t \in Tasks, NEW final \in Ends, IInv, TypeOK', Active(t), Leave(t, final)
  PROVE  IInv'
  <1> USE DEF IInv
  <1> DEFINE hit == IF final = "done" THEN {} ELSE Cascade(t)
  <1>1. accepting' = [x \in Tasks |-> accepting[x] /\ x \notin hit]
    BY DEF Leave
  <1>2. CASE ActiveChildren(t) = {}
    <2>1. Finish(t, final)
      BY <1>2 DEF Leave
    <2>2. hit \subseteq {t}
      BY <1>2, CascadeAlone
    <2>3. /\ \A x \in Tasks : accepting'[x] => accepting[x]
          /\ \A x \in Tasks : x # t => accepting'[x] = accepting[x]
      BY <1>1, <2>2 DEF TypeOK
    <2> QED
      BY <1>2, <2>1, <2>3, FinishPreserves
  <1>3. CASE ActiveChildren(t) # {}
    <2>1. AwaitChildren(t, hit \ {t})
      BY <1>3 DEF Leave
    <2>2. /\ parent' = parent
          /\ \A x \in Tasks : x # t => status'[x] = status[x] /\ point'[x] = point[x]
          /\ status'[t] = "waiting_children" /\ point'[t] = "tree_wait"
      BY <2>1 DEF AwaitChildren, TypeOK
    <2>3. \A x \in Tasks : Active(x)' <=> Active(x)
      BY <2>2 DEF Active
    <2>4. \A x \in Tasks : ActiveChildren(x)' = ActiveChildren(x)
      BY <2>2, <2>3 DEF ActiveChildren
    <2>5. \A x \in Tasks : cancelRequested'[x] <=> cancelRequested[x] \/ x \in hit \ {t}
      BY <2>1 DEF AwaitChildren, MarkCancelled
    <2>6. Shape'
      BY <2>2, <2>3 DEF Shape, TypeOK, Active
    <2>7. TreeEndsBottomUp'
      BY <2>2, <2>3 DEF TreeEndsBottomUp, TypeOK
    <2>8. CancelReachesSubtree'
      <3> SUFFICES ASSUME NEW c \in Tasks, Active(c), parent[c] # NoTask,
                          ~accepting'[parent[c]]
                   PROVE  cancelRequested'[c] /\ ~accepting'[c]
        BY <2>2, <2>3 DEF CancelReachesSubtree
      <3>1. parent[c] \in Tasks /\ parent[c] # c
        BY DEF TypeOK, Shape
      <3>2. CASE ~accepting[parent[c]]
        BY <1>1, <2>5, <3>1, <3>2 DEF CancelReachesSubtree
      <3>3. CASE parent[c] \in hit
        <4>1. c \in ActiveChildren(parent[c])
          BY DEF ActiveChildren
        <4>2. c \in hit
          BY <3>3, <4>1, CascadeClosed
        <4>3. c # t
          BY <3>3, CascadeNotAboveRoot
        <4> QED
          BY <1>1, <2>5, <4>2, <4>3
      <3> QED
        BY <1>1, <3>1, <3>2, <3>3
    <2>9. WakeupNotLost'
      <3>1. \A x \in Tasks : treeChanged[x] /\ x # t => treeChanged'[x]
        BY <2>1 DEF AwaitChildren
      <3> QED
        BY <1>1, <1>3, <2>2, <2>4, <3>1 DEF WakeupNotLost
    <2>10. Grounded'
      BY <2>2 DEF Grounded
    <2> QED
      BY <2>6, <2>7, <2>8, <2>9, <2>10
  <1> QED
    BY <1>2, <1>3

\* A step that ends nothing, adds nothing and cancels nothing preserves it, as long as it
\* suspends nobody without an event or an active child.
LEMMA QuietPreserves ==
  ASSUME IInv, TypeOK', parent' = parent, accepting' = accepting,
         cancelRequested' = cancelRequested, Shape',
         \A x \in Tasks : Active(x)' <=> Active(x),
         \A x \in Tasks : /\ point'[x] \in {"tree_wait", "agent_wait"}
                          /\ accepting[x] /\ ActiveChildren(x) = {}
                          => \/ treeChanged'[x]
                             \/ /\ point[x] \in {"tree_wait", "agent_wait"}
                                /\ treeChanged[x] => treeChanged'[x]
  PROVE  IInv'
  <1> USE DEF IInv
  <1>1. \A x \in Tasks : ActiveChildren(x)' = ActiveChildren(x)
    BY DEF ActiveChildren
  <1>2. Grounded'
    BY DEF Grounded
  <1>3. TreeEndsBottomUp'
    BY DEF TreeEndsBottomUp, TypeOK
  <1>4. CancelReachesSubtree'
    BY DEF CancelReachesSubtree
  <1>5. WakeupNotLost'
    BY <1>1 DEF WakeupNotLost
  <1> QED
    BY <1>2, <1>3, <1>4, <1>5

\* A new record preserves it: its parent is active, accepts children and has started.
LEMMA SubmitPreserves ==
  ASSUME NEW t \in Tasks, NEW p \in Tasks \cup {NoTask}, IInv, TypeOK', Submit(t, p)
  PROVE  IInv'
  <1> USE DEF IInv
  <1>1. /\ status'[t] = "running" /\ point'[t] = "new" /\ parent'[t] = p
        /\ \A x \in Tasks : x # t => /\ status'[x] = status[x] /\ point'[x] = point[x]
                                     /\ parent'[x] = parent[x]
        /\ \A x \in Tasks : Active(x) => Active(x)'
        /\ status[t] = "absent" /\ ~Active(t)
    BY DEF Submit, TypeOK, Active
  <1>2. p # t
    BY <1>1, TaskAssumption DEF Submit
  <1>3. \A x \in Tasks : parent[x] # t
    BY <1>1, TaskAssumption DEF Shape
  <1>4. p # NoTask => p \in Tasks /\ Active(p) /\ accepting[p]
    BY DEF Submit, TakesChildren
  <1>5. Shape'
    <2> SUFFICES ASSUME NEW x \in Tasks
                 PROVE  /\ Active(x)' <=> point'[x] \in {"new", "body", "agent_wait",
                                                         "unwinding", "tree_wait"}
                        /\ status'[x] = "absent" <=> point'[x] = "none"
                        /\ status'[x] = "absent" => parent'[x] = NoTask
                        /\ parent'[x] # NoTask => /\ point'[parent'[x]] \notin {"none", "new"}
                                                  /\ parent'[x] # x
      BY DEF Shape
    <2>1. CASE x = t
      BY <1>1, <1>2, <1>4, <2>1 DEF Shape, Submit, Active
    <2>2. CASE x # t
      <3>1. parent[x] # NoTask => parent[x] \in Tasks /\ parent[x] # t
        BY <1>3 DEF TypeOK
      <3> QED
        BY <1>1, <2>2, <3>1 DEF Shape, Active
    <2> QED
      BY <2>1, <2>2
  <1>6. Grounded'
    <2> SUFFICES ASSUME NEW S \in SUBSET Tasks, S # {}
                 PROVE  \E x \in S : parent'[x] \notin S
      BY DEF Grounded
    <2>1. CASE S = {t}
      BY <2>1, <1>1, <1>2
    <2>2. CASE S # {t}
      <3>1. S \ {t} \in SUBSET Tasks /\ S \ {t} # {}
        BY <2>2
      <3>2. PICK x \in S \ {t} : parent[x] \notin S \ {t}
        BY <3>1 DEF Grounded
      <3> QED
        BY <3>2, <1>1, <1>3
    <2> QED
      BY <2>1, <2>2
  <1>7. TreeEndsBottomUp'
    BY <1>1, <1>3, <1>4 DEF TreeEndsBottomUp, TypeOK, Active
  <1>8. CancelReachesSubtree'
    BY <1>1, <1>3, <1>4, TaskAssumption DEF CancelReachesSubtree, TypeOK, Active, Submit
  <1>9. WakeupNotLost'
    <2> SUFFICES ASSUME NEW w \in Tasks, point'[w] \in {"tree_wait", "agent_wait"},
                        accepting'[w], ActiveChildren(w)' = {}
                 PROVE  treeChanged'[w]
      BY DEF WakeupNotLost
    <2>1. w # t /\ point[w] = point'[w] /\ accepting[w]
      BY <1>1 DEF Submit
    <2>2. ActiveChildren(w) = {}
      BY <1>1, <1>3 DEF ActiveChildren, Active
    <2>3. treeChanged[w]
      BY <2>1, <2>2 DEF WakeupNotLost
    <2> QED
      BY <2>3 DEF Submit
  <1> QED
    BY <1>5, <1>6, <1>7, <1>8, <1>9

\* A cancellation preserves it: the cascade is closed under active children.
LEMMA CancelPreserves ==
  ASSUME NEW roots \in SUBSET Tasks, NEW skip \in BOOLEAN, IInv, TypeOK',
         CancelFrom(roots, skip)
  PROVE  IInv'
  <1> USE DEF IInv
  <1> DEFINE hit == UNION {Cascade(t) : t \in roots}
  <1>1. /\ parent' = parent /\ status' = status /\ point' = point
        /\ \A x \in Tasks : accepting'[x] <=> accepting[x] /\ x \notin hit
        /\ \A x \in Tasks : cancelRequested'[x] <=> cancelRequested[x] \/ x \in hit
        /\ \A x \in Tasks : treeChanged[x] => treeChanged'[x]
    BY DEF CancelFrom, MarkCancelled
  <1>2. \A x \in Tasks : Active(x)' <=> Active(x)
    BY <1>1 DEF Active
  <1>3. \A x \in Tasks : ActiveChildren(x)' = ActiveChildren(x)
    BY <1>1, <1>2 DEF ActiveChildren
  <1>4. Shape' /\ Grounded' /\ TreeEndsBottomUp'
    BY <1>1, <1>2 DEF Shape, Grounded, TreeEndsBottomUp, TypeOK, Active
  <1>5. CancelReachesSubtree'
    <2> SUFFICES ASSUME NEW c \in Tasks, Active(c), parent[c] # NoTask,
                        ~accepting'[parent[c]]
                 PROVE  cancelRequested'[c] /\ ~accepting'[c]
      BY <1>1, <1>2 DEF CancelReachesSubtree
    <2>1. parent[c] \in Tasks
      BY DEF TypeOK
    <2>2. CASE ~accepting[parent[c]]
      BY <1>1, <2>2 DEF CancelReachesSubtree
    <2>3. CASE parent[c] \in hit
      <3>1. PICK r \in roots : parent[c] \in Cascade(r)
        BY <2>3
      <3>2. c \in Cascade(r)
        BY <3>1, CascadeClosed DEF ActiveChildren
      <3> QED
        BY <1>1, <3>2
    <2> QED
      BY <1>1, <2>1, <2>2, <2>3
  <1>6. WakeupNotLost'
    BY <1>1, <1>3 DEF WakeupNotLost
  <1> QED
    BY <1>4, <1>5, <1>6

\* Every step keeps the inductive invariant: one case per action.
LEMMA InvStep == IInv /\ [Next]_vars => IInv'
  <1> SUFFICES ASSUME IInv, [Next]_vars PROVE IInv'
    OBVIOUS
  <1>0. TypeOK /\ TypeOK' /\ Shape
    BY TypeStep DEF IInv
  <1>1. ASSUME NEW t \in Tasks, NEW p \in Tasks \cup {NoTask}, Submit(t, p) PROVE IInv'
    BY <1>0, <1>1, SubmitPreserves
  <1>2. ASSUME NEW t \in Tasks, Start(t) \/ CancelArrives(t) PROVE IInv'
    <2>1. Shape'
      BY <1>0, <1>2 DEF Start, CancelArrives, Shape, TypeOK, Active
    <2>2. \A x \in Tasks : Active(x)' <=> Active(x)
      BY <1>2 DEF Start, CancelArrives, Active
    <2>3. \A x \in Tasks : point'[x] \in {"tree_wait", "agent_wait"} => point[x] = point'[x]
      BY <1>0, <1>2 DEF Start, CancelArrives, TypeOK
    <2> QED
      BY <1>0, <1>2, <2>1, <2>2, <2>3, QuietPreserves DEF Start, CancelArrives
  <1>3. ASSUME NEW t \in Tasks, Return(t) PROVE IInv'
    BY <1>0, <1>3, LeavePreserves DEF Return, Shape, Ends
  <1>4. ASSUME NEW t \in Tasks, Fail(t) PROVE IInv'
    BY <1>0, <1>4, LeavePreserves DEF Fail, Shape, Ends
  <1>6. ASSUME NEW t \in Tasks, Unwound(t) PROVE IInv'
    BY <1>0, <1>6, LeavePreserves DEF Unwound, Shape, Ends
  <1>7. ASSUME NEW t \in Tasks, CancelledBeforeStart(t) PROVE IInv'
    <2>1. Active(t) /\ ActiveChildren(t) = {}
      BY <1>0, <1>7, TaskAssumption DEF CancelledBeforeStart, Shape, ActiveChildren
    <2>2. "cancelled" \in Ends
      BY DEF Ends
    <2> QED
      BY <1>0, <1>7, <2>1, <2>2, FinishPreserves DEF CancelledBeforeStart
  <1>8. ASSUME NEW t \in Tasks, AgentReads(t) PROVE IInv'
    <2>1. Shape' /\ \A x \in Tasks : Active(x)' <=> Active(x)
      BY <1>0, <1>8 DEF AgentReads, Shape, Active
    <2> QED
      BY <1>0, <1>8, <2>1, QuietPreserves DEF AgentReads
  <1>9. ASSUME NEW t \in Tasks, AgentWaits(t) PROVE IInv'
    <2>1. Shape' /\ \A x \in Tasks : Active(x)' <=> Active(x)
      BY <1>0, <1>9 DEF AgentWaits, Shape, TypeOK, Active
    <2>2. \A x \in Tasks : x # t => point'[x] = point[x] /\ treeChanged'[x] = treeChanged[x]
      BY <1>0, <1>9 DEF AgentWaits, TypeOK
    <2> QED
      BY <1>0, <1>9, <2>1, <2>2, QuietPreserves DEF AgentWaits
  <1>10. ASSUME NEW t \in Tasks, AgentResumes(t) PROVE IInv'
    <2>1. CASE Leave(t, "done")
      BY <1>0, <1>10, <2>1, LeavePreserves DEF AgentResumes, Shape, Ends
    <2>2. CASE ~Leave(t, "done")
      <3>1. Shape' /\ \A x \in Tasks : Active(x)' <=> Active(x)
        BY <1>0, <1>10, <2>2 DEF AgentResumes, Shape, TypeOK, Active
      <3>2. \A x \in Tasks : point'[x] \in {"tree_wait", "agent_wait"} => point[x] = point'[x]
        BY <1>0, <1>10, <2>2 DEF AgentResumes, TypeOK
      <3> QED
        BY <1>0, <1>10, <2>2, <3>1, <3>2, QuietPreserves DEF AgentResumes
    <2> QED
      BY <2>1, <2>2
  <1>11. ASSUME NEW t \in Tasks, TreeResumes(t) PROVE IInv'
    <2>1. CASE ActiveChildren(t) = {}
      BY <1>0, <1>11, <2>1, FinishPreserves DEF TreeResumes, Shape, TypeOK
    <2>2. CASE ActiveChildren(t) # {}
      <3>1. Shape' /\ \A x \in Tasks : Active(x)' <=> Active(x)
        BY <1>0, <1>11, <2>2 DEF TreeResumes, Shape, Active
      <3>2. \A x \in Tasks : x # t => treeChanged'[x] = treeChanged[x]
        BY <1>0, <1>11, <2>2 DEF TreeResumes, TypeOK
      <3> QED
        BY <1>0, <1>11, <2>2, <3>1, <3>2, QuietPreserves DEF TreeResumes
    <2> QED
      BY <2>1, <2>2
  <1>12. ASSUME NEW t \in Tasks, Cancel(t) PROVE IInv'
    BY <1>0, <1>12, CancelPreserves DEF Cancel
  <1>13. CASE CancelAll
    BY <1>0, <1>13, CancelPreserves DEF CancelAll
  <1>14. CASE UNCHANGED vars
    BY <1>0, <1>14, QuietPreserves DEF vars, Shape, Active
  <1> QED
    BY <1>1, <1>2, <1>3, <1>4, <1>6, <1>7, <1>8, <1>9, <1>10, <1>11, <1>12, <1>13,
       <1>14 DEF Next

\* Every task ends after its subtree, a cancellation is never outrun by a submission, and
\* a parent that still accepts children is never left asleep above a quiet subtree.
THEOREM TaskTreeInvariant == Spec => []IInv
  <1>1. Init => IInv
    <2> SUFFICES ASSUME Init PROVE IInv
      OBVIOUS
    <2>1. TypeOK
      BY TaskAssumption DEF Init, TypeOK, Statuses, Points, Ends
    <2>2. Shape /\ TreeEndsBottomUp /\ CancelReachesSubtree /\ WakeupNotLost
      BY DEF Init, Shape, TreeEndsBottomUp, CancelReachesSubtree, WakeupNotLost, Active
    <2>3. Grounded
      BY TaskAssumption DEF Init, Grounded
    <2> QED
      BY <2>1, <2>2, <2>3 DEF IInv
  <1> QED
    BY <1>1, InvStep, PTL DEF Spec

\* A terminal record has nothing active below it.
THEOREM TreeEndsBottomUpAlways == Spec => []TreeEndsBottomUp
  BY TaskTreeInvariant, PTL DEF IInv

\* Below a cancelled or failed record everything active is cancelled and closed.
THEOREM CancelReachesSubtreeAlways == Spec => []CancelReachesSubtree
  BY TaskTreeInvariant, PTL DEF IInv

\* No wakeup is lost while the parent accepts children.
THEOREM WakeupNotLostAlways == Spec => []WakeupNotLost
  BY TaskTreeInvariant, PTL DEF IInv
-----------------------------------------------------------------------------

\* A record ends once: its end is never overwritten by a later callback or cancellation,
\* and a record whose cancellation was requested ends cancelled, whatever its body did.
EndsOnce ==
  \A t \in Tasks :
    /\ Terminal(t) => Terminal(t)' /\ status'[t] = status[t]
    /\ ~Terminal(t) /\ Terminal(t)' /\ cancelRequested[t] => status'[t] = "cancelled"

\* The end of an active record changes no other status.
LEMMA FinishEndsOnce ==
  ASSUME NEW t \in Tasks, NEW final \in Ends, TypeOK, Active(t), Finish(t, final)
  PROVE  EndsOnce
  <1>1. /\ status'[t] = FinalStatus(t, final)
        /\ \A x \in Tasks : x # t => status'[x] = status[x]
    BY DEF Finish, TypeOK
  <1>2. ~Terminal(t) /\ cancelRequested[t] => FinalStatus(t, final) = "cancelled"
    BY DEF FinalStatus
  <1>3. ~Terminal(t)
    BY DEF Active, Terminal, Ends
  <1> QED
    BY <1>1, <1>2, <1>3 DEF EndsOnce, Terminal

\* Nor does a body that leaves.
LEMMA LeaveEndsOnce ==
  ASSUME NEW t \in Tasks, NEW final \in Ends, TypeOK, Active(t), Leave(t, final)
  PROVE  EndsOnce
  <1>1. CASE Finish(t, final)
    BY <1>1, FinishEndsOnce
  <1>2. ASSUME NEW hit, AwaitChildren(t, hit) PROVE EndsOnce
    <2>1. /\ status'[t] = "waiting_children" /\ ~Terminal(t)
          /\ \A x \in Tasks : x # t => status'[x] = status[x]
      BY <1>2 DEF AwaitChildren, TypeOK, Active, Terminal, Ends
    <2> QED
      BY <2>1 DEF EndsOnce, Terminal, Ends
  <1> QED
    BY <1>1, <1>2 DEF Leave

\* Every step of the scheduler: only a record that is active can end.
LEMMA EndsOnceStep == IInv /\ [Next]_vars => EndsOnce
  <1> SUFFICES ASSUME TypeOK, Shape, [Next]_vars PROVE EndsOnce
    BY DEF IInv
  <1>1. ASSUME NEW t \in Tasks, NEW p \in Tasks \cup {NoTask}, Submit(t, p) PROVE EndsOnce
    <2>1. /\ status[t] = "absent" /\ status'[t] = "running"
          /\ \A x \in Tasks : x # t => status'[x] = status[x]
      BY <1>1 DEF Submit, TypeOK
    <2> QED
      BY <2>1 DEF EndsOnce, Terminal, Ends
  <1>2. ASSUME NEW t \in Tasks, Start(t) \/ CancelArrives(t) \/ AgentReads(t) PROVE EndsOnce
    BY <1>2 DEF Start, CancelArrives, AgentReads, EndsOnce, Terminal
  <1>3. ASSUME NEW t \in Tasks, Return(t) \/ Fail(t) \/ Unwound(t) PROVE EndsOnce
    BY <1>3, LeaveEndsOnce DEF Return, Fail, Unwound, Shape, Ends
  <1>4. ASSUME NEW t \in Tasks, CancelledBeforeStart(t) PROVE EndsOnce
    BY <1>4, FinishEndsOnce DEF CancelledBeforeStart, Shape, Ends
  <1>5. ASSUME NEW t \in Tasks, AgentWaits(t) PROVE EndsOnce
    <2>1. /\ status'[t] = "waiting_children" /\ Active(t)
          /\ \A x \in Tasks : x # t => status'[x] = status[x]
      BY <1>5 DEF AgentWaits, TypeOK, Shape
    <2> QED
      BY <2>1 DEF EndsOnce, Terminal, Ends, Active
  <1>6. ASSUME NEW t \in Tasks, AgentResumes(t) PROVE EndsOnce
    <2>1. Active(t)
      BY <1>6 DEF AgentResumes, Shape
    <2>2. CASE Leave(t, "done")
      BY <2>1, <2>2, LeaveEndsOnce DEF Ends
    <2>3. CASE ~Leave(t, "done")
      <3>1. /\ status'[t] = "running"
            /\ \A x \in Tasks : x # t => status'[x] = status[x]
        BY <1>6, <2>3 DEF AgentResumes, TypeOK
      <3> QED
        BY <2>1, <3>1 DEF EndsOnce, Terminal, Ends, Active
    <2> QED
      BY <2>2, <2>3
  <1>7. ASSUME NEW t \in Tasks, TreeResumes(t) PROVE EndsOnce
    <2>1. outcome[t] \in Ends /\ Active(t)
      BY <1>7 DEF TypeOK, TreeResumes, Shape
    <2>2. CASE Finish(t, outcome[t])
      BY <2>1, <2>2, FinishEndsOnce
    <2>3. CASE ~Finish(t, outcome[t])
      BY <1>7, <2>3 DEF TreeResumes, EndsOnce, Terminal
    <2> QED
      BY <2>2, <2>3
  <1>8. ASSUME NEW t \in Tasks, Cancel(t) PROVE EndsOnce
    BY <1>8 DEF Cancel, CancelFrom, EndsOnce, Terminal
  <1>9. CASE CancelAll
    BY <1>9 DEF CancelAll, CancelFrom, EndsOnce, Terminal
  <1>10. CASE UNCHANGED vars
    BY <1>10 DEF vars, EndsOnce, Terminal
  <1> QED
    BY <1>1, <1>2, <1>3, <1>4, <1>5, <1>6, <1>7, <1>8, <1>9, <1>10 DEF Next

\* The end of a record is final, and a requested cancellation decides it.
THEOREM EndIsFinal == Spec => [][EndsOnce]_vars
  BY TaskTreeInvariant, EndsOnceStep, PTL DEF Spec

-----------------------------------------------------------------------------
(* Why a task is closed.                                                   *)

\* Why a record no longer takes children, and what its outcome is if it waits: it was
\* cancelled, or its body failed.  A cancellation in flight was requested.
ClosedHow ==
  \A t \in Tasks :
    /\ cancelRequested[t] => ~accepting[t]
    /\ asyncCancel[t] \/ point[t] = "unwinding" => cancelRequested[t]
    /\ point[t] = "tree_wait" /\ ~cancelRequested[t]
         => outcome[t] = IF accepting[t] THEN "done" ELSE "failed"
    /\ Active(t) /\ ~accepting[t] /\ ~cancelRequested[t] => point[t] = "tree_wait"
    /\ status[t] = "absent" => accepting[t]

\* The end of a record touches no flag of a record that is not over.
LEMMA FinishClosedHow ==
  ASSUME NEW t \in Tasks, NEW final \in Ends, TypeOK, ClosedHow, Finish(t, final),
         \A x \in Tasks : x # t => accepting'[x] = accepting[x],
         accepting'[t] => accepting[t]
  PROVE  ClosedHow'
  <1>1. /\ status'[t] \in Ends /\ point'[t] = "over"
        /\ \A x \in Tasks : x # t => status'[x] = status[x] /\ point'[x] = point[x]
    BY DEF Finish, TypeOK, FinalStatus, Ends
  <1>2. /\ cancelRequested' = cancelRequested /\ asyncCancel' = asyncCancel
        /\ outcome' = outcome
    BY DEF Finish
  <1> SUFFICES ASSUME NEW x \in Tasks PROVE ClosedHow!(x)'
    BY DEF ClosedHow
  <1>3. CASE x = t
    BY <1>1, <1>2, <1>3 DEF ClosedHow, Active, Ends
  <1>4. CASE x # t
    BY <1>1, <1>2, <1>4 DEF ClosedHow, Active
  <1> QED
    BY <1>3, <1>4

\* A body that leaves: failed or cancelled, it closes its subtree and cancels what is
\* below it.
LEMMA LeaveClosedHow ==
  ASSUME NEW t \in Tasks, NEW final \in Ends, TypeOK, ClosedHow, Active(t), Leave(t, final),
         cancelRequested[t] \/ (final # "cancelled" /\ accepting[t])
  PROVE  ClosedHow'
  <1> DEFINE hit == IF final = "done" THEN {} ELSE Cascade(t)
  <1>1. accepting' = [x \in Tasks |-> accepting[x] /\ x \notin hit]
    BY DEF Leave
  <1>2. CASE ActiveChildren(t) = {}
    <2>1. hit \subseteq {t}
      BY <1>2, CascadeAlone
    <2>2. Finish(t, final)
      BY <1>2 DEF Leave
    <2> QED
      BY <1>1, <2>1, <2>2, FinishClosedHow DEF TypeOK
  <1>3. CASE ActiveChildren(t) # {}
    <2>1. AwaitChildren(t, hit \ {t}) /\ outcome' = [outcome EXCEPT ![t] = final]
      BY <1>3 DEF Leave
    <2>2. /\ \A x \in Tasks : x # t => status'[x] = status[x] /\ point'[x] = point[x]
                                        /\ outcome'[x] = outcome[x]
          /\ status'[t] = "waiting_children" /\ point'[t] = "tree_wait" /\ outcome'[t] = final
      BY <2>1 DEF AwaitChildren, TypeOK
    <2>3. \A x \in Tasks : /\ cancelRequested'[x] <=> cancelRequested[x] \/ x \in hit \ {t}
                           /\ asyncCancel'[x] => asyncCancel[x] \/ x \in hit \ {t}
      BY <2>1 DEF AwaitChildren, MarkCancelled
    <2>4. final # "done" => t \in hit
      BY CascadeHoldsRoot
    <2> HIDE DEF hit
    <2> SUFFICES ASSUME NEW x \in Tasks PROVE ClosedHow!(x)'
      BY DEF ClosedHow
    <2>5. CASE x = t
      <3>1. final = "done" => hit = {}
        BY DEF hit
      <3> QED
        BY <1>1, <2>2, <2>3, <2>4, <2>5, <3>1 DEF ClosedHow, Ends
    <2>6. CASE x # t
      <3>1. Active(x)' <=> Active(x)
        BY <2>2, <2>6 DEF Active
      <3>2. x \in hit => Active(x)
        BY <2>6, CascadeActive DEF hit
      <3> QED
        BY <1>1, <2>2, <2>3, <2>6, <3>1, <3>2 DEF ClosedHow, Active
    <2> QED
      BY <2>5, <2>6
  <1> QED
    BY <1>2, <1>3

\* A cascade cancels and closes the same records, none of them absent.
LEMMA CancelClosedHow ==
  ASSUME NEW roots \in SUBSET Tasks, NEW skip \in BOOLEAN, TypeOK, ClosedHow,
         \A t \in roots : status[t] # "absent", CancelFrom(roots, skip)
  PROVE  ClosedHow'
  <1> DEFINE hit == UNION {Cascade(t) : t \in roots}
  <1>1. /\ accepting' = [x \in Tasks |-> accepting[x] /\ x \notin hit]
        /\ cancelRequested' = [x \in Tasks |-> cancelRequested[x] \/ x \in hit]
        /\ \A x \in Tasks : asyncCancel'[x] => asyncCancel[x] \/ x \in hit
        /\ status' = status /\ point' = point /\ outcome' = outcome
    BY DEF CancelFrom, MarkCancelled
  <1>2. \A x \in hit : status[x] # "absent"
    <2> SUFFICES ASSUME NEW t \in roots, NEW x \in Cascade(t) PROVE status[x] # "absent"
      OBVIOUS
    <2> QED
      BY CascadeActive DEF Active
  <1> HIDE DEF hit
  <1> QED
    BY <1>1, <1>2 DEF ClosedHow, Active

\* Every step of the scheduler keeps it.
LEMMA ClosedHowStep == IInv /\ ClosedHow /\ [Next]_vars => ClosedHow'
  <1> SUFFICES ASSUME TypeOK, Shape, ClosedHow, [Next]_vars PROVE ClosedHow'
    BY DEF IInv
  <1>1. ASSUME NEW t \in Tasks, NEW p \in Tasks \cup {NoTask}, Submit(t, p) PROVE ClosedHow'
    <2>1. /\ status[t] = "absent" /\ point'[t] = "new"
          /\ \A x \in Tasks : x # t => status'[x] = status[x] /\ point'[x] = point[x]
          /\ UNCHANGED <<outcome, accepting, cancelRequested, asyncCancel>>
          /\ accepting[t] /\ status'[t] = "running"
      BY <1>1 DEF Submit, TypeOK, ClosedHow
    <2> QED
      BY <2>1 DEF ClosedHow, Active
  <1>2. ASSUME NEW t \in Tasks, Start(t) \/ AgentWaits(t) PROVE ClosedHow'
    <2>1. /\ point[t] \in {"new", "body"} /\ ~asyncCancel[t]
          /\ point'[t] \in {"body", "agent_wait"} /\ status'[t] # "absent"
          /\ \A x \in Tasks : x # t => status'[x] = status[x] /\ point'[x] = point[x]
          /\ UNCHANGED <<outcome, accepting, cancelRequested, asyncCancel>>
      BY <1>2 DEF Start, AgentWaits, TypeOK, Shape
    <2>2. Active(t)
      BY <2>1 DEF Shape
    <2> QED
      BY <2>1, <2>2 DEF ClosedHow, Active
  <1>3. ASSUME NEW t \in Tasks, CancelArrives(t) PROVE ClosedHow'
    <2>1. /\ asyncCancel[t] /\ point'[t] = "unwinding" /\ status' = status
          /\ \A x \in Tasks : x # t => point'[x] = point[x]
          /\ UNCHANGED <<outcome, accepting, cancelRequested, asyncCancel>>
      BY <1>3 DEF CancelArrives, TypeOK
    <2> QED
      BY <2>1 DEF ClosedHow, Active
  <1>4. ASSUME NEW t \in Tasks, AgentReads(t) PROVE ClosedHow'
    BY <1>4 DEF AgentReads, ClosedHow, Active
  <1>5. ASSUME NEW t \in Tasks, Return(t) \/ Fail(t) \/ Unwound(t) PROVE ClosedHow'
    <2>1. Active(t)
      BY <1>5 DEF Return, Fail, Unwound, Shape
    <2>2. cancelRequested[t] \/ accepting[t]
      BY <1>5, <2>1 DEF Return, Fail, Unwound, ClosedHow
    <2>3. CASE Return(t)
      BY <2>1, <2>2, <2>3, LeaveClosedHow DEF Return, Ends
    <2>4. CASE Fail(t)
      BY <2>1, <2>2, <2>4, LeaveClosedHow DEF Fail, Ends
    <2>5. CASE Unwound(t)
      BY <2>1, <2>5, LeaveClosedHow DEF Unwound, Ends, ClosedHow
    <2> QED
      BY <1>5, <2>3, <2>4, <2>5
  <1>6. ASSUME NEW t \in Tasks, CancelledBeforeStart(t) PROVE ClosedHow'
    BY <1>6, FinishClosedHow DEF CancelledBeforeStart, Ends
  <1>7. ASSUME NEW t \in Tasks, AgentResumes(t) PROVE ClosedHow'
    <2>1. Active(t) /\ (cancelRequested[t] \/ accepting[t])
      BY <1>7 DEF AgentResumes, Shape, ClosedHow
    <2>2. CASE Leave(t, "done")
      BY <2>1, <2>2, LeaveClosedHow DEF Ends
    <2>3. CASE ~Leave(t, "done")
      <3>1. /\ status'[t] = "running" /\ point'[t] = "body"
            /\ \A x \in Tasks : x # t => status'[x] = status[x] /\ point'[x] = point[x]
            /\ UNCHANGED <<outcome, accepting, cancelRequested, asyncCancel>>
        BY <1>7, <2>3 DEF AgentResumes, TypeOK
      <3> QED
        BY <2>1, <3>1 DEF ClosedHow, Active
    <2> QED
      BY <2>2, <2>3
  <1>8. ASSUME NEW t \in Tasks, TreeResumes(t) PROVE ClosedHow'
    <2>1. outcome[t] \in Ends
      BY DEF TypeOK
    <2>2. CASE Finish(t, outcome[t]) /\ UNCHANGED accepting
      BY <2>1, <2>2, FinishClosedHow
    <2>3. CASE ~(Finish(t, outcome[t]) /\ UNCHANGED accepting)
      BY <1>8, <2>3 DEF TreeResumes, ClosedHow, Active
    <2> QED
      BY <2>2, <2>3
  <1>9. ASSUME NEW t \in Tasks, Cancel(t) PROVE ClosedHow'
    BY <1>9, CancelClosedHow DEF Cancel
  <1>10. CASE CancelAll
    BY <1>10, CancelClosedHow DEF CancelAll, Active
  <1>11. CASE UNCHANGED vars
    BY <1>11 DEF vars, ClosedHow, Active
  <1> QED
    BY <1>1, <1>2, <1>3, <1>4, <1>5, <1>6, <1>7, <1>8, <1>9, <1>10, <1>11 DEF Next

-----------------------------------------------------------------------------
(* The refinement of Nursery.                                              *)

\* The live tasks of the nursery are the active records, level by level.
LEMMA NurseryViews ==
  ASSUME TypeOK
  PROVE  /\ \A t \in Tasks : Tree!Live(t) <=> Active(t)
         /\ \A t \in Tasks : Tree!Below(t) = ActiveChildren(t)
  <1>1. \A t \in Tasks : Tree!Live(t) <=> Active(t)
    <2> SUFFICES ASSUME NEW t \in Tasks PROVE Tree!Live(t) <=> Active(t)
      OBVIOUS
    <2>1. TreeStage[t] = Stage(t) /\ status[t] \in Statuses
      BY DEF TreeStage, TypeOK
    <2> QED
      BY <2>1 DEF Tree!Live, Stage, Active, Statuses, Ends
  <1> QED
    BY <1>1 DEF Tree!Below, ActiveChildren

\* A step that leaves every stage and every parent alone is a stutter of the nursery.
LEMMA NurseryStutter ==
  ASSUME UNCHANGED parent, \A x \in Tasks : Stage(x)' = Stage(x)
  PROVE  UNCHANGED Tree!nursery
  BY DEF Tree!nursery, TreeStage

\* _finish is the end of one task, with the verdict its stage allows.
LEMMA FinishIsEnd ==
  ASSUME NEW t \in Tasks, NEW final \in Ends, TypeOK, ClosedHow, Active(t),
         ActiveChildren(t) = {}, Finish(t, final),
         \A x \in Tasks : x # t => accepting'[x] = accepting[x],
         cancelRequested[t] \/ final = "failed" \/ (final = "done" /\ accepting[t])
  PROVE  Tree!NurseryNext
  <1> DEFINE how == FinalStatus(t, final)
  <1>1. /\ status' = [status EXCEPT ![t] = how] /\ how \in Ends
        /\ parent' = parent /\ cancelRequested' = cancelRequested
    BY DEF Finish, FinalStatus, Ends
  <1>2. how \in Tree!Verdict[Stage(t)]
    <2>1. CASE cancelRequested[t]
      <3>1. Stage(t) = "cancelling" /\ how = "cancelled"
        BY <2>1 DEF Stage, ClosedHow, FinalStatus
      <3> QED
        BY <3>1 DEF Tree!Verdict
    <2>2. CASE ~cancelRequested[t]
      <3>1. /\ Stage(t) = IF accepting[t] THEN "open" ELSE "failing"
            /\ how = final
        BY <2>2 DEF Stage, FinalStatus
      <3> QED
        BY <2>2, <3>1 DEF Tree!Verdict
    <2> QED
      BY <2>1, <2>2
  <1>3. \A x \in Tasks : Stage(x)' = IF x = t THEN how ELSE Stage(x)
    <2> SUFFICES ASSUME NEW x \in Tasks PROVE Stage(x)' = IF x = t THEN how ELSE Stage(x)
      OBVIOUS
    <2>1. CASE x = t
      BY <1>1, <2>1 DEF Stage, Active, Ends, TypeOK
    <2>2. CASE x # t
      <3>1. status'[x] = status[x]
        BY <1>1, <2>2 DEF TypeOK
      <3> QED
        BY <1>1, <2>2, <3>1 DEF Stage, Active
    <2> QED
      BY <2>1, <2>2
  <1> HIDE DEF how
  <1>4. TreeStage' = [TreeStage EXCEPT ![t] = how]
    BY <1>3 DEF TreeStage
  <1>5. Tree!Live(t) /\ Tree!Below(t) = {}
    BY NurseryViews
  <1>6. how \in Tree!Verdict[TreeStage[t]]
    BY <1>2 DEF TreeStage
  <1>7. Tree!EndTask(t, how)
    BY <1>1, <1>4, <1>5, <1>6 DEF Tree!EndTask
  <1> QED
    BY <1>1, <1>7 DEF Tree!NurseryNext, Ends

\* A cascade from records that are not absent leaves, live, a whole subtree of each.
LEMMA CascadeIsWhole ==
  ASSUME NEW roots \in SUBSET Tasks, TypeOK, \A t \in roots : Active(t)
  PROVE  /\ UNION {Cascade(t) : t \in roots} \in SUBSET Tasks
         /\ Tree!Whole(UNION {Cascade(t) : t \in roots})
  <1> DEFINE S == UNION {Cascade(t) : t \in roots}
  <1>1. S \in SUBSET Tasks
    BY CascadeInTasks
  <1>2. ASSUME NEW m \in S PROVE Tree!Live(m) /\ Tree!Below(m) \subseteq S
    <2>1. PICK t \in roots : m \in Cascade(t)
      OBVIOUS
    <2>2. Active(m) /\ m \in Tasks
      BY <2>1, <1>1, CascadeActive
    <2>3. ActiveChildren(m) \subseteq Cascade(t)
      BY <2>1, CascadeClosed
    <2> QED
      BY <2>2, <2>3, NurseryViews
  <1> QED
    BY <1>1, <1>2 DEF Tree!Whole

\* A cancellation cancels a whole set of live tasks: the records already over among the
\* roots have nothing active below them and do not change.
LEMMA CancelIsCancel ==
  ASSUME NEW roots \in SUBSET Tasks, NEW skip \in BOOLEAN, TypeOK, TreeEndsBottomUp,
         TaskAssumption,
         \A t \in roots : status[t] # "absent", CancelFrom(roots, skip)
  PROVE  Tree!NurseryNext
  <1> DEFINE hit == UNION {Cascade(t) : t \in roots}
             live == {t \in roots : Active(t)}
             S == UNION {Cascade(t) : t \in live}
  <1>1. /\ accepting' = [x \in Tasks |-> accepting[x] /\ x \notin hit]
        /\ cancelRequested' = [x \in Tasks |-> cancelRequested[x] \/ x \in hit]
        /\ status' = status /\ parent' = parent
    BY DEF CancelFrom, MarkCancelled
  <1>2. \A t \in roots : ~Active(t) => Cascade(t) = {t}
    <2> SUFFICES ASSUME NEW t \in roots, ~Active(t) PROVE ActiveChildren(t) = {}
      BY CascadeAlone
    <2> QED
      BY TaskAssumption DEF TreeEndsBottomUp, ActiveChildren
  <1>3. \A x \in Tasks : Active(x) => (x \in hit <=> x \in S)
    BY <1>2
  <1>4. S \in SUBSET Tasks /\ Tree!Whole(S)
    BY CascadeIsWhole
  <1>5. \A x \in S : Active(x)
    BY <1>4, NurseryViews DEF Tree!Whole
  <1> HIDE DEF hit, S
  <1>6. \A x \in Tasks : Stage(x)' = IF x \in S THEN "cancelling" ELSE Stage(x)
    <2> SUFFICES ASSUME NEW x \in Tasks
                 PROVE  Stage(x)' = IF x \in S THEN "cancelling" ELSE Stage(x)
      OBVIOUS
    <2>1. (Active(x)' <=> Active(x)) /\ status'[x] = status[x]
      BY <1>1 DEF Active
    <2>2. CASE x \in S
      BY <1>1, <1>3, <1>5, <2>1, <2>2 DEF Stage
    <2>3. CASE x \notin S
      <3>1. CASE Active(x)
        <4>1. x \notin hit
          BY <1>3, <2>3, <3>1
        <4>2. /\ accepting'[x] <=> accepting[x]
              /\ cancelRequested'[x] <=> cancelRequested[x]
          BY <1>1, <4>1
        <4> QED
          BY <2>1, <2>3, <3>1, <4>2 DEF Stage
      <3>2. CASE ~Active(x)
        BY <2>1, <2>3, <3>2 DEF Stage
      <3> QED
        BY <3>1, <3>2
    <2> QED
      BY <2>2, <2>3
  <1>7. TreeStage' = [x \in Tasks |-> IF x \in S THEN "cancelling" ELSE TreeStage[x]]
    BY <1>6 DEF TreeStage
  <1>8. Tree!CancelAllOf(S)
    BY <1>1, <1>4, <1>7 DEF Tree!CancelAllOf
  <1> QED
    BY <1>4, <1>8 DEF Tree!NurseryNext

\* A body that leaves: its record ends, or fails over what is below it, or waits.
LEMMA LeaveIsNursery ==
  ASSUME NEW t \in Tasks, NEW final \in Ends, IInv, ClosedHow, Active(t), Leave(t, final),
         cancelRequested[t] \/ (final # "cancelled" /\ accepting[t])
  PROVE  Tree!NurseryNext \/ UNCHANGED Tree!nursery
  <1> USE DEF IInv
  <1> DEFINE hit == IF final = "done" THEN {} ELSE Cascade(t)
  <1>1. accepting' = [x \in Tasks |-> accepting[x] /\ x \notin hit]
    BY DEF Leave
  <1>2. CASE ActiveChildren(t) = {}
    <2>1. Finish(t, final)
      BY <1>2 DEF Leave
    <2>2. hit \subseteq {t}
      BY <1>2, CascadeAlone
    <2>3. \A x \in Tasks : x # t => accepting'[x] = accepting[x]
      BY <1>1, <2>2 DEF TypeOK
    <2>4. cancelRequested[t] \/ final = "failed" \/ (final = "done" /\ accepting[t])
      BY DEF Ends
    <2> QED
      BY <1>2, <2>1, <2>3, <2>4, FinishIsEnd
  <1>3. CASE ActiveChildren(t) # {}
    <2>1. AwaitChildren(t, hit \ {t})
      BY <1>3 DEF Leave
    <2>2. /\ parent' = parent
          /\ \A x \in Tasks : x # t => status'[x] = status[x]
          /\ status'[t] = "waiting_children"
      BY <2>1 DEF AwaitChildren, TypeOK
    <2>3. \A x \in Tasks : Active(x)' <=> Active(x)
      BY <2>2 DEF Active
    <2>4. \A x \in Tasks : cancelRequested'[x] <=> cancelRequested[x] \/ x \in hit \ {t}
      BY <2>1 DEF AwaitChildren, MarkCancelled
    <2>5. \A x \in Tasks : ~Active(x) => Stage(x)' = Stage(x)
      BY <2>2, <2>3 DEF Stage
    <2>6. CASE final = "done"
      <3>1. hit = {}
        BY <2>6
      <3>2. ASSUME NEW x \in Tasks, Active(x) PROVE Stage(x)' = Stage(x)
        <4>1. /\ accepting'[x] <=> accepting[x]
              /\ cancelRequested'[x] <=> cancelRequested[x]
          BY <1>1, <2>4, <3>1
        <4> QED
          BY <2>3, <3>2, <4>1 DEF Stage
      <3> QED
        BY <2>2, <2>5, <3>2, NurseryStutter
    <2>7. CASE final # "done"
      <3>1. hit = Cascade(t) /\ t \in hit
        BY <2>7, CascadeHoldsRoot
      <3>2. hit \in SUBSET Tasks /\ Tree!Whole(hit) /\ ActiveChildren(t) \subseteq hit
        <4>1. UNION {Cascade(x) : x \in {t}} = Cascade(t)
          OBVIOUS
        <4> QED
          BY <3>1, <4>1, CascadeIsWhole, CascadeClosed
      <3>3. \A x \in hit : Active(x)
        BY <3>2, NurseryViews DEF Tree!Whole
      <3> HIDE DEF hit
      <3>4. ASSUME NEW x \in Tasks, x # t
            PROVE  Stage(x)' = IF x \in hit THEN "cancelling" ELSE Stage(x)
        <4>1. CASE x \in hit
          BY <1>1, <2>3, <2>4, <3>3, <3>4, <4>1 DEF Stage
        <4>2. CASE x \notin hit
          <5>1. /\ accepting'[x] <=> accepting[x]
                /\ cancelRequested'[x] <=> cancelRequested[x]
            BY <1>1, <2>4, <4>2
          <5>2. CASE Active(x)
            BY <2>3, <4>2, <5>1, <5>2 DEF Stage
          <5>3. CASE ~Active(x)
            BY <2>5, <4>2, <5>3
          <5> QED
            BY <5>2, <5>3
        <4> QED
          BY <4>1, <4>2
      <3>5. CASE cancelRequested[t]
        <4>1. Stage(t)' = "cancelling"
          BY <1>1, <2>3, <2>4, <3>1, <3>5 DEF Stage
        <4>2. TreeStage' = [x \in Tasks |-> IF x \in hit THEN "cancelling" ELSE TreeStage[x]]
          BY <3>1, <3>4, <4>1 DEF TreeStage
        <4>3. Tree!CancelAllOf(hit)
          BY <2>2, <3>2, <4>2 DEF Tree!CancelAllOf
        <4> QED
          BY <3>2, <4>3 DEF Tree!NurseryNext
      <3>6. CASE ~cancelRequested[t]
        <4> DEFINE S == hit \ {t}
        <4>1. Stage(t) = "open" /\ Stage(t)' = "failing"
          BY <1>1, <2>3, <2>4, <3>1, <3>6 DEF Stage
        <4>2. TreeStage' = [x \in Tasks |-> IF x = t THEN "failing"
                              ELSE IF x \in S THEN "cancelling" ELSE TreeStage[x]]
          BY <3>4, <4>1 DEF TreeStage
        <4>3. Tree!Below(t) = ActiveChildren(t) /\ t \notin ActiveChildren(t)
          BY NurseryViews, TaskAssumption DEF ActiveChildren, Shape
        <4>4. ASSUME NEW m \in S PROVE Tree!Live(m) /\ Tree!Below(m) \subseteq S
          <5>1. Tree!Live(m) /\ Tree!Below(m) \subseteq hit
            BY <3>2 DEF Tree!Whole
          <5>2. t \notin Tree!Below(m)
            <6>1. parent[t] \notin hit
              BY <3>1, CascadeNotAboveRoot
            <6> QED
              BY <6>1 DEF Tree!Below
          <5> QED
            BY <5>1, <5>2
        <4>5. Tree!FailOver(t, S)
          <5>1. TreeStage[t] = "open"
            BY <4>1 DEF TreeStage
          <5>2. Tree!Whole(S)
            BY <4>4 DEF Tree!Whole
          <5> HIDE DEF S
          <5>3. t \notin S /\ ActiveChildren(t) \subseteq S
            BY <3>2, <4>3 DEF S
          <5> QED
            BY <1>3, <2>2, <4>2, <4>3, <5>1, <5>2, <5>3 DEF Tree!FailOver
        <4> QED
          BY <3>2, <4>5 DEF Tree!NurseryNext
      <3> QED
        BY <3>5, <3>6
    <2> QED
      BY <2>6, <2>7
  <1> QED
    BY <1>2, <1>3

\* Every step of the registry and the scheduler is one step of the nursery, or none.
LEMMA NurseryStep == IInv /\ ClosedHow /\ [Next]_vars => [Tree!NurseryNext]_Tree!nursery
  <1> SUFFICES ASSUME IInv, TypeOK, Shape, ClosedHow, [Next]_vars
               PROVE  Tree!NurseryNext \/ UNCHANGED Tree!nursery
    BY DEF IInv
  <1>1. ASSUME NEW t \in Tasks, NEW p \in Tasks \cup {NoTask}, Submit(t, p)
        PROVE  Tree!NurseryNext
    <2>1. /\ parent' = [parent EXCEPT ![t] = p] /\ status' = [status EXCEPT ![t] = "running"]
          /\ UNCHANGED <<accepting, cancelRequested>> /\ status[t] = "absent"
      BY <1>1 DEF Submit
    <2>2. p # NoTask => p \in Tasks /\ Stage(p) = "open"
      BY <1>1 DEF Submit, TakesChildren, Stage
    <2>3. Stage(t) = "absent" /\ accepting[t]
      BY <2>1 DEF Stage, Active, ClosedHow
    <2>4. \A x \in Tasks : Stage(x)' = IF x = t THEN "open" ELSE Stage(x)
      <3> SUFFICES ASSUME NEW x \in Tasks PROVE Stage(x)' = IF x = t THEN "open" ELSE Stage(x)
        OBVIOUS
      <3>1. status'[x] = IF x = t THEN "running" ELSE status[x]
        BY <2>1 DEF TypeOK
      <3> QED
        BY <2>1, <2>3, <3>1 DEF Stage, Active
    <2>5. TreeStage' = [TreeStage EXCEPT ![t] = "open"]
      BY <2>4 DEF TreeStage
    <2>6. Tree!OpenTask(t, p)
      BY <2>1, <2>2, <2>3, <2>5 DEF Tree!OpenTask, TreeStage
    <2> QED
      BY <2>6 DEF Tree!NurseryNext
  <1>2. ASSUME NEW t \in Tasks, Start(t) \/ CancelArrives(t) \/ AgentReads(t)
        PROVE  UNCHANGED Tree!nursery
    <2>1. UNCHANGED <<parent, status, accepting, cancelRequested>>
      BY <1>2 DEF Start, CancelArrives, AgentReads
    <2> QED
      BY <2>1, NurseryStutter DEF Stage, Active
  <1>3. ASSUME NEW t \in Tasks, Return(t) \/ Fail(t) \/ Unwound(t)
        PROVE  Tree!NurseryNext \/ UNCHANGED Tree!nursery
    <2>1. Active(t)
      BY <1>3 DEF Return, Fail, Unwound, Shape
    <2>2. cancelRequested[t] \/ accepting[t]
      BY <1>3, <2>1 DEF Return, Fail, Unwound, ClosedHow
    <2>3. CASE Return(t)
      BY <2>1, <2>2, <2>3, LeaveIsNursery DEF Return, Ends
    <2>4. CASE Fail(t)
      BY <2>1, <2>2, <2>4, LeaveIsNursery DEF Fail, Ends
    <2>5. CASE Unwound(t)
      BY <2>1, <2>5, LeaveIsNursery DEF Unwound, Ends, ClosedHow
    <2> QED
      BY <1>3, <2>3, <2>4, <2>5
  <1>4. ASSUME NEW t \in Tasks, CancelledBeforeStart(t) PROVE Tree!NurseryNext
    <2>1. /\ Active(t) /\ ActiveChildren(t) = {} /\ cancelRequested[t]
          /\ "cancelled" \in Ends
      BY <1>4, TaskAssumption
         DEF CancelledBeforeStart, Shape, ActiveChildren, ClosedHow, Ends
    <2> QED
      BY <1>4, <2>1, FinishIsEnd DEF CancelledBeforeStart
  <1>5. ASSUME NEW t \in Tasks, AgentWaits(t) PROVE UNCHANGED Tree!nursery
    <2>1. /\ status' = [status EXCEPT ![t] = "waiting_children"] /\ Active(t)
          /\ UNCHANGED <<parent, accepting, cancelRequested>>
      BY <1>5 DEF AgentWaits, Shape
    <2> QED
      BY <2>1, NurseryStutter DEF Stage, Active, TypeOK
  <1>6. ASSUME NEW t \in Tasks, AgentResumes(t)
        PROVE  Tree!NurseryNext \/ UNCHANGED Tree!nursery
    <2>1. Active(t) /\ (cancelRequested[t] \/ accepting[t])
      BY <1>6 DEF AgentResumes, Shape, ClosedHow
    <2>2. CASE Leave(t, "done")
      BY <2>1, <2>2, LeaveIsNursery DEF Ends
    <2>3. CASE ~Leave(t, "done")
      <3>1. /\ status' = [status EXCEPT ![t] = "running"]
            /\ UNCHANGED <<parent, accepting, cancelRequested>>
        BY <1>6, <2>3 DEF AgentResumes
      <3> QED
        BY <2>1, <3>1, NurseryStutter DEF Stage, Active, TypeOK
    <2> QED
      BY <2>2, <2>3
  <1>7. ASSUME NEW t \in Tasks, TreeResumes(t) PROVE Tree!NurseryNext \/ UNCHANGED Tree!nursery
    <2>1. /\ Active(t) /\ outcome[t] \in Ends
          /\ ~cancelRequested[t] => outcome[t] = IF accepting[t] THEN "done" ELSE "failed"
      BY <1>7 DEF TreeResumes, Shape, TypeOK, ClosedHow
    <2>2. CASE ActiveChildren(t) = {}
      <3>1. Finish(t, outcome[t]) /\ UNCHANGED accepting
        BY <1>7, <2>2 DEF TreeResumes
      <3> QED
        BY <2>1, <2>2, <3>1, FinishIsEnd
    <2>3. CASE ActiveChildren(t) # {}
      <3>1. UNCHANGED <<parent, status, accepting, cancelRequested>>
        BY <1>7, <2>3 DEF TreeResumes
      <3> QED
        BY <3>1, NurseryStutter DEF Stage, Active
    <2> QED
      BY <2>2, <2>3
  <1>8. ASSUME NEW t \in Tasks, Cancel(t) PROVE Tree!NurseryNext
    BY <1>8, CancelIsCancel, TaskAssumption DEF Cancel, IInv
  <1>9. ASSUME CancelAll PROVE Tree!NurseryNext
    <2>1. \A t \in {x \in Tasks : Active(x)} : status[t] # "absent"
      BY DEF Active
    <2> QED
      BY <1>9, <2>1, CancelIsCancel, TaskAssumption DEF CancelAll, IInv
  <1>10. ASSUME UNCHANGED vars PROVE UNCHANGED Tree!nursery
    <2>1. UNCHANGED <<parent, status, accepting, cancelRequested>>
      BY <1>10 DEF vars
    <2> QED
      BY <2>1, NurseryStutter DEF Stage, Active
  <1> QED
    BY <1>1, <1>2, <1>3, <1>4, <1>5, <1>6, <1>7, <1>8, <1>9, <1>10 DEF Next

\* The task tree implements structured concurrency, for any set of tasks and subagents.
THEOREM TreeIsNurseryAlways == Spec => TreeIsNursery
  <1>1. Init => ClosedHow
    BY DEF Init, ClosedHow, Active
  <1>2. Init => Tree!NurseryInit
    <2> SUFFICES ASSUME Init PROVE Tree!NurseryInit
      OBVIOUS
    <2>1. \A x \in Tasks : Stage(x) = "absent"
      BY DEF Init, Stage, Active
    <2> QED
      BY <2>1 DEF Tree!NurseryInit, TreeStage, Init
  <1> QED
    BY <1>1, <1>2, TaskTreeInvariant, ClosedHowStep, NurseryStep, PTL
       DEF Spec, TreeIsNursery, Tree!NurserySpec

-----------------------------------------------------------------------------
(* Shell                                                                   *)

\* What is at work for a shell task: a task that has ended has no call of its own left but
\* orphans; a read is given up with the task only; a termination follows a cancellation.
CallsAccounted ==
  \A s \in Shells :
    /\ Ended(s) => \A call \in PtyCallsOf(s) :
                     call \notin toBegin /\ (call \in threads => call \in orphaned)
    /\ <<s, "read">> \in orphaned => Ended(s)
    /\ <<s, "terminate">> \in toBegin \cup threads => cancels[s] # 0

\* What the place a shell task has reached says of its command, its loops and its output.
ShellPlaced ==
  \A s \in Shells :
    /\ shellTask[s] \in {"none", "created"} =>
         command[s] = "none" /\ reader[s] = "none" /\ written[s] = 0
    /\ shellTask[s] = "draining" => command[s] \in {"left", "dead"}
    /\ shellTask[s] \in {"terminating", "reaping"} => cancels[s] # 0
    /\ Ended(s) => writer[s] = "ended"
    /\ unread[s] <= written[s]
    /\ ~Ended(s) => unread[s] + stdout[s] <= written[s]
    /\ ~Ended(s) /\ reader[s] \notin {"broken", "failed"} => written[s] = unread[s] + stdout[s]
    /\ ~Ended(s) /\ reader[s] = "ended" => unread[s] = 0 /\ command[s] = "dead"

\* The inductive invariant.
ShellInv ==
  /\ ShellTypeOK
  /\ IsFiniteSet(threads)
  /\ CallsAccounted
  /\ ShellPlaced
  /\ EndIsWhole

\* The calls of a shell.
LEMMA CallsOfShell ==
  ASSUME NEW s \in Shells
  PROVE  /\ \A k \in {"wait", "read", "write", "terminate", "reap"} :
              <<s, k>> \in PtyCallsOf(s) /\ <<s, k>> \in PtyCalls
         /\ PtyCallsOf(s) \subseteq PtyCalls
         /\ \A q \in Shells : q # s => PtyCallsOf(q) \cap PtyCallsOf(s) = {}
         /\ \A call \in PtyCallsOf(s) : call[1] = s
  BY DEF PtyCallsOf, PtyCalls

\* A call that returns is one thread less, and what it hands over belongs to its shell.
LEMMA ReturnFreesThread ==
  ASSUME ShellTypeOK, IsFiniteSet(threads),
         NEW s \in Shells, NEW call \in {"wait", "read", "write", "terminate", "reap"},
         NEW next \in SUBSET {"wait", "read", "write", "terminate", "reap"},
         Returns(s, call, next)
  PROVE  /\ IsFiniteSet(threads') /\ Cardinality(threads') <= MaxThreads
         /\ toBegin' \subseteq PtyCalls /\ threads' \subseteq PtyCalls /\ orphaned' \subseteq threads'
         /\ \A c \in PtyCalls : c \in toBegin' =>
              c \in toBegin \/ (Heard(s, call) /\ \E k \in next : c = <<s, k>>)
         /\ \A c \in PtyCalls : c \in threads' => c \in threads /\ (c \in orphaned => c \in orphaned')
         /\ \A c \in PtyCalls : c \in orphaned' => c \in orphaned
  <1>0. <<s, call>> \in threads /\ threads' = threads \ {<<s, call>>}
    BY DEF Returns
  <1>1. IsFiniteSet(threads') /\ Cardinality(threads') <= Cardinality(threads)
    <2>1. IsFiniteSet(threads')
      BY <1>0, FS_RemoveElement
    <2>2. Cardinality(threads') = Cardinality(threads) - 1
      BY <1>0, FS_RemoveElement
    <2> QED
      BY <2>1, <2>2, FS_CardinalityType
  <1>2. Cardinality(threads') <= MaxThreads
    BY <1>1, FS_CardinalityType, ShellAssumption DEF ShellTypeOK
  <1>3. toBegin' \subseteq PtyCalls
    <2>1. {s} \X next \subseteq PtyCallsOf(s) /\ PtyCallsOf(s) \subseteq PtyCalls
      BY CallsOfShell DEF PtyCallsOf
    <2>2. toBegin' \subseteq toBegin \cup ({s} \X next)
      BY DEF Returns
    <2> QED
      BY <2>1, <2>2 DEF ShellTypeOK
  <1>4. threads' \subseteq PtyCalls /\ orphaned' \subseteq threads'
    BY DEF Returns, ShellTypeOK
  <1>5. \A c \in PtyCalls : c \in toBegin' =>
          c \in toBegin \/ (Heard(s, call) /\ \E k \in next : c = <<s, k>>)
    <2>1. CASE Heard(s, call)
      <3>1. toBegin' = toBegin \cup ({s} \X next)
        BY <2>1 DEF Returns
      <3>2. \A c \in {s} \X next : \E k \in next : c = <<s, k>>
        <4> TAKE c \in {s} \X next
        <4>1. c[2] \in next /\ c = <<s, c[2]>>
          OBVIOUS
        <4> QED
          BY <4>1
      <3> QED
        BY <2>1, <3>1, <3>2
    <2>2. CASE ~Heard(s, call)
      BY <2>2 DEF Returns
    <2> QED
      BY <2>1, <2>2
  <1> QED
    BY <1>1, <1>2, <1>3, <1>4, <1>5 DEF Returns

\* The invariant holds initially.
LEMMA ShellInitInv == ShellInit => ShellInv
  <1> SUFFICES ASSUME ShellInit PROVE ShellInv
    OBVIOUS
  <1>1. IsFiniteSet(threads) /\ Cardinality(threads) = 0
    BY FS_EmptySet DEF ShellInit
  <1>2. ShellTypeOK
    BY <1>1, ShellAssumption DEF ShellInit, ShellTypeOK, ShellAt
  <1> QED
    BY <1>1, <1>2 DEF ShellInit, ShellInv, CallsAccounted, ShellPlaced, EndIsWhole, Ended

\* Every step keeps the types, and the executor within its threads.
LEMMA ShellTypesStep ==
  ASSUME ShellInv, [ShellNext]_shellVars
  PROVE  ShellTypeOK' /\ IsFiniteSet(threads')
  <1> USE ShellAssumption DEF ShellInv
  <1>1. CASE UNCHANGED shellVars
    BY <1>1 DEF shellVars, ptyVars, callVars, loopVars, ShellTypeOK
  <1>2. ASSUME NEW c \in PtyCalls, ThreadTakes(c)
        PROVE  ShellTypeOK' /\ IsFiniteSet(threads')
    <2>0. threads' = threads \cup {c} /\ Cardinality(threads) < MaxThreads
      BY <1>2 DEF ThreadTakes
    <2>1. IsFiniteSet(threads') /\ Cardinality(threads') <= Cardinality(threads) + 1
      <3>1. IsFiniteSet(threads')
        BY <2>0, FS_AddElement
      <3>2. Cardinality(threads') = Cardinality(threads) \/ Cardinality(threads') = Cardinality(threads) + 1
        BY <2>0, FS_AddElement
      <3> QED
        BY <3>1, <3>2, FS_CardinalityType
    <2>2. Cardinality(threads') <= MaxThreads
      BY <2>0, <2>1, FS_CardinalityType DEF ShellTypeOK
    <2> QED
      BY <1>2, <2>1, <2>2 DEF ThreadTakes, ShellTypeOK, ptyVars, loopVars
  <1>3. ASSUME NEW s \in Shells,
               \/ CommandWrites(s) \/ CommandExits(s) \/ Collected(s)
               \/ SubmitShell(s) \/ WriteStdin(s) \/ SubscribeInput(s) \/ Answer(s)
        PROVE  ShellTypeOK' /\ IsFiniteSet(threads')
    <2>1. CASE CommandWrites(s)
      <3>1. unread[s] < MaxOutput
        <4>1. unread[s] <= written[s] /\ written[s] < MaxOutput
          BY <2>1 DEF CommandWrites, ShellPlaced
        <4> QED
          BY <4>1 DEF ShellTypeOK
      <3> QED
        BY <2>1, <3>1 DEF CommandWrites, ShellTypeOK, callVars, loopVars
    <2>2. CASE CommandExits(s) \/ Collected(s)
      BY <2>2 DEF CommandExits, Collected, ShellTypeOK, callVars, loopVars
    <2>3. CASE SubmitShell(s) \/ WriteStdin(s)
      BY <2>3 DEF SubmitShell, WriteStdin, ShellGoes, ShellTypeOK, ShellAt, ptyVars, callVars, loopVars
    <2>4. CASE SubscribeInput(s) \/ Answer(s)
      BY <2>4 DEF SubscribeInput, Answer, ShellTypeOK, ptyVars, callVars, loopVars
    <2> QED
      BY <1>3, <2>1, <2>2, <2>3, <2>4
  <1>4. ASSUME NEW s \in Shells, SpawnShell(s) \/ Feed(s) \/ Finishes(s) \/ CancelShell(s)
        PROVE  ShellTypeOK' /\ IsFiniteSet(threads')
    <2>1. CASE SpawnShell(s)
      <3>1. toBegin' \subseteq PtyCalls
        <4>1. <<s, "wait">> \in PtyCalls /\ <<s, "read">> \in PtyCalls
          BY CallsOfShell
        <4>2. toBegin' = toBegin \cup {<<s, "wait">>, <<s, "read">>}
          BY <2>1 DEF SpawnShell
        <4> QED
          BY <4>1, <4>2 DEF ShellTypeOK
      <3> QED
        BY <2>1, <3>1 DEF SpawnShell, ShellGoes, ShellTypeOK, ShellAt
    <2>2. CASE Feed(s)
      <3>1. toBegin' \subseteq PtyCalls
        <4>1. <<s, "write">> \in PtyCalls
          BY CallsOfShell
        <4>2. toBegin' = toBegin \cup {<<s, "write">>}
          BY <2>2 DEF Feed
        <4> QED
          BY <4>1, <4>2 DEF ShellTypeOK
      <3> QED
        BY <2>2, <3>1 DEF Feed, ShellTypeOK, ptyVars
    <2>3. CASE Finishes(s)
      BY <2>3 DEF Finishes, StopLoops, Stopped, Abandon, ShellGoes, ShellTypeOK, ShellAt, ptyVars
    <2>4. CASE CancelShell(s)
      <3>1. toBegin' \subseteq PtyCalls /\ orphaned' \subseteq threads /\ threads' = threads
        <4>1. <<s, "terminate">> \in PtyCalls
          BY CallsOfShell
        <4>2. threads' = threads /\ toBegin' \subseteq toBegin \cup {<<s, "terminate">>}
              /\ orphaned' \subseteq orphaned \cup threads
          BY <2>4 DEF CancelShell, StopLoops, Abandon
        <4> QED
          BY <4>1, <4>2 DEF ShellTypeOK
      <3> QED
        BY <2>4, <3>1 DEF CancelShell, StopLoops, Stopped, ShellGoes, ShellTypeOK, ShellAt, ptyVars, loopVars
    <2> QED
      BY <1>4, <2>1, <2>2, <2>3, <2>4
  <1>5. ASSUME NEW s \in Shells, CallReturns(s)
        PROVE  ShellTypeOK' /\ IsFiniteSet(threads')
    <2>1. CASE WaitReturns(s)
      <3>1. Returns(s, "wait", {})
        BY <2>1 DEF WaitReturns
      <3> QED
        BY <2>1, <3>1, ReturnFreesThread
        DEF WaitReturns, ShellGoes, ShellTypeOK, ShellAt, ptyVars, loopVars
    <2>2. CASE TerminateReturns(s)
      <3>1. Returns(s, "terminate", {"reap"})
        BY <2>2 DEF TerminateReturns
      <3>2. IsFiniteSet(threads') /\ Cardinality(threads') <= MaxThreads
            /\ toBegin' \subseteq PtyCalls /\ threads' \subseteq PtyCalls /\ orphaned' \subseteq threads'
        BY <3>1, ReturnFreesThread
      <3> QED
        BY <2>2, <3>2 DEF TerminateReturns, ShellGoes, ShellTypeOK, ShellAt, loopVars
    <2>3. CASE ReapReturns(s)
      <3>1. CASE Returns(s, "reap", {}) /\ UNCHANGED <<shellTask, loopVars>>
        BY <2>3, <3>1, ReturnFreesThread
        DEF ReapReturns, ShellTypeOK, ptyVars, loopVars
      <3>2. CASE /\ threads' = threads \ {<<s, "reap">>}
                 /\ <<s, "reap">> \in threads
                 /\ toBegin' = toBegin \ PtyCallsOf(s)
                 /\ orphaned' = orphaned \cup (threads' \cap PtyCallsOf(s))
                 /\ Heard(s, "reap")
                 /\ ShellGoes(s, "cancelled")
                 /\ reader' = [reader EXCEPT ![s] = Stopped(s)] /\ writer' = [writer EXCEPT ![s] = "ended"]
                 /\ UNCHANGED <<stdout, fed>>
        <4>1. IsFiniteSet(threads') /\ Cardinality(threads') <= Cardinality(threads)
          <5>1. IsFiniteSet(threads')
            BY <3>2, FS_RemoveElement
          <5>2. Cardinality(threads') = Cardinality(threads) - 1
            BY <3>2, FS_RemoveElement
          <5> QED
            BY <5>1, <5>2, FS_CardinalityType
        <4>2. Cardinality(threads') <= MaxThreads
          BY <4>1, FS_CardinalityType DEF ShellTypeOK
        <4>3. orphaned' \subseteq threads'
          BY <3>2 DEF Heard, ShellTypeOK
        <4> QED
          BY <2>3, <3>2, <4>1, <4>2, <4>3 DEF ReapReturns, Stopped, ShellGoes, ShellTypeOK, ShellAt, ptyVars
      <3> QED
        BY <2>3, <3>1, <3>2 DEF ReapReturns
    <2>4. CASE ReadReturns(s)
      <3>1. Returns(s, "read", {"read"})
        BY <2>4 DEF ReadReturns
      <3>2. IsFiniteSet(threads') /\ Cardinality(threads') <= MaxThreads
            /\ toBegin' \subseteq PtyCalls /\ threads' \subseteq PtyCalls /\ orphaned' \subseteq threads'
        BY <3>1, ReturnFreesThread
      <3>3. Heard(s, "read") => ~Ended(s)
        BY <3>1, CallsOfShell DEF Returns, Heard, CallsAccounted
      <3>4. Heard(s, "read") => stdout[s] < MaxOutput
        BY <2>4, <3>3 DEF ReadReturns, ShellPlaced, ShellTypeOK
      <3>5. unread[s] - 1 \in 0..MaxOutput
        BY <2>4 DEF ReadReturns, ShellTypeOK
      <3> QED
        BY <2>4, <3>2, <3>4, <3>5 DEF ReadReturns, ShellTypeOK
    <2>5. CASE ReadEnds(s)
      <3>1. Returns(s, "read", {})
        BY <2>5 DEF ReadEnds
      <3> QED
        BY <2>5, <3>1, ReturnFreesThread DEF ReadEnds, Stopped, ShellTypeOK, ptyVars
    <2>6. CASE WriteReturns(s)
      <3>1. Returns(s, "write", {})
        BY <2>6 DEF WriteReturns
      <3> QED
        BY <2>6, <3>1, ReturnFreesThread DEF WriteReturns, ShellTypeOK, ptyVars
    <2>7. CASE ReadBreaks(s)
      <3>1. Returns(s, "read", {})
        BY <2>7 DEF ReadBreaks
      <3>2. unread[s] - 1 \in 0..MaxOutput
        BY <2>7 DEF ReadBreaks, ShellTypeOK
      <3> QED
        BY <2>7, <3>1, <3>2, ReturnFreesThread DEF ReadBreaks, ShellTypeOK
    <2> QED
      BY <1>5, <2>1, <2>2, <2>3, <2>4, <2>5, <2>6, <2>7 DEF CallReturns
  <1> QED
    BY <1>1, <1>2, <1>3, <1>4, <1>5 DEF ShellNext

\* A call somebody hears of belongs to a task that goes on.
LEMMA HeardGoesOn ==
  ASSUME CallsAccounted, NEW s \in Shells,
         NEW call \in {"wait", "read", "write", "terminate", "reap"},
         <<s, call>> \in threads, Heard(s, call)
  PROVE  ~Ended(s)
  BY CallsOfShell DEF CallsAccounted, Heard

\* A returning call keeps the account of the calls: what the task is told, and the calls
\* that are handed over only while it goes on.
LEMMA ReturnAccounted ==
  ASSUME ShellInv, NEW s \in Shells,
         NEW call \in {"wait", "read", "write", "terminate", "reap"},
         NEW next \in SUBSET {"wait", "read", "write", "reap"},
         Returns(s, call, next),
         \A q \in Shells : q # s => shellTask'[q] = shellTask[q],
         shellTask'[s] = shellTask[s] \/ (Heard(s, call) /\ ~Ended(s)' /\ ~Ended(s)),
         next # {} /\ Heard(s, call) => ~Ended(s)',
         cancels' = cancels
  PROVE  CallsAccounted'
  <1> USE DEF ShellInv
  <1>0. /\ \A c \in PtyCalls : c \in toBegin' =>
              c \in toBegin \/ (Heard(s, call) /\ \E k \in next : c = <<s, k>>)
        /\ \A c \in PtyCalls : c \in threads' => c \in threads /\ (c \in orphaned => c \in orphaned')
        /\ \A c \in PtyCalls : c \in orphaned' => c \in orphaned
    BY ReturnFreesThread DEF ShellTypeOK
  <1> SUFFICES ASSUME NEW q \in Shells
               PROVE  /\ Ended(q)' => \A c \in PtyCallsOf(q) :
                                        c \notin toBegin' /\ (c \in threads' => c \in orphaned')
                      /\ <<q, "read">> \in orphaned' => Ended(q)'
                      /\ <<q, "terminate">> \in toBegin' \cup threads' => cancels'[q] # 0
    BY DEF CallsAccounted, PtyCallsOf
  <1>1. Ended(q)' => Ended(q)
    BY DEF Ended
  <1>2. <<q, "read">> \in orphaned => Ended(q)
    BY DEF CallsAccounted
  <1>3. Ended(q) => \A c \in PtyCallsOf(q) : c \notin toBegin /\ (c \in threads => c \in orphaned)
    BY DEF CallsAccounted
  <1>4. Ended(q) => Ended(q)'
    BY DEF Ended
  <1>5. ASSUME Ended(q)', NEW c \in PtyCallsOf(q)
        PROVE  c \notin toBegin' /\ (c \in threads' => c \in orphaned')
    <2>1. c \in PtyCalls /\ c[1] = q
      BY CallsOfShell
    <2>2. ASSUME Heard(s, call), NEW k \in next, c = <<s, k>> PROVE FALSE
      <3>1. q = s
        BY <2>1, <2>2
      <3> QED
        BY <1>5, <2>2, <3>1
    <2> QED
      BY <1>0, <1>1, <1>3, <1>5, <2>1, <2>2
  <1>6. <<q, "read">> \in orphaned' => Ended(q)'
    BY <1>0, <1>2, <1>4, CallsOfShell
  <1>7. <<q, "terminate">> \in toBegin' \cup threads' => cancels'[q] # 0
    <2>1. <<q, "terminate">> \in PtyCalls
      BY CallsOfShell
    <2>2. \A k \in next : <<s, k>> # <<q, "terminate">>
      OBVIOUS
    <2>3. <<q, "terminate">> \in toBegin \cup threads
            \/ <<q, "terminate">> \notin toBegin' \cup threads'
      BY <1>0, <2>1, <2>2
    <2> QED
      BY <2>3 DEF CallsAccounted
  <1> QED
    BY <1>5, <1>6, <1>7

\* Every step keeps the account of the calls.
LEMMA CallsStep ==
  ASSUME ShellInv, [ShellNext]_shellVars
  PROVE  CallsAccounted'
  <1> USE DEF ShellInv
  <1>1. CASE UNCHANGED shellVars
    BY <1>1 DEF shellVars, ptyVars, callVars, loopVars, CallsAccounted, Ended
  <1>2. ASSUME NEW c \in PtyCalls, ThreadTakes(c) PROVE CallsAccounted'
    BY <1>2 DEF ThreadTakes, CallsAccounted, Ended, ShellTypeOK
  <1>3. ASSUME NEW s \in Shells,
               \/ CommandWrites(s) \/ CommandExits(s) \/ Collected(s)
               \/ WriteStdin(s) \/ SubscribeInput(s) \/ Answer(s)
        PROVE  CallsAccounted'
    <2>1. UNCHANGED <<shellTask, callVars, cancels>>
      BY <1>3 DEF CommandWrites, CommandExits, Collected, WriteStdin, SubscribeInput, Answer
    <2> QED
      BY <2>1 DEF CallsAccounted, Ended, callVars
  <1>4. ASSUME NEW s \in Shells, SubmitShell(s) PROVE CallsAccounted'
    BY <1>4 DEF SubmitShell, ShellGoes, CallsAccounted, Ended, callVars, ShellTypeOK
  <1>5. ASSUME NEW s \in Shells, SpawnShell(s) PROVE CallsAccounted'
    <2>1. \A q \in Shells : Ended(q)' <=> Ended(q)
      BY <1>5 DEF SpawnShell, ShellGoes, Ended, ShellTypeOK
    <2>2. ~Ended(s)
      BY <1>5 DEF SpawnShell, Ended
    <2>3. toBegin' = toBegin \cup {<<s, "wait">>, <<s, "read">>} /\ UNCHANGED <<threads, orphaned, cancels>>
      BY <1>5 DEF SpawnShell
    <2>4. \A q \in Shells : Ended(q) => \A c \in PtyCallsOf(q) : c \notin {<<s, "wait">>, <<s, "read">>}
      BY <2>2, CallsOfShell
    <2>5. \A q \in Shells : <<q, "terminate">> \notin {<<s, "wait">>, <<s, "read">>}
      OBVIOUS
    <2>6. \A q \in Shells : Ended(q)' => \A c \in PtyCallsOf(q) :
            c \notin toBegin' /\ (c \in threads' => c \in orphaned')
      BY <2>1, <2>2, <2>3, <2>4 DEF CallsAccounted
    <2>7. \A q \in Shells : PtyCallsOf(q)' = PtyCallsOf(q)
      BY DEF PtyCallsOf
    <2>8. \A q \in Shells : <<q, "terminate">> \in toBegin' \cup threads' => cancels'[q] # 0
      BY <2>1, <2>3, <2>5 DEF CallsAccounted
    <2> QED
      BY <2>1, <2>3, <2>6, <2>7, <2>8 DEF CallsAccounted
  <1>6. ASSUME NEW s \in Shells, Feed(s) PROVE CallsAccounted'
    <2>1. UNCHANGED <<shellTask, threads, orphaned, cancels>> /\ toBegin' = toBegin \cup {<<s, "write">>}
      BY <1>6 DEF Feed
    <2>2. ~Ended(s)
      BY <1>6 DEF Feed, ShellPlaced
    <2>3. \A q \in Shells : Ended(q)' <=> Ended(q)
      BY <2>1 DEF Ended
    <2>4. \A q \in Shells : Ended(q) => \A c \in PtyCallsOf(q) : c \notin {<<s, "write">>}
      BY <2>2, CallsOfShell
    <2>5. \A q \in Shells : <<q, "terminate">> \notin {<<s, "write">>}
      OBVIOUS
    <2>6. \A q \in Shells : Ended(q)' => \A c \in PtyCallsOf(q) :
            c \notin toBegin' /\ (c \in threads' => c \in orphaned')
      BY <2>1, <2>2, <2>3, <2>4 DEF CallsAccounted
    <2>7. \A q \in Shells : PtyCallsOf(q)' = PtyCallsOf(q)
      BY DEF PtyCallsOf
    <2>8. \A q \in Shells : <<q, "terminate">> \in toBegin' \cup threads' => cancels'[q] # 0
      BY <2>1, <2>5 DEF CallsAccounted
    <2> QED
      BY <2>1, <2>3, <2>6, <2>7, <2>8 DEF CallsAccounted
  <1>7. ASSUME NEW s \in Shells, StopLoops(s), Ended(s)',
               \A q \in Shells : q # s => shellTask'[q] = shellTask[q],
               \A q \in Shells : cancels[q] # 0 => cancels'[q] # 0
        PROVE  CallsAccounted'
    <2>1. /\ toBegin' = toBegin \ PtyCallsOf(s) /\ threads' = threads
          /\ orphaned' = orphaned \cup (threads \cap PtyCallsOf(s))
      BY <1>7 DEF StopLoops, Abandon
    <2>2. \A q \in Shells : q # s => (Ended(q)' <=> Ended(q))
      BY <1>7 DEF Ended
    <2> QED
      BY <1>7, <2>1, <2>2, CallsOfShell DEF CallsAccounted
  <1>8. ASSUME NEW s \in Shells, Finishes(s) PROVE CallsAccounted'
    <2>1. Ended(s)' /\ (\A q \in Shells : q # s => shellTask'[q] = shellTask[q]) /\ cancels' = cancels
      BY <1>8 DEF Finishes, ShellGoes, Ended, ShellTypeOK
    <2> QED
      BY <1>7, <1>8, <2>1 DEF Finishes
  <1>9. ASSUME NEW s \in Shells, CancelShell(s) PROVE CallsAccounted'
    <2>1. cancels'[s] # 0 /\ \A q \in Shells : cancels[q] # 0 => cancels'[q] # 0
      BY <1>9 DEF CancelShell, ShellTypeOK
    <2>2. \A q \in Shells : q # s => shellTask'[q] = shellTask[q]
      BY <1>9 DEF CancelShell, ShellGoes, ShellTypeOK
    <2>3. CASE StopLoops(s) /\ ShellGoes(s, "cancelled")
      <3>1. Ended(s)'
        BY <2>3 DEF ShellGoes, Ended, ShellTypeOK
      <3> QED
        BY <1>7, <2>1, <2>2, <2>3, <3>1
    <2>4. CASE /\ shellTask[s] = "waiting" /\ ShellGoes(s, "terminating")
               /\ Abandon({<<s, "wait">>}, {<<s, "terminate">>})
      <3>1. ~Ended(s) /\ ~Ended(s)'
        BY <2>4 DEF ShellGoes, Ended, ShellTypeOK
      <3>2. \A q \in Shells : q # s => (Ended(q)' <=> Ended(q))
        BY <2>2 DEF Ended
      <3>3. /\ toBegin' = (toBegin \ {<<s, "wait">>}) \cup {<<s, "terminate">>} /\ threads' = threads
            /\ orphaned' = orphaned \cup (threads \cap {<<s, "wait">>})
        BY <2>4 DEF Abandon
      <3> QED
        BY <2>1, <3>1, <3>2, <3>3, CallsOfShell DEF CallsAccounted
    <2> QED
      BY <1>9, <2>3, <2>4 DEF CancelShell
  <1>10. ASSUME NEW s \in Shells, WaitReturns(s) PROVE CallsAccounted'
    <2>1. Returns(s, "wait", {}) /\ cancels' = cancels
      BY <1>10 DEF WaitReturns
    <2>2. Heard(s, "wait") => ~Ended(s)
      BY <2>1, HeardGoesOn DEF Returns
    <2>3. /\ \A q \in Shells : q # s => shellTask'[q] = shellTask[q]
          /\ shellTask'[s] = shellTask[s] \/ (Heard(s, "wait") /\ ~Ended(s)' /\ ~Ended(s))
      BY <1>10, <2>2 DEF WaitReturns, ShellGoes, Ended, ShellTypeOK
    <2> QED
      BY <2>1, <2>3, ReturnAccounted
  <1>11. ASSUME NEW s \in Shells, TerminateReturns(s) PROVE CallsAccounted'
    <2>1. Returns(s, "terminate", {"reap"}) /\ cancels' = cancels
      BY <1>11 DEF TerminateReturns
    <2>2. Heard(s, "terminate") => ~Ended(s)
      BY <2>1, HeardGoesOn DEF Returns
    <2>3. /\ \A q \in Shells : q # s => shellTask'[q] = shellTask[q]
          /\ shellTask'[s] = shellTask[s] \/ (Heard(s, "terminate") /\ ~Ended(s)' /\ ~Ended(s))
          /\ Heard(s, "terminate") => ~Ended(s)'
      BY <1>11, <2>2 DEF TerminateReturns, ShellGoes, Ended, ShellTypeOK
    <2> QED
      BY <2>1, <2>3, ReturnAccounted
  <1>12. ASSUME NEW s \in Shells, ReapReturns(s) PROVE CallsAccounted'
    <2>1. CASE Returns(s, "reap", {}) /\ shellTask' = shellTask
      <3>1. cancels' = cancels
        BY <1>12 DEF ReapReturns
      <3> QED
        BY <2>1, <3>1, ReturnAccounted
    <2>2. CASE /\ ShellGoes(s, "cancelled") /\ threads' = threads \ {<<s, "reap">>}
               /\ toBegin' = toBegin \ PtyCallsOf(s)
               /\ orphaned' = orphaned \cup (threads' \cap PtyCallsOf(s))
      <3>1. Ended(s)' /\ (\A q \in Shells : q # s => (Ended(q)' <=> Ended(q))) /\ cancels' = cancels
        BY <1>12, <2>2 DEF ReapReturns, ShellGoes, Ended, ShellTypeOK
      <3> QED
        BY <2>2, <3>1, CallsOfShell DEF CallsAccounted
    <2> QED
      BY <1>12, <2>1, <2>2 DEF ReapReturns, loopVars
  <1>13. ASSUME NEW s \in Shells, ReadReturns(s) PROVE CallsAccounted'
    <2>1. Returns(s, "read", {"read"}) /\ cancels' = cancels /\ shellTask' = shellTask
      BY <1>13 DEF ReadReturns
    <2>2. Heard(s, "read") => ~Ended(s)'
      BY <2>1, HeardGoesOn DEF Returns, Ended
    <2> QED
      BY <2>1, <2>2, ReturnAccounted
  <1>14. ASSUME NEW s \in Shells, ReadEnds(s) \/ ReadBreaks(s) \/ WriteReturns(s) PROVE CallsAccounted'
    <2>1. /\ Returns(s, "read", {}) \/ Returns(s, "write", {})
          /\ cancels' = cancels /\ shellTask' = shellTask
      BY <1>14 DEF ReadEnds, ReadBreaks, WriteReturns
    <2> QED
      BY <2>1, ReturnAccounted
  <1> QED
    BY <1>1, <1>2, <1>3, <1>4, <1>5, <1>6, <1>8, <1>9, <1>10, <1>11, <1>12, <1>13, <1>14
    DEF ShellNext, CallReturns

\* Every step leaves each task where its command, its loops and its output say it is.
LEMMA PlaceStep ==
  ASSUME ShellInv, [ShellNext]_shellVars
  PROVE  ShellPlaced' /\ EndIsWhole'
  <1> USE DEF ShellInv
  <1>1. CASE UNCHANGED shellVars
    BY <1>1 DEF shellVars, ptyVars, callVars, loopVars, ShellPlaced, EndIsWhole, Ended
  <1>2. ASSUME NEW c \in PtyCalls, ThreadTakes(c) PROVE ShellPlaced' /\ EndIsWhole'
    BY <1>2 DEF ThreadTakes, ptyVars, loopVars, ShellPlaced, EndIsWhole, Ended
  <1>3. ASSUME NEW s \in Shells, CommandWrites(s) PROVE ShellPlaced' /\ EndIsWhole'
    BY <1>3 DEF CommandWrites, loopVars, ShellPlaced, EndIsWhole, Ended, ShellTypeOK
  <1>4. ASSUME NEW s \in Shells, CommandExits(s) \/ Collected(s) PROVE ShellPlaced' /\ EndIsWhole'
    BY <1>4 DEF CommandExits, Collected, loopVars, ShellPlaced, EndIsWhole, Ended, ShellTypeOK
  <1>5. ASSUME NEW s \in Shells, SubmitShell(s) \/ WriteStdin(s) \/ Answer(s)
        PROVE ShellPlaced' /\ EndIsWhole'
    BY <1>5 DEF SubmitShell, WriteStdin, Answer, ShellGoes, ptyVars, loopVars,
                ShellPlaced, EndIsWhole, Ended, ShellTypeOK
  <1>6. ASSUME NEW s \in Shells, SpawnShell(s) PROVE ShellPlaced' /\ EndIsWhole'
    BY <1>6 DEF SpawnShell, ShellGoes, ShellPlaced, EndIsWhole, Ended, ShellTypeOK
  <1>7. ASSUME NEW s \in Shells, SubscribeInput(s) \/ Feed(s) PROVE ShellPlaced' /\ EndIsWhole'
    BY <1>7 DEF SubscribeInput, Feed, ptyVars, ShellPlaced, EndIsWhole, Ended, ShellTypeOK
  <1>8. ASSUME NEW s \in Shells, Finishes(s) PROVE ShellPlaced' /\ EndIsWhole'
    <2>1. reader[s] = "ended" =>
            command[s] = "dead" /\ unread[s] = 0 /\ written[s] = unread[s] + stdout[s]
      BY <1>8 DEF Finishes, ShellPlaced, Ended
    <2>2. reader[s] = "ended" => command[s] = "dead" /\ stdout[s] = written[s]
      BY <2>1 DEF ShellTypeOK
    <2>3. /\ \/ shellTask' = [shellTask EXCEPT ![s] = "failed"]
             \/ /\ shellTask' = [shellTask EXCEPT ![s] = "done"]
                /\ reader[s] \in {"ended", "broken"}
          /\ reader' = [reader EXCEPT ![s] = Stopped(s)] /\ writer' = [writer EXCEPT ![s] = "ended"]
          /\ UNCHANGED <<stdout, command, written, unread, cancels>>
      BY <1>8 DEF Finishes, Drained, StopLoops, ShellGoes, ptyVars
    <2>4. reader[s] = "broken" => reader'[s] = "broken"
      BY <2>3 DEF Stopped, ShellTypeOK
    <2>5. /\ shellTask'[s] \in {"done", "failed"} /\ writer'[s] = "ended"
          /\ \A q \in Shells : q # s => /\ shellTask'[q] = shellTask[q]
                                       /\ reader'[q] = reader[q] /\ writer'[q] = writer[q]
      BY <2>3 DEF ShellTypeOK
    <2>6. ShellPlaced'
      BY <2>3, <2>5 DEF ShellPlaced, Ended
    <2>7. shellTask'[s] = "done" => reader[s] \in {"ended", "broken"}
      BY <2>3 DEF ShellTypeOK
    <2>8. shellTask'[s] = "done" =>
            reader'[s] = "broken" \/ (command[s] = "dead" /\ stdout[s] = written[s])
      BY <2>2, <2>4, <2>7
    <2>9. EndIsWhole'
      BY <2>3, <2>5, <2>8 DEF EndIsWhole
    <2> QED
      BY <2>6, <2>9
  <1>9. ASSUME NEW s \in Shells, CancelShell(s) PROVE ShellPlaced' /\ EndIsWhole'
    <2>1. CASE /\ shellTask[s] = "waiting" /\ ShellGoes(s, "terminating") /\ UNCHANGED loopVars
      BY <1>9, <2>1 DEF CancelShell, ShellGoes, ptyVars, loopVars, ShellPlaced, EndIsWhole, Ended, ShellTypeOK
    <2>2. CASE /\ shellTask[s] # "waiting" \/ command[s] # "alive"
               /\ ShellGoes(s, "cancelled") /\ StopLoops(s)
      <3>1. command[s] = "alive" => cancels[s] # 0
        BY <1>9, <2>2 DEF CancelShell, ShellPlaced, ShellTypeOK, ShellAt, Ended
      <3>2. cancels' = [cancels EXCEPT ![s] = @ + 1] /\ UNCHANGED <<command, written, unread>>
        BY <1>9 DEF CancelShell, ptyVars
      <3>3. /\ shellTask' = [shellTask EXCEPT ![s] = "cancelled"]
            /\ reader' = [reader EXCEPT ![s] = Stopped(s)] /\ writer' = [writer EXCEPT ![s] = "ended"]
            /\ stdout' = stdout
        BY <2>2 DEF StopLoops, ShellGoes
      <3>4. cancels'[s] = 1 => cancels[s] = 0
        BY <3>2 DEF ShellTypeOK
      <3> QED
        BY <3>1, <3>2, <3>3, <3>4 DEF ShellPlaced, EndIsWhole, Ended, ShellTypeOK
    <2> QED
      BY <1>9, <2>1, <2>2 DEF CancelShell
  <1>10. ASSUME NEW s \in Shells, WaitReturns(s) PROVE ShellPlaced' /\ EndIsWhole'
    <2>1. Heard(s, "wait") => ~Ended(s)
      BY <1>10, HeardGoesOn DEF WaitReturns, Returns
    <2> QED
      BY <1>10, <2>1 DEF WaitReturns, ShellGoes, ptyVars, loopVars, ShellPlaced, EndIsWhole, Ended, ShellTypeOK
  <1>11. ASSUME NEW s \in Shells, TerminateReturns(s) PROVE ShellPlaced' /\ EndIsWhole'
    <2>1. (Heard(s, "terminate") => ~Ended(s)) /\ cancels[s] # 0
      BY <1>11, HeardGoesOn DEF TerminateReturns, Returns, CallsAccounted
    <2>2. \/ shellTask' = shellTask
          \/ ~Ended(s) /\ shellTask' = [shellTask EXCEPT ![s] = "reaping"]
      BY <1>11, <2>1 DEF TerminateReturns, ShellGoes
    <2>3. \/ command' = command
          \/ /\ command[s] = "alive"
             /\ \E p \in {"left", "dead"} : command' = [command EXCEPT ![s] = p]
      BY <1>11 DEF TerminateReturns
    <2>4. UNCHANGED <<written, unread, stdout, reader, writer, cancels>>
      BY <1>11 DEF TerminateReturns, loopVars
    <2> QED
      BY <2>1, <2>2, <2>3, <2>4 DEF ShellPlaced, EndIsWhole, Ended, ShellTypeOK
  <1>12. ASSUME NEW s \in Shells, ReapReturns(s) PROVE ShellPlaced' /\ EndIsWhole'
    <2>1. (Heard(s, "reap") /\ <<s, "reap">> \in threads) => ~Ended(s)
      BY HeardGoesOn
    <2> QED
      BY <1>12, <2>1 DEF ReapReturns, ShellGoes, ptyVars, loopVars, ShellPlaced, EndIsWhole, Ended, ShellTypeOK
  <1>13. ASSUME NEW s \in Shells, ReadReturns(s) PROVE ShellPlaced' /\ EndIsWhole'
    <2>1. (Heard(s, "read") => ~Ended(s)) /\ (~Heard(s, "read") => Ended(s))
      BY <1>13, HeardGoesOn DEF ReadReturns, Returns, CallsAccounted, Heard
    <2>2. /\ unread[s] > 0 /\ unread' = [unread EXCEPT ![s] = @ - 1]
          /\ stdout' = IF Heard(s, "read") THEN [stdout EXCEPT ![s] = @ + 1] ELSE stdout
          /\ UNCHANGED <<shellTask, command, written, reader, writer, cancels>>
      BY <1>13 DEF ReadReturns
    <2>3. CASE Heard(s, "read")
      BY <2>1, <2>2, <2>3 DEF ShellPlaced, EndIsWhole, Ended, ShellTypeOK
    <2>4. CASE ~Heard(s, "read")
      BY <2>1, <2>2, <2>4 DEF ShellPlaced, EndIsWhole, Ended, ShellTypeOK
    <2> QED
      BY <2>3, <2>4
  <1>14. ASSUME NEW s \in Shells, ReadEnds(s) \/ ReadBreaks(s) PROVE ShellPlaced' /\ EndIsWhole'
    <2>1. CASE ReadEnds(s)
      BY <2>1 DEF ReadEnds, Stopped, ptyVars, ShellPlaced, EndIsWhole, Ended, ShellTypeOK
    <2>2. CASE ReadBreaks(s)
      <3>1. Heard(s, "read") => ~Ended(s)
        BY <2>2, HeardGoesOn DEF ReadBreaks, Returns
      <3>2. /\ unread[s] > 0 /\ unread' = [unread EXCEPT ![s] = @ - 1]
            /\ \/ reader' = reader /\ ~Heard(s, "read")
               \/ /\ Heard(s, "read")
                  /\ \E how \in {"broken", "failed"} : reader' = [reader EXCEPT ![s] = how]
            /\ UNCHANGED <<shellTask, command, written, stdout, writer, cancels>>
        BY <2>2 DEF ReadBreaks
      <3>3. ~Heard(s, "read") => Ended(s)
        BY DEF Heard, CallsAccounted
      <3> QED
        BY <3>1, <3>2, <3>3 DEF ShellPlaced, EndIsWhole, Ended, ShellTypeOK
    <2> QED
      BY <1>14, <2>1, <2>2
  <1>15. ASSUME NEW s \in Shells, WriteReturns(s) PROVE ShellPlaced' /\ EndIsWhole'
    <2>1. Heard(s, "write") => ~Ended(s)
      BY <1>15, HeardGoesOn DEF WriteReturns, Returns
    <2> QED
      BY <1>15, <2>1 DEF WriteReturns, ptyVars, ShellPlaced, EndIsWhole, Ended, ShellTypeOK
  <1> QED
    BY <1>1, <1>2, <1>3, <1>4, <1>5, <1>6, <1>7, <1>8, <1>9, <1>10, <1>11, <1>12, <1>13, <1>14, <1>15
    DEF ShellNext, CallReturns

\* Types, the executor's threads, the account of the calls and the places of the tasks are
\* an invariant of shell tasks.
THEOREM ShellInvariant == ShellSpec => []ShellInv
  <1>1. ShellInv /\ [ShellNext]_shellVars => ShellInv'
    BY ShellTypesStep, CallsStep, PlaceStep DEF ShellInv
  <1> QED
    BY <1>1, ShellInitInv, PTL DEF ShellSpec

\* Whatever the number of shells, threads and cancellations, and in whatever order threads
\* answer: a task that is done was handed all its command wrote, unless a read that decodes
\* to nothing broke its reader off, and one cancellation never ends a task before its
\* command (runtime/pty_runner.py:31-63).
THEOREM EndIsWholeAlways == ShellSpec => []EndIsWhole
  <1>1. ShellInv => EndIsWhole
    BY DEF ShellInv
  <1> QED
    BY <1>1, ShellInvariant, PTL
=============================================================================
