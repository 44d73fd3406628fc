------------------------- MODULE TaskDeliveryProofs -------------------------
(***************************************************************************)
(* Proofs about TaskDelivery, for every set of tasks and every length of   *)
(* the queue and the mailbox: a task is followed up at most once, what is  *)
(* queued waits for a run that drains it, a suppression is final for the   *)
(* tasks it covers, and the coordinator implements Outbox.                 *)
(***************************************************************************)
EXTENDS TaskDelivery, TLAPS, FiniteSetTheorems, SequenceTheorems

\* The types, and that an actor that opens the conversation has taken a message.
Typed == TypeOK /\ (actor = "opening" => handling \in Tasks)

\* Only a terminal record is coordinated, and only a registered one is decided about.
DecidedAreKnown ==
  \A t \in Tasks : /\ t \in coordinating => status[t] \in {"done", "cancelled"}
                   /\ delivery[t] # "pending" => status[t] # "absent"

\* A task in the queue was decided about when it was put there.
QueueIsDecided == \A i \in DOMAIN queue : delivery[queue[i]] # "pending"

\* The suppression belongs to the object held, and left no plain task queued.
SuppressionHolds == suppressed => present /\ \A t \in Plain : delivery[t] # "queued"

\* A task is on its way to the actor at one place at most, before its follow-up, and only
\* as delivered.
OnItsWayOnce ==
  /\ \A i, j \in DOMAIN mailbox : mailbox[i] = mailbox[j] => i = j
  /\ \A i \in DOMAIN mailbox : /\ delivery[mailbox[i]] = "delivered"
                               /\ followUps[mailbox[i]] = 0
                               /\ ~(actor = "opening" /\ handling = mailbox[i])
  /\ actor = "opening" => delivery[handling] = "delivered" /\ followUps[handling] = 0
  /\ \A t \in Tasks : followUps[t] # 0 => followUps[t] = 1 /\ delivery[t] = "delivered"

IInv == Typed /\ DecidedAreKnown /\ QueueIsDecided /\ SuppressionHolds
          /\ QueuedIsDrained /\ OnItsWayOnce

-----------------------------------------------------------------------------
(* The sequences of the model.                                             *)

\* The members of a sequence of tasks are finitely many.
LEMMA MembersFinite ==
  ASSUME NEW q \in Seq(Tasks)
  PROVE  IsFiniteSet(ToSet(q)) /\ ToSet(q) \subseteq Tasks
  <1>1. q \in Surjection(1..Len(q), ToSet(q))
    BY DEF Surjection, ToSet
  <1>2. IsFiniteSet(1..Len(q))
    BY FS_Interval, LenProperties
  <1> QED
    BY <1>1, <1>2, FS_Surjection DEF ToSet

\* What is drained or kept in queue order is a sequence of tasks without repetition, all of
\* them from the set asked for.
LEMMA InQueueOrderSeq ==
  ASSUME queue \in Seq(Tasks), NEW S \in SUBSET ToSet(queue), NEW s \in InQueueOrder(S)
  PROVE  /\ s \in Seq(Tasks)
         /\ \A i \in DOMAIN s : s[i] \in S
         /\ \A i, j \in DOMAIN s : s[i] = s[j] => i = j
  <1> DEFINE n == Cardinality(S)
  <1>1. /\ s \in [1..n -> S]
        /\ \A i, j \in 1..n : i # j => s[i] # s[j]
    BY DEF InQueueOrder, SetToSeqs
  <1>2. n \in Nat
    BY MembersFinite, FS_Subset, FS_CardinalityType
  <1>3. s \in Seq(S) /\ S \subseteq Tasks
    BY <1>1, <1>2, IsASeq, MembersFinite
  <1> QED
    BY <1>1, <1>3, SeqMonotonic

\* A queue stays a sequence of tasks when one is put into it, keeps what it has and holds
\* the one put into it.
LEMMA EnqueuedSeq ==
  ASSUME NEW q \in Seq(Tasks), NEW t \in Tasks
  PROVE  /\ Enqueued(q, t) \in Seq(Tasks)
         /\ \A i \in DOMAIN Enqueued(q, t) : Enqueued(q, t)[i] = t \/ Contains(q, Enqueued(q, t)[i])
         /\ \A x \in Tasks : Contains(q, x) => Contains(Enqueued(q, t), x)
         /\ Contains(Enqueued(q, t), t)
  BY DEF Enqueued, Contains

-----------------------------------------------------------------------------
(* Types.                                                                  *)

\* What skipping and draining write.
LEMMA SkippedType ==
  ASSUME TypeOK, NEW S
  PROVE  Skipped(S) \in [Tasks -> {"pending", "queued", "delivered", "skipped"}]
  BY DEF Skipped, TypeOK

\* The end of a run keeps the types.
LEMMA ExitRunType ==
  ASSUME TypeOK, NEW who, ExitRun(who)
  PROVE  /\ delivery' \in [Tasks -> {"pending", "queued", "delivered", "skipped"}]
         /\ mailbox' \in Seq(Tasks) /\ queue' = <<>> /\ queue' \in Seq(Tasks)
         /\ gate' \in {"idle", "running", "interrupting"}
  <1>1. PICK sent \in InQueueOrder(Sent) : mailbox' = mailbox \o sent
    BY DEF ExitRun, Drain
  <1>2. Sent \in SUBSET ToSet(queue) /\ queue \in Seq(Tasks) /\ mailbox \in Seq(Tasks)
    BY DEF Sent, TypeOK
  <1>3. sent \in Seq(Tasks)
    BY <1>1, <1>2, InQueueOrderSeq
  <1>4. mailbox' \in Seq(Tasks)
    BY <1>1, <1>2, <1>3, ConcatProperties
  <1>5. delivery' \in [Tasks -> {"pending", "queued", "delivered", "skipped"}]
    BY SkippedType DEF ExitRun, Drain
  <1>6. queue' = <<>> /\ queue' \in Seq(Tasks)
    BY EmptySeq DEF ExitRun, Drain
  <1> QED
    BY <1>4, <1>5, <1>6 DEF ExitRun, TypeOK

\* Every step keeps the types.
LEMMA TypeStep == Typed /\ [Next]_vars => Typed'
  <1> SUFFICES ASSUME Typed, TypeOK, [Next]_vars PROVE Typed'
    BY DEF Typed
  <1> USE DEF conversation, runs
  <1>1. ASSUME NEW t \in Tasks, Submit(t) PROVE Typed'
    BY <1>1 DEF Submit, TypeOK, Typed
  <1>2. ASSUME NEW t \in Tasks, NEW how \in {"done", "cancelled"}, End(t, how) PROVE Typed'
    BY <1>2 DEF End, TypeOK, Typed, Coordinated
  <1>3. ASSUME NEW t \in Tasks, Coordinate(t) PROVE Typed'
    <2>1. /\ delivery' \in [Tasks -> {"pending", "queued", "delivered", "skipped"}]
          /\ mailbox' \in Seq(Tasks) /\ queue' \in Seq(Tasks)
      <3>1. Append(mailbox, t) \in Seq(Tasks) /\ Enqueued(queue, t) \in Seq(Tasks)
        BY EnqueuedSeq, AppendProperties DEF TypeOK, Typed
      <3>2. Skipped({t}) \in [Tasks -> {"pending", "queued", "delivered", "skipped"}]
        BY SkippedType
      <3> QED
        BY <1>3, <3>1, <3>2 DEF Coordinate, TypeOK
    <2> QED
      BY <1>3, <2>1 DEF Coordinate, TypeOK, Typed
  <1>4. CASE UserEnters
    BY <1>4 DEF UserEnters, TypeOK, Typed
  <1>5. CASE UserLiftsSuppression
    BY <1>5 DEF UserLiftsSuppression, TypeOK, Typed
  <1>6. CASE UserLeaves
    <2>1. queue' \in Seq(Tasks)
      BY <1>6, ExitRunType DEF UserLeaves
    <2> QED
      BY <1>6, <2>1, ExitRunType DEF UserLeaves, ExitRun, TypeOK, Typed
  <1>7. CASE Interrupt
    <2>1. queue' \in Seq(Tasks)
      BY <1>7, InQueueOrderSeq DEF Interrupt, TypeOK, Typed
    <2> QED
      BY <1>7, <2>1, SkippedType DEF Interrupt, TypeOK, Typed
  <1>8. CASE SuppressionExpires
    BY <1>8 DEF SuppressionExpires, TypeOK, Typed
  <1>9. CASE Discard
    <2>1. queue' \in Seq(Tasks)
      BY <1>9, EmptySeq DEF Discard
    <2>2. /\ user' \in {"out", "in", "orphaned"}
          /\ actor' \in {"receiving", "opening", "in", "orphaned", "dead"}
          /\ actor' = "opening" => actor = "opening"
      BY <1>9 DEF Discard, TypeOK
    <2> QED
      BY <1>9, <2>1, <2>2, SkippedType DEF Discard, TypeOK, Typed
  <1>10. CASE ActorTakes
    <2>1. Head(mailbox) \in Tasks /\ Tail(mailbox) \in Seq(Tasks)
      BY <1>10, HeadTailProperties DEF ActorTakes, TypeOK, Typed
    <2> QED
      BY <1>10, <2>1 DEF ActorTakes, TypeOK, Typed
  <1>11. CASE ActorRuns
    BY <1>11 DEF ActorRuns, TypeOK, Typed
  <1>12. CASE ActorFindsBusy
    <2>1. queue' \in Seq(Tasks)
      BY <1>12, EnqueuedSeq DEF ActorFindsBusy, TypeOK, Typed
    <2> QED
      BY <1>12, <2>1 DEF ActorFindsBusy, TypeOK, Typed
  <1>13. ASSUME NEW next \in {"receiving", "dead"}, ActorLeaves(next) PROVE Typed'
    <2>1. queue' \in Seq(Tasks)
      BY <1>13, ExitRunType DEF ActorLeaves
    <2> QED
      BY <1>13, <2>1, ExitRunType DEF ActorLeaves, ExitRun, TypeOK, Typed
  <1>14. CASE UNCHANGED vars
    BY <1>14 DEF vars, TypeOK, Typed
  <1> QED
    BY <1>1, <1>2, <1>3, <1>4, <1>5, <1>6, <1>7, <1>8, <1>9, <1>10, <1>11, <1>12,
       <1>13, <1>14 DEF Next

\* The coordinator's records keep their types, whatever the interleaving.
THEOREM TaskDeliveryTypes == Spec => []TypeOK
  <1>1. Init => Typed
    <2> SUFFICES ASSUME Init PROVE Typed
      OBVIOUS
    <2>1. queue \in Seq(Tasks) /\ mailbox \in Seq(Tasks)
      BY EmptySeq DEF Init
    <2> QED
      BY <2>1 DEF Init, TypeOK, Typed
  <1>2. Typed => TypeOK
    BY DEF Typed
  <1> QED
    BY <1>1, <1>2, TypeStep, PTL DEF Spec

-----------------------------------------------------------------------------
(* What a step does to the deliveries.                                     *)

\* A decision is never withdrawn, and a settled one never changed.
Decides ==
  \A t \in Tasks : /\ delivery[t] # "pending" => delivery'[t] # "pending"
                   /\ delivery[t] \in Settled => delivery'[t] = delivery[t]

\* Skipping decides about the tasks that were not settled.
LEMMA SkippableDecides ==
  ASSUME TypeOK, delivery' = Skipped(Skippable)
  PROVE  /\ Decides
         /\ \A t \in Tasks : delivery'[t] # "pending" => delivery[t] # "pending" \/ status[t] # "absent"
         /\ \A t \in Plain : status[t] # "absent" => delivery'[t] \in Settled
         /\ \A t \in Tasks : delivery'[t] = "queued" => delivery[t] = "queued"
  BY DEF Decides, Skipped, Skippable, Settled, Plain, TypeOK

\* A drain settles exactly the queue.
LEMMA DrainDecides ==
  ASSUME TypeOK, QueueIsDecided, NEW who, ExitRun(who)
  PROVE  /\ Decides
         /\ \A t \in Tasks : delivery'[t] # "pending" => delivery[t] # "pending"
         /\ \A t \in Tasks : Contains(queue, t) => delivery'[t] \in Settled
         /\ \A t \in Tasks : ~Contains(queue, t) => delivery'[t] = delivery[t]
         /\ \A t \in Sent : delivery'[t] = "delivered"
  <1>1. \A t \in Tasks : delivery'[t] = IF t \in Sent THEN "delivered" ELSE Skipped(Dropped)[t]
    BY DEF ExitRun, Drain
  <1>2. \A t \in Tasks : t \in ToSet(queue) <=> Contains(queue, t)
    BY DEF ToSet, Contains, TypeOK
  <1>3. \A t \in Tasks : Contains(queue, t) => delivery[t] # "pending"
    BY DEF QueueIsDecided, Contains, TypeOK
  <1>4. \A t \in Sent : t \in Tasks
    BY MembersFinite DEF Sent, TypeOK
  <1>5. \A t \in Tasks : delivery[t] \in Settled => t \notin Sent /\ t \notin Dropped
    BY DEF Sent, Dropped, Drains, Settled
  <1>6. \A t \in Tasks : Contains(queue, t) /\ delivery[t] \notin Settled
                           => t \in Sent \/ t \in Dropped
    BY <1>2 DEF Sent, Dropped, Drains, Settled, TypeOK
  <1>7. \A t \in Tasks : t \in Sent \/ t \in Dropped => Contains(queue, t)
    BY <1>2 DEF Sent, Dropped
  <1>8. \A t \in Tasks : Skipped(Dropped)[t] = IF t \in Dropped THEN "skipped" ELSE delivery[t]
    BY DEF Skipped
  <1>9. Decides
    BY <1>1, <1>5, <1>8 DEF Decides, Settled
  <1>10. \A t \in Tasks : Contains(queue, t) => delivery'[t] \in Settled
    BY <1>1, <1>6, <1>8 DEF Settled
  <1>11. \A t \in Tasks : ~Contains(queue, t) => delivery'[t] = delivery[t]
    BY <1>1, <1>7, <1>8
  <1> QED
    BY <1>1, <1>3, <1>4, <1>9, <1>10, <1>11

\* The coordinator decides about one pending task.
LEMMA CoordinateDecides ==
  ASSUME TypeOK, NEW t \in Tasks, Coordinate(t)
  PROVE  Decides /\ \A x \in Tasks \ {t} : delivery'[x] = delivery[x]
  <1>1. CASE delivery[t] # "pending"
    BY <1>1 DEF Coordinate, Decides
  <1>2. CASE delivery[t] = "pending"
    <2>1. \A x \in Tasks \ {t} : delivery'[x] = delivery[x]
      BY <1>2 DEF Coordinate, Skipped, TypeOK
    <2>2. delivery'[t] # "pending"
      BY <1>2 DEF Coordinate, Skipped, TypeOK
    <2> QED
      BY <1>2, <2>1, <2>2 DEF Decides, Settled
  <1> QED
    BY <1>1, <1>2

\* A busy conversation leaves the delivered result it is given as it is.
LEMMA FindsBusyDecides ==
  ASSUME TypeOK, OnItsWayOnce, ActorFindsBusy
  PROVE  delivery' = delivery
  BY DEF ActorFindsBusy, OnItsWayOnce, TypeOK

\* Every step decides, and takes nothing back.
LEMMA DecidesStep == IInv /\ [Next]_vars => Decides
  <1> SUFFICES ASSUME IInv, [Next]_vars PROVE Decides
    OBVIOUS
  <1>0. TypeOK /\ QueueIsDecided /\ OnItsWayOnce
    BY DEF IInv, Typed
  <1>1. CASE delivery' = delivery
    BY <1>1 DEF Decides
  <1>2. ASSUME NEW t \in Tasks, Coordinate(t) PROVE Decides
    BY <1>0, <1>2, CoordinateDecides
  <1>3. CASE Interrupt \/ Discard
    BY <1>0, <1>3, SkippableDecides DEF Interrupt, Discard
  <1>4. ASSUME NEW who, ExitRun(who) PROVE Decides
    BY <1>0, <1>4, DrainDecides
  <1> QED
    BY <1>0, <1>1, <1>2, <1>3, <1>4, FindsBusyDecides
       DEF Next, vars, conversation, Submit, End, UserEnters, UserLiftsSuppression, UserLeaves,
           SuppressionExpires, ActorTakes, ActorRuns, ActorLeaves

-----------------------------------------------------------------------------
(* The inductive invariant, one conjunct at a time.                        *)

\* Every step keeps decided tasks known.
LEMMA KnownStep == IInv /\ [Next]_vars => DecidedAreKnown'
  <1> SUFFICES ASSUME IInv, [Next]_vars PROVE DecidedAreKnown'
    OBVIOUS
  <1>0. TypeOK /\ QueueIsDecided /\ OnItsWayOnce /\ DecidedAreKnown
    BY DEF IInv, Typed
  <1>1. ASSUME NEW t \in Tasks, Submit(t) PROVE DecidedAreKnown'
    BY <1>0, <1>1 DEF Submit, DecidedAreKnown, TypeOK
  <1>2. ASSUME NEW t \in Tasks, NEW how \in {"done", "cancelled"}, End(t, how)
        PROVE  DecidedAreKnown'
    BY <1>0, <1>2 DEF End, Coordinated, DecidedAreKnown, TypeOK
  <1>3. ASSUME NEW t \in Tasks, Coordinate(t) PROVE DecidedAreKnown'
    <2>1. \A x \in Tasks \ {t} : delivery'[x] = delivery[x]
      BY <1>0, <1>3, CoordinateDecides
    <2>2. status' = status /\ coordinating' = coordinating \ {t} /\ t \in coordinating
      BY <1>3 DEF Coordinate
    <2> QED
      BY <1>0, <2>1, <2>2 DEF DecidedAreKnown
  <1>4. CASE Interrupt \/ Discard
    <2>1. delivery' = Skipped(Skippable) /\ status' = status /\ coordinating' = coordinating
      BY <1>4 DEF Interrupt, Discard
    <2> QED
      BY <1>0, <2>1, SkippableDecides DEF DecidedAreKnown
  <1>5. ASSUME NEW who, ExitRun(who) PROVE DecidedAreKnown'
    BY <1>0, <1>5, DrainDecides DEF DecidedAreKnown, ExitRun
  <1>6. CASE status' = status /\ coordinating' = coordinating /\ delivery' = delivery
    BY <1>0, <1>6 DEF DecidedAreKnown
  <1> QED
    BY <1>0, <1>1, <1>2, <1>3, <1>4, <1>5, <1>6, FindsBusyDecides
       DEF Next, vars, UserEnters, UserLiftsSuppression, UserLeaves, SuppressionExpires,
           ActorTakes, ActorRuns, ActorFindsBusy, ActorLeaves

\* Every step keeps the queue decided.
LEMMA QueueStep == IInv /\ [Next]_vars => QueueIsDecided'
  <1> SUFFICES ASSUME IInv, [Next]_vars PROVE QueueIsDecided'
    OBVIOUS
  <1>0. TypeOK /\ QueueIsDecided /\ OnItsWayOnce /\ Decides
    BY DecidesStep DEF IInv, Typed
  <1>1. \A i \in DOMAIN queue : queue[i] \in Tasks /\ delivery'[queue[i]] # "pending"
    BY <1>0 DEF TypeOK, QueueIsDecided, Decides
  <1>2. ASSUME NEW x \in Tasks, Contains(queue, x) PROVE delivery'[x] # "pending"
    BY <1>0, <1>1, <1>2 DEF Contains, TypeOK
  <1>3. CASE queue' = queue
    BY <1>1, <1>3 DEF QueueIsDecided
  <1>4. CASE queue' = <<>>
    BY <1>4 DEF QueueIsDecided
  <1>5. ASSUME NEW t \in Tasks, queue' = Enqueued(queue, t), delivery'[t] # "pending"
        PROVE  QueueIsDecided'
    <2>1. /\ \A i \in DOMAIN queue' : queue'[i] = t \/ Contains(queue, queue'[i])
          /\ queue' \in Seq(Tasks)
      BY <1>0, <1>5, EnqueuedSeq DEF TypeOK
    <2>2. \A i \in DOMAIN queue' : queue'[i] \in Tasks
      BY <2>1, ElementOfSeq
    <2> QED
      BY <1>2, <1>5, <2>1, <2>2 DEF QueueIsDecided
  <1>6. CASE Interrupt
    <2>1. \A i \in DOMAIN queue' : queue'[i] \in ToSet(queue)
      BY <1>0, <1>6, InQueueOrderSeq DEF Interrupt, TypeOK
    <2> QED
      BY <1>1, <2>1 DEF QueueIsDecided, ToSet
  <1>7. ASSUME NEW t \in Tasks, Coordinate(t) PROVE QueueIsDecided'
    <2>1. CASE delivery'[t] = "queued" /\ queue' = Enqueued(queue, t)
      BY <1>5, <2>1
    <2> QED
      BY <1>0, <1>3, <1>7, <2>1 DEF Coordinate, TypeOK
  <1>8. CASE ActorFindsBusy
    <2>1. handling \in Tasks /\ delivery'[handling] # "pending" /\ queue' = Enqueued(queue, handling)
      BY <1>0, <1>8, FindsBusyDecides DEF ActorFindsBusy, IInv, Typed, OnItsWayOnce
    <2> QED
      BY <1>5, <2>1
  <1>9. ASSUME NEW who, ExitRun(who) PROVE QueueIsDecided'
    BY <1>4, <1>9 DEF ExitRun, Drain
  <1> QED
    BY <1>3, <1>4, <1>6, <1>7, <1>8, <1>9
       DEF Next, vars, conversation, Submit, End, UserEnters, UserLiftsSuppression, UserLeaves,
           SuppressionExpires, Discard, ActorTakes, ActorRuns, ActorLeaves

\* Every step keeps the suppression.
LEMMA SuppressionStep == IInv /\ [Next]_vars => SuppressionHolds'
  <1> SUFFICES ASSUME IInv, [Next]_vars, suppressed'
               PROVE  present' /\ \A t \in Plain : delivery'[t] # "queued"
    BY DEF SuppressionHolds
  <1>0. /\ TypeOK /\ QueueIsDecided /\ OnItsWayOnce /\ DecidedAreKnown /\ Plain \subseteq Tasks
        /\ suppressed => present /\ \A t \in Plain : delivery[t] # "queued"
    BY DEF IInv, Typed, Plain, SuppressionHolds
  <1>1. CASE delivery' = delivery /\ suppressed /\ present'
    BY <1>0, <1>1
  <1>2. ASSUME NEW t \in Tasks, Coordinate(t)
        PROVE  present' /\ \A x \in Plain : delivery'[x] # "queued"
    <2>1. suppressed /\ present' = present
      BY <1>2 DEF Coordinate
    <2>2. \A x \in Plain \ {t} : delivery'[x] # "queued"
      BY <1>0, <1>2, <2>1, CoordinateDecides
    <2>3. t \in Plain => delivery'[t] # "queued"
      BY <1>0, <1>2, <2>1 DEF Coordinate, Suppressible, Skipped, TypeOK
    <2> QED
      BY <1>0, <2>1, <2>2, <2>3
  <1>3. CASE Interrupt
    <2>1. present' /\ delivery' = Skipped(Skippable)
      BY <1>0, <1>3 DEF Interrupt
    <2>2. \A t \in Plain : delivery[t] = "queued" => delivery'[t] \in Settled
      BY <1>0, <2>1, SkippableDecides DEF DecidedAreKnown
    <2>3. \A t \in Plain : delivery'[t] = "queued" => delivery[t] = "queued"
      BY <1>0, <2>1, SkippableDecides
    <2> QED
      BY <2>1, <2>2, <2>3 DEF Settled
  <1>4. ASSUME NEW who, ExitRun(who)
        PROVE  present' /\ \A t \in Plain : delivery'[t] # "queued"
    <2>1. suppressed /\ present' = present
      BY <1>4 DEF ExitRun
    <2>2. \A t \in Plain : delivery'[t] \in Settled \/ delivery'[t] = delivery[t]
      BY <1>0, <1>4, DrainDecides
    <2> QED
      BY <1>0, <2>1, <2>2 DEF Settled
  <1> QED
    BY <1>0, <1>1, <1>2, <1>3, <1>4, FindsBusyDecides
       DEF Next, vars, conversation, Submit, End, UserEnters, UserLiftsSuppression, UserLeaves,
           SuppressionExpires, Discard, ActorTakes, ActorRuns, ActorFindsBusy, ActorLeaves

\* Every step leaves what is queued to a run of the object held.
LEMMA DrainedStep == IInv /\ [Next]_vars => QueuedIsDrained'
  <1> SUFFICES ASSUME IInv, [Next]_vars, NEW p \in Plain, delivery'[p] = "queued"
               PROVE  Contains(queue, p)' /\ present' /\ Running'
    BY DEF QueuedIsDrained
  <1>0. /\ TypeOK /\ QueueIsDecided /\ OnItsWayOnce /\ DecidedAreKnown /\ p \in Tasks
        /\ delivery[p] = "queued" => Contains(queue, p) /\ present /\ Running
    BY DEF IInv, Typed, Plain, QueuedIsDrained
  <1>1. CASE delivery' = delivery /\ queue' = queue /\ (present => present') /\ (Running => Running')
    BY <1>0, <1>1
  <1>2. ASSUME NEW t \in Tasks, Coordinate(t)
        PROVE  Contains(queue, p)' /\ present' /\ Running'
    <2>1. present' = present /\ gate' = gate
      BY <1>2 DEF Coordinate
    <2>2. CASE p = t /\ delivery[t] = "pending"
      <3>1. present /\ Running /\ queue' = Enqueued(queue, t)
        BY <1>0, <1>2, <2>2 DEF Coordinate, Skipped, TypeOK
      <3>2. Contains(queue', t)
        BY <1>0, <3>1, EnqueuedSeq DEF TypeOK
      <3> QED
        BY <2>1, <2>2, <3>1, <3>2 DEF Running, Contains
    <2>3. CASE p # t \/ delivery[t] # "pending"
      <3>1. delivery[p] = "queued"
        BY <1>0, <1>2, <2>3, CoordinateDecides DEF Coordinate
      <3>2. queue' = queue \/ queue' = Enqueued(queue, t)
        BY <1>2 DEF Coordinate
      <3>3. Contains(queue, p) /\ Contains(Enqueued(queue, t), p)
        BY <1>0, <3>1, EnqueuedSeq DEF TypeOK
      <3>4. Contains(queue', p)
        BY <3>2, <3>3
      <3> QED
        BY <1>0, <2>1, <3>1, <3>4 DEF Running, Contains
    <2> QED
      BY <2>2, <2>3
  <1>3. CASE Interrupt \/ Discard
    <2>1. delivery' = Skipped(Skippable)
      BY <1>3 DEF Interrupt, Discard
    <2>2. delivery[p] = "queued" => delivery'[p] \in Settled
      BY <1>0, <2>1, SkippableDecides DEF DecidedAreKnown
    <2>3. delivery'[p] = "queued" => delivery[p] = "queued"
      BY <1>0, <2>1, SkippableDecides
    <2> QED
      BY <2>2, <2>3 DEF Settled
  <1>4. ASSUME NEW who, ExitRun(who)
        PROVE  Contains(queue, p)' /\ present' /\ Running'
    BY <1>0, <1>4, DrainDecides DEF Settled
  <1>5. CASE ActorFindsBusy
    <2>1. delivery' = delivery /\ present' = present /\ gate' = gate
      BY <1>0, <1>5, FindsBusyDecides DEF ActorFindsBusy
    <2>2. handling \in Tasks /\ queue' = Enqueued(queue, handling)
      BY <1>5 DEF ActorFindsBusy, IInv, Typed
    <2>3. Contains(queue', p)
      BY <1>0, <2>1, <2>2, EnqueuedSeq DEF TypeOK
    <2> QED
      BY <1>0, <2>1, <2>3 DEF Running, Contains
  <1> QED
    BY <1>0, <1>1, <1>2, <1>3, <1>4, <1>5
       DEF Next, vars, conversation, Running, Submit, End, UserEnters, UserLiftsSuppression,
           UserLeaves, SuppressionExpires, ActorTakes, ActorRuns, ActorLeaves

\* Steps that send nothing, take nothing and run nothing keep it: deliveries made stay made.
LEMMA QuietWay ==
  ASSUME TypeOK, OnItsWayOnce, Decides, mailbox' = mailbox, followUps' = followUps,
         actor' = "opening" => actor = "opening" /\ handling' = handling,
         actor' = "opening" => handling \in Tasks
  PROVE  OnItsWayOnce'
  <1>1. \A t \in Tasks : delivery[t] = "delivered" => delivery'[t] = "delivered"
    BY DEF Decides, Settled
  <1>2. \A i \in DOMAIN mailbox : mailbox[i] \in Tasks
    BY DEF TypeOK
  <1> QED
    BY <1>1, <1>2 DEF OnItsWayOnce

\* Sending tasks that were not yet delivered, each once, keeps it.
LEMMA SendWay ==
  ASSUME Typed, OnItsWayOnce, Decides, followUps' = followUps,
         actor' = "opening" => actor = "opening" /\ handling' = handling,
         NEW sent \in Seq(Tasks), mailbox' = mailbox \o sent,
         \A i, j \in DOMAIN sent : sent[i] = sent[j] => i = j,
         \A i \in DOMAIN sent : delivery[sent[i]] \notin Settled /\ delivery'[sent[i]] = "delivered"
  PROVE  OnItsWayOnce'
  <1>0. TypeOK /\ mailbox \in Seq(Tasks)
    BY DEF Typed, TypeOK
  <1>1. \A t \in Tasks : delivery[t] = "delivered" => delivery'[t] = "delivered"
    BY DEF Decides, Settled
  <1>2. /\ DOMAIN mailbox' = 1 .. Len(mailbox) + Len(sent)
        /\ \A i \in DOMAIN mailbox' : mailbox'[i] = IF i <= Len(mailbox) THEN mailbox[i]
                                                   ELSE sent[i - Len(mailbox)]
    BY <1>0
  <1>3. \A i \in DOMAIN mailbox' : i <= Len(mailbox) => i \in DOMAIN mailbox
    BY <1>0, <1>2
  <1>4. \A i \in DOMAIN mailbox' : i > Len(mailbox) => i - Len(mailbox) \in DOMAIN sent
    BY <1>0, <1>2
  <1>5. \A i \in DOMAIN sent : sent[i] \in Tasks
    BY ElementOfSeq
  <1>6. \A i \in DOMAIN mailbox : mailbox[i] \in Tasks /\ delivery[mailbox[i]] \in Settled
    BY <1>0 DEF OnItsWayOnce, Settled
  <1>7. ASSUME NEW i \in DOMAIN mailbox', NEW j \in DOMAIN mailbox', mailbox'[i] = mailbox'[j]
        PROVE  i = j
    <2>1. i \in Int /\ j \in Int /\ Len(mailbox) \in Int
      BY <1>0, <1>2
    <2>2. CASE i <= Len(mailbox) /\ j <= Len(mailbox)
      BY <1>2, <1>3, <1>7, <2>2 DEF OnItsWayOnce
    <2>3. CASE i > Len(mailbox) /\ j > Len(mailbox)
      <3>1. i - Len(mailbox) = j - Len(mailbox)
        BY <1>2, <1>4, <1>7, <2>1, <2>3
      <3> QED
        BY <2>1, <3>1
    <2>4. \A k \in DOMAIN mailbox' : delivery[mailbox'[k]] \in Settled <=> k <= Len(mailbox)
      BY <1>0, <1>2, <1>3, <1>4, <1>6
    <2>5. i <= Len(mailbox) <=> j <= Len(mailbox)
      BY <1>7, <2>4
    <2> QED
      BY <2>1, <2>2, <2>3, <2>4, <2>5
  <1>8. ASSUME NEW i \in DOMAIN mailbox'
        PROVE  /\ delivery'[mailbox'[i]] = "delivered" /\ followUps'[mailbox'[i]] = 0
               /\ ~(actor' = "opening" /\ handling' = mailbox'[i])
    <2>1. i \in Int /\ Len(mailbox) \in Int
      BY <1>0, <1>2
    <2>2. CASE i <= Len(mailbox)
      BY <1>1, <1>2, <1>3, <1>6, <2>2 DEF OnItsWayOnce
    <2>3. CASE i > Len(mailbox)
      <3>1. PICK t \in Tasks : t = mailbox'[i] /\ delivery[t] \notin Settled /\ delivery'[t] = "delivered"
        BY <1>2, <1>4, <1>5, <2>1, <2>3
      <3>2. followUps[t] = 0 /\ ~(actor = "opening" /\ handling = t)
        BY <3>1 DEF OnItsWayOnce, Settled
      <3> QED
        BY <3>1, <3>2
    <2> QED
      BY <2>1, <2>2, <2>3
  <1>9. actor' = "opening" => delivery'[handling'] = "delivered" /\ followUps'[handling'] = 0
    BY <1>1 DEF OnItsWayOnce, Typed
  <1>10. \A t \in Tasks : followUps'[t] # 0 => followUps'[t] = 1 /\ delivery'[t] = "delivered"
    BY <1>1 DEF OnItsWayOnce
  <1> QED
    BY <1>7, <1>8, <1>9, <1>10 DEF OnItsWayOnce

\* Every step keeps the way of a delivered result to its follow-up single.
LEMMA WayStep == IInv /\ [Next]_vars => OnItsWayOnce'
  <1> SUFFICES ASSUME IInv, [Next]_vars PROVE OnItsWayOnce'
    OBVIOUS
  <1>0. /\ Typed /\ TypeOK /\ QueueIsDecided /\ OnItsWayOnce /\ Decides /\ mailbox \in Seq(Tasks)
        /\ actor = "opening" => handling \in Tasks
    BY DecidesStep DEF IInv, Typed, TypeOK
  <1>1. CASE /\ mailbox' = mailbox /\ followUps' = followUps
             /\ actor' = "opening" => actor = "opening" /\ handling' = handling
    BY <1>0, <1>1, QuietWay
  <1>2. ASSUME NEW t \in Tasks, Coordinate(t) PROVE OnItsWayOnce'
    <2>1. CASE mailbox' = mailbox
      BY <1>0, <1>2, <2>1, QuietWay DEF Coordinate, runs
    <2>2. CASE mailbox' # mailbox
      <3>1. /\ delivery[t] = "pending" /\ delivery'[t] = "delivered" /\ mailbox' = Append(mailbox, t)
            /\ actor' = actor /\ handling' = handling /\ followUps' = followUps
        BY <1>0, <1>2, <2>2 DEF Coordinate, runs, TypeOK
      <3>2. mailbox' = mailbox \o <<t>> /\ <<t>> \in Seq(Tasks)
        BY <1>0, <3>1, AppendIsConcat
      <3>3. \A i \in DOMAIN <<t>> : i = 1 /\ <<t>>[i] = t
        OBVIOUS
      <3> QED
        BY <1>0, <3>1, <3>2, <3>3, SendWay DEF Settled
    <2> QED
      BY <2>1, <2>2
  <1>3. ASSUME NEW who, ExitRun(who), actor' = "opening" => actor = "opening" /\ handling' = handling
        PROVE  OnItsWayOnce'
    <2>1. PICK sent \in InQueueOrder(Sent) : mailbox' = mailbox \o sent
      BY <1>3 DEF ExitRun, Drain
    <2>2. /\ sent \in Seq(Tasks)
          /\ \A i \in DOMAIN sent : sent[i] \in Sent
          /\ \A i, j \in DOMAIN sent : sent[i] = sent[j] => i = j
      BY <1>0, InQueueOrderSeq DEF Sent, TypeOK
    <2>3. \A t \in Sent : delivery[t] \notin Settled /\ delivery'[t] = "delivered"
      BY <1>0, <1>3, DrainDecides DEF Sent, Drains, Settled
    <2>4. followUps' = followUps
      BY <1>3 DEF ExitRun
    <2> QED
      BY <1>0, <1>3, <2>1, <2>2, <2>3, <2>4, SendWay
  <1>4. CASE ActorTakes
    <2>1. /\ handling' = mailbox[1] /\ delivery' = delivery /\ followUps' = followUps
          /\ 1 \in DOMAIN mailbox /\ actor # "opening"
      BY <1>0, <1>4, HeadTailProperties DEF ActorTakes
    <2>2. \A i \in DOMAIN mailbox' : i + 1 \in DOMAIN mailbox /\ mailbox'[i] = mailbox[i + 1] /\ i \in Nat \ {0}
      BY <1>0, <1>4, HeadTailProperties DEF ActorTakes
    <2>3. \A i, j \in DOMAIN mailbox' : mailbox'[i] = mailbox'[j] => i = j
      BY <1>0, <2>2 DEF OnItsWayOnce
    <2>4. \A i \in DOMAIN mailbox' : mailbox'[i] # mailbox[1]
      BY <1>0, <2>1, <2>2 DEF OnItsWayOnce
    <2> QED
      BY <1>0, <2>1, <2>2, <2>3, <2>4 DEF OnItsWayOnce
  <1>5. CASE ActorRuns
    <2>1. /\ mailbox' = mailbox /\ delivery' = delivery /\ actor' = "in" /\ handling \in Tasks
          /\ followUps'[handling] = followUps[handling] + 1
          /\ \A t \in Tasks : t # handling => followUps'[t] = followUps[t]
          /\ actor = "opening"
      BY <1>0, <1>5 DEF ActorRuns, TypeOK
    <2>2. \A i \in DOMAIN mailbox : mailbox[i] \in Tasks /\ mailbox[i] # handling
      BY <1>0, <2>1 DEF OnItsWayOnce
    <2> QED
      BY <1>0, <2>1, <2>2 DEF OnItsWayOnce
  <1> QED
    BY <1>0, <1>1, <1>2, <1>3, <1>4, <1>5
       DEF Next, vars, runs, Submit, End, UserEnters, UserLiftsSuppression, UserLeaves,
           Interrupt, SuppressionExpires, Discard, ActorFindsBusy, ActorLeaves

-----------------------------------------------------------------------------
(* Theorems.                                                               *)

\* The inductive invariant holds in every state.
THEOREM TaskDeliveryInvariant == Spec => []IInv
  <1>1. Init => IInv
    <2> SUFFICES ASSUME Init PROVE IInv
      OBVIOUS
    <2>1. Typed
      BY EmptySeq DEF Init, TypeOK, Typed
    <2>2. DecidedAreKnown /\ QueueIsDecided /\ SuppressionHolds /\ QueuedIsDrained
      BY DEF Init, DecidedAreKnown, QueueIsDecided, SuppressionHolds, QueuedIsDrained, Plain
    <2>3. OnItsWayOnce
      BY DEF Init, OnItsWayOnce
    <2> QED
      BY <2>1, <2>2, <2>3 DEF IInv
  <1>2. IInv /\ [Next]_vars => IInv'
    BY TypeStep, KnownStep, QueueStep, SuppressionStep, DrainedStep, WayStep DEF IInv
  <1> QED
    BY <1>1, <1>2, PTL DEF Spec

\* A task is followed up once at most, and only when its delivery is recorded as made:
\* whatever the interleaving of its end, an interrupt, a discard and a busy conversation.
THEOREM OneFollowUpAlways == Spec => []OneFollowUp
  <1>1. IInv => OneFollowUp
    <2> SUFFICES ASSUME TypeOK, OnItsWayOnce, NEW t \in Tasks
                 PROVE  followUps[t] + InMailbox(t) + Opening(t)
                          <= IF delivery[t] = "delivered" THEN 1 ELSE 0
      BY DEF IInv, Typed, OneFollowUp
    <2> DEFINE P == {i \in DOMAIN mailbox : mailbox[i] = t}
    <2>1. InMailbox(t) = Cardinality(P)
      BY DEF InMailbox
    <2>2. CASE P = {}
      <3>1. InMailbox(t) = 0
        BY <2>1, <2>2, FS_EmptySet
      <3> QED
        BY <3>1, SMTT(60) DEF OnItsWayOnce, Opening, TypeOK
    <2>3. CASE P # {}
      <3>1. PICK i \in DOMAIN mailbox : mailbox[i] = t
        BY <2>3
      <3>2. P = {i}
        BY <3>1 DEF OnItsWayOnce
      <3>3. InMailbox(t) = 1
        BY <2>1, <3>2, FS_Singleton
      <3> QED
        BY <3>1, <3>3 DEF OnItsWayOnce, Opening, TypeOK
    <2> QED
      BY <2>2, <2>3
  <1> QED
    BY <1>1, TaskDeliveryInvariant, PTL

\* A queued result always waits in the queue of the object held, under a run.
THEOREM QueuedIsDrainedAlways == Spec => []QueuedIsDrained
  BY TaskDeliveryInvariant, PTL DEF IInv

\* While deliveries are suppressed, no plain result is queued or delivered by any step.
THEOREM SuppressedIsSkippedAlways == Spec => SuppressedIsSkipped
  <1>1. IInv /\ [Next]_vars =>
          [\A t \in Plain : suppressed /\ delivery[t] \notin Settled
                              => delivery'[t] \notin {"queued", "delivered"}]_vars
    <2> SUFFICES ASSUME IInv, [Next]_vars, NEW t \in Plain, suppressed,
                        delivery[t] \notin Settled
                 PROVE  delivery'[t] \notin {"queued", "delivered"}
      OBVIOUS
    <2>1. /\ TypeOK /\ QueueIsDecided /\ OnItsWayOnce /\ t \in Tasks
          /\ present /\ delivery[t] = "pending"
      BY DEF IInv, Typed, SuppressionHolds, Plain, Settled, TypeOK
    <2>2. ASSUME NEW x \in Tasks, Coordinate(x) PROVE delivery'[t] \notin {"queued", "delivered"}
      <3>1. CASE x = t
        BY <2>1, <2>2, <3>1 DEF Coordinate, Suppressible, Skipped, TypeOK
      <3>2. CASE x # t
        BY <2>1, <2>2, <3>2, CoordinateDecides
      <3> QED
        BY <3>1, <3>2
    <2>3. CASE Interrupt \/ Discard
      BY <2>1, <2>3 DEF Interrupt, Discard, Skipped
    <2>4. ASSUME NEW who, ExitRun(who) PROVE delivery'[t] \notin {"queued", "delivered"}
      <3>1. ~Contains(queue, t)
        BY <2>1 DEF QueueIsDecided, Contains, TypeOK
      <3> QED
        BY <2>1, <2>4, <3>1, DrainDecides
    <2> QED
      BY <2>1, <2>2, <2>3, <2>4, FindsBusyDecides
         DEF Next, vars, Submit, End, UserEnters, UserLiftsSuppression, UserLeaves,
             SuppressionExpires, ActorTakes, ActorRuns, ActorLeaves
  <1> QED
    BY <1>1, TaskDeliveryInvariant, PTL DEF Spec, SuppressedIsSkipped

\* A decision about a delivery is never withdrawn, and one that was made or given up never
\* changes.
THEOREM DecisionsStand == Spec => [][Decides]_vars
  BY DecidesStep, TaskDeliveryInvariant, PTL DEF Spec

-----------------------------------------------------------------------------
(* The outbox.                                                             *)

\* What is on its way is the message being opened and, behind it, the mailbox.
LEMMA PostTells ==
  ASSUME Typed
  PROVE  /\ Post \in Seq(Tasks)
         /\ actor = "opening" => Post # <<>> /\ Head(Post) = handling /\ Tail(Post) = mailbox
         /\ actor # "opening" => Post = mailbox
         /\ \A t \in Tasks : Contains(Post, t)
              <=> (actor = "opening" /\ handling = t) \/ \E i \in DOMAIN mailbox : mailbox[i] = t
  <1>0. mailbox \in Seq(Tasks)
    BY DEF Typed, TypeOK
  <1>1. CASE actor # "opening"
    <2>1. Post = mailbox
      BY <1>0, <1>1, ConcatEmptySeq DEF Post
    <2> QED
      BY <1>0, <1>1, <2>1 DEF Contains
  <1>2. CASE actor = "opening"
    <2>1. handling \in Tasks /\ Post = <<handling>> \o mailbox
      BY <1>2 DEF Typed, Post
    <2>2. <<handling>> \in Seq(Tasks) /\ Len(<<handling>>) = 1 /\ <<handling>>[1] = handling
      BY <2>1
    <2>3. /\ Post \in Seq(Tasks) /\ Len(Post) = 1 + Len(mailbox)
          /\ \A i \in 1 .. 1 + Len(mailbox) :
               Post[i] = IF i <= 1 THEN <<handling>>[i] ELSE mailbox[i - 1]
      BY <1>0, <2>1, <2>2, ConcatProperties
    <2>4. Len(mailbox) \in Nat /\ DOMAIN mailbox = 1 .. Len(mailbox)
      BY <1>0, LenProperties
    <2>5. Post[1] = handling /\ \A i \in DOMAIN mailbox : i + 1 \in 1 .. Len(Post) /\ Post[i + 1] = mailbox[i]
      BY <2>2, <2>3, <2>4
    <2>6. \A i \in 1 .. Len(Post) : i = 1 \/ (i - 1 \in DOMAIN mailbox /\ Post[i] = mailbox[i - 1])
      BY <2>3, <2>4
    <2>7. Post # <<>> /\ Head(Post) = handling
      BY <2>3, <2>4, <2>5
    <2>8. Tail(Post) = mailbox
      <3>1. /\ Tail(Post) \in Seq(Tasks) /\ Len(Tail(Post)) = Len(Post) - 1
            /\ \A i \in 1 .. Len(Tail(Post)) : Tail(Post)[i] = Post[i + 1]
        BY <2>3, <2>7, HeadTailProperties
      <3>2. Len(Tail(Post)) = Len(mailbox)
        BY <2>3, <2>4, <3>1
      <3> QED
        BY <1>0, <2>4, <2>5, <3>1, <3>2, SeqEqual
    <2>9. 1 \in 1 .. Len(Post)
      BY <2>3, <2>4
    <2>10. \A t \in Tasks : Contains(Post, t)
              <=> handling = t \/ \E i \in DOMAIN mailbox : mailbox[i] = t
      BY <2>5, <2>6, <2>9 DEF Contains
    <2> QED
      BY <1>2, <2>3, <2>7, <2>8, <2>10
  <1> QED
    BY <1>1, <1>2

\* What is sent goes behind what is on its way.
LEMMA PostGrows ==
  ASSUME Typed, NEW sent \in Seq(Tasks), mailbox' = mailbox \o sent,
         actor' = "opening" <=> actor = "opening", actor = "opening" => handling' = handling
  PROVE  Post' = Post \o sent
  <1>0. mailbox \in Seq(Tasks)
    BY DEF Typed, TypeOK
  <1>1. CASE actor # "opening"
    <2>1. mailbox \o sent \in Seq(Tasks)
      BY <1>0, ConcatProperties
    <2>2. Post' = mailbox \o sent
      BY <1>1, <2>1, ConcatEmptySeq DEF Post
    <2> QED
      BY <1>0, <1>1, <2>2, ConcatEmptySeq DEF Post
  <1>2. CASE actor = "opening"
    <2>1. <<handling>> \in Seq(Tasks)
      BY <1>2 DEF Typed
    <2>2. Post' = <<handling>> \o (mailbox \o sent) /\ Post = <<handling>> \o mailbox
      BY <1>2 DEF Post
    <2> QED
      BY <1>0, <2>1, <2>2, ConcatAssociative
  <1> QED
    BY <1>1, <1>2

\* Nothing that is to be drained is left out.
LEMMA InQueueOrderAll ==
  ASSUME queue \in Seq(Tasks), NEW S \in SUBSET ToSet(queue), NEW s \in InQueueOrder(S)
  PROVE  \A t \in S : \E i \in DOMAIN s : s[i] = t
  <1> DEFINE n == Cardinality(S)
  <1>1. /\ s \in [1..n -> S]
        /\ \A i, j \in 1..n : i # j => s[i] # s[j]
    BY DEF InQueueOrder, SetToSeqs
  <1>2. IsFiniteSet(S) /\ n \in Nat
    BY MembersFinite, FS_Subset, FS_CardinalityType
  <1>3. s \in Injection(1..n, S)
    BY <1>1 DEF Injection, IsInjective
  <1>4. Cardinality(1..n) = n
    BY <1>2, FS_Interval
  <1>5. s \in Surjection(1..n, S)
    BY <1>2, <1>3, <1>4, FS_Injection
  <1> QED
    BY <1>5 DEF Surjection

\* The member of a sequence at some of its places.
Among(r, F, t) == \E i \in F : r[i] = t

\* A letter is one of these, as its delivery, its follow-up and its way tell.
LEMMA LetterTells ==
  ASSUME TypeOK, NEW t \in Tasks
  PROVE  /\ delivery[t] = "pending" => Letter(t) = Undecided(t)
         /\ delivery[t] = "queued" => Letter(t) = "kept"
         /\ delivery[t] = "skipped" => Letter(t) = "skipped"
         /\ delivery[t] = "delivered" /\ followUps[t] # 0 => Letter(t) = "made"
         /\ delivery[t] = "delivered" /\ followUps[t] = 0 /\ Contains(Post, t) => Letter(t) = "sent"
         /\ delivery[t] = "delivered" /\ followUps[t] = 0 /\ ~Contains(Post, t) => Letter(t) = "lost"
  BY DEF Letter, TypeOK

\* A letter stays as long as what tells it does.
LEMMA SameLetter ==
  ASSUME TypeOK, NEW t \in Tasks, delivery'[t] = delivery[t], followUps'[t] = followUps[t],
         Contains(Post, t)' <=> Contains(Post, t),
         delivery[t] = "pending" => status'[t] = status[t]
  PROVE  Letter(t)' = Letter(t)
  <1>1. delivery[t] \in {"pending", "queued", "skipped", "delivered"}
    BY DEF TypeOK
  <1>2. CASE delivery[t] = "pending"
    <2>1. Undecided(t)' = Undecided(t)
      BY <1>2 DEF Undecided
    <2>2. Letter(t)' = Undecided(t)' /\ Letter(t) = Undecided(t)
      BY <1>2 DEF Letter
    <2> QED
      BY <2>1, <2>2
  <1>3. CASE delivery[t] \in {"queued", "skipped"}
    BY <1>3 DEF Letter
  <1>4. CASE delivery[t] = "delivered"
    <2>1. Letter(t) = IF followUps[t] # 0 THEN "made" ELSE IF Contains(Post, t) THEN "sent" ELSE "lost"
      BY <1>4 DEF Letter
    <2>2. Letter(t)' = IF followUps'[t] # 0 THEN "made"
                       ELSE IF Contains(Post, t)' THEN "sent" ELSE "lost"
      BY <1>4 DEF Letter
    <2> QED
      BY <2>1, <2>2
  <1> QED
    BY <1>1, <1>2, <1>3, <1>4

\* Steps after which everything on its way and every letter is as before are no steps of it.
LEMMA OutboxStutter ==
  ASSUME Post' = Post, \A t \in Tasks : Letter(t)' = Letter(t)
  PROVE  UNCHANGED Results!outbox
  <1>1. [t \in Tasks |-> Letter(t)]' = [t \in Tasks |-> Letter(t)]
    OBVIOUS
  <1> QED
    BY <1>1 DEF Results!outbox

\* Steps that decide about tasks: those sent follow what is on its way, each once, the
\* others stay or are skipped.
LEMMA SettlesStep ==
  ASSUME Typed, Typed', OnItsWayOnce, followUps' = followUps, status' = status,
         NEW sent \in Seq(Tasks), Post' = Post \o sent,
         \A i, j \in DOMAIN sent : sent[i] = sent[j] => i = j,
         \A t \in Tasks :
           IF Contains(sent, t)
           THEN /\ delivery'[t] = "delivered"
                /\ \/ delivery[t] = "queued"
                   \/ delivery[t] = "pending" /\ status[t] \in {"done", "cancelled"}
           ELSE \/ delivery'[t] = delivery[t]
                \/ /\ delivery'[t] = "skipped"
                   /\ delivery[t] = "queued" \/ (delivery[t] = "pending" /\ status[t] # "absent")
  PROVE  Results!OutboxNext
  <1>0. TypeOK /\ TypeOK' /\ Post \in Seq(Tasks) /\ Post' \in Seq(Tasks)
    BY PostTells DEF Typed
  <1>1. /\ Len(Post) <= Len(Post') /\ \A i \in DOMAIN Post : Post'[i] = Post[i]
        /\ \A i, j \in Results!Fresh : Post'[i] = Post'[j] => i = j
        /\ \A t \in Tasks : Results!IsFresh(t) <=> Contains(sent, t)
        /\ \A t \in Tasks : Contains(Post', t) <=> Contains(Post, t) \/ Contains(sent, t)
    <2>1. Results!Fresh = {i \in DOMAIN Post' : i > Len(Post)}
      BY DEF Results!Fresh
    <2>2. PICK p, r, F : p = Post /\ r = Post' /\ F = Results!Fresh
      OBVIOUS
    <2>3. /\ p \in Seq(Tasks) /\ r = p \o sent /\ F = {i \in DOMAIN r : i > Len(p)}
          /\ \A i, j \in DOMAIN sent : sent[i] = sent[j] => i = j
      BY <1>0, <2>1, <2>2
    <2>4. /\ Len(p) <= Len(r) /\ \A i \in DOMAIN p : r[i] = p[i]
          /\ \A i, j \in F : r[i] = r[j] => i = j
          /\ \A t \in Tasks : Among(r, F, t) <=> Contains(sent, t)
          /\ \A t \in Tasks : Contains(r, t) <=> Contains(p, t) \/ Contains(sent, t)
      <3>1. /\ r \in Seq(Tasks) /\ Len(r) = Len(p) + Len(sent)
            /\ \A i \in 1 .. Len(p) + Len(sent) : r[i] = IF i <= Len(p) THEN p[i] ELSE sent[i - Len(p)]
        BY <2>3, ConcatProperties
      <3>2. /\ Len(p) \in Nat /\ DOMAIN p = 1 .. Len(p) /\ Len(sent) \in Nat /\ DOMAIN sent = 1 .. Len(sent)
            /\ DOMAIN r = 1 .. Len(r)
        BY <2>3, <3>1, LenProperties
      <3>3. \A i \in F : i \in Int /\ i - Len(p) \in DOMAIN sent /\ r[i] = sent[i - Len(p)]
        BY <2>3, <3>1, <3>2
      <3>4. \A i \in DOMAIN sent : i + Len(p) \in F /\ r[i + Len(p)] = sent[i]
        BY <2>3, <3>1, <3>2
      <3>5. \A i \in DOMAIN p : i \in DOMAIN r /\ r[i] = p[i]
        BY <2>3, <3>1, <3>2
      <3>6. \A i \in DOMAIN r : i \in DOMAIN p \/ i \in F
        BY <2>3, <3>1, <3>2
      <3>7. \A i \in F : i \in DOMAIN r
        BY <2>3
      <3>8. ASSUME NEW i \in F, NEW j \in F, r[i] = r[j] PROVE i = j
        <4>1. i - Len(p) = j - Len(p)
          BY <3>3, <3>8
        <4> QED
          BY <2>3, <3>2, <3>3, <4>1
      <3>9. ASSUME NEW t \in Tasks PROVE Among(r, F, t) <=> Contains(sent, t)
        <4>1. ASSUME NEW i \in F, r[i] = t PROVE \E k \in DOMAIN sent : sent[k] = t
          BY <3>3, <4>1
        <4>2. ASSUME NEW i \in DOMAIN sent, sent[i] = t PROVE \E k \in F : r[k] = t
          BY <3>4, <4>2
        <4> QED
          BY <3>2, <4>1, <4>2 DEF Among, Contains
      <3>10. ASSUME NEW t \in Tasks PROVE Contains(r, t) <=> Contains(p, t) \/ Contains(sent, t)
        BY <3>2, <3>5, <3>6, <3>7, <3>9 DEF Contains, Among
      <3>11. Len(p) <= Len(r)
        BY <2>3, <3>1, <3>2
      <3> QED
        BY <3>5, <3>8, <3>9, <3>10, <3>11
    <2>5. \A t \in Tasks : Results!IsFresh(t) <=> Among(r, F, t)
      BY <2>2 DEF Results!IsFresh, Among
    <2> QED
      BY <2>2, <2>4, <2>5
  <1>2. \A t \in Tasks : Contains(Post, t)' <=> Contains(Post, t) \/ Contains(sent, t)
    BY <1>1 DEF Contains
  <1>3. ASSUME NEW t \in Tasks, Contains(sent, t)
         PROVE  Letter(t) \in {"owed", "kept"} /\ Letter(t)' = "sent"
    <2>1. delivery'[t] = "delivered" /\ delivery[t] # "delivered"
      BY <1>3
    <2>2. followUps'[t] = 0
      BY <2>1 DEF OnItsWayOnce
    <2>3. Letter(t)' = "sent"
      BY <1>0, <1>2, <1>3, <2>1, <2>2, LetterTells DEF Letter
    <2>4. Letter(t) \in {"owed", "kept"}
      BY <1>0, <1>3, LetterTells DEF Undecided
    <2> QED
      BY <2>3, <2>4
  <1>4. ASSUME NEW t \in Tasks, ~Contains(sent, t)
         PROVE  \/ Letter(t)' = Letter(t)
                \/ Letter(t) \in {"open", "owed", "kept"} /\ Letter(t)' = "skipped"
    <2>1. CASE delivery'[t] = delivery[t]
      BY <1>0, <1>2, <1>4, <2>1, SameLetter
    <2>2. CASE delivery'[t] # delivery[t]
      <3>1. /\ delivery'[t] = "skipped"
            /\ delivery[t] = "queued" \/ (delivery[t] = "pending" /\ status[t] # "absent")
        BY <1>4, <2>2
      <3>2. Letter(t)' = "skipped"
        BY <3>1 DEF Letter
      <3>3. Letter(t) \in {"open", "owed", "kept"}
        BY <1>0, <3>1, LetterTells DEF Undecided
      <3> QED
        BY <3>2, <3>3
    <2> QED
      BY <2>1, <2>2
  <1>5. Results!Settles
    BY <1>1, <1>3, <1>4 DEF Results!Settles, Results!IsSent, Results!IsSkipped
  <1> QED
    BY <1>5 DEF Results!OutboxNext

\* A task is registered and ends.
LEMMA TaskIsLetter ==
  ASSUME IInv, NEW t \in Tasks, Submit(t) \/ \E how \in {"done", "cancelled"} : End(t, how)
  PROVE  Results!OutboxNext \/ UNCHANGED Results!outbox
  <1>0. TypeOK /\ DecidedAreKnown
    BY DEF IInv, Typed
  <1>1. /\ UNCHANGED <<delivery, followUps, mailbox, actor, handling>>
        /\ \A x \in Tasks \ {t} : status'[x] = status[x]
    BY <1>0 DEF Submit, End, runs, TypeOK
  <1>2. Post' = Post
    BY <1>1 DEF Post
  <1>3. \A x \in Tasks \ {t} : Letter(x)' = Letter(x)
    BY <1>0, <1>1, <1>2, SameLetter DEF Contains
  <1>4. CASE Submit(t)
    <2>1. status[t] = "absent" /\ status'[t] = "running" /\ delivery[t] = "pending"
      BY <1>0, <1>4 DEF Submit, DecidedAreKnown, TypeOK
    <2>2. Letter(t) = "absent" /\ Letter(t)' = "open"
      BY <1>1, <2>1 DEF Letter, Undecided
    <2>3. Results!Opens(t)
      BY <1>2, <1>3, <2>2 DEF Results!Opens
    <2> QED
      BY <2>3 DEF Results!OutboxNext
  <1>5. CASE \E how \in {"done", "cancelled"} : End(t, how)
    <2>1. status[t] = "running" /\ status'[t] \in {"done", "cancelled"}
      BY <1>0, <1>5 DEF End, TypeOK
    <2>2. CASE delivery[t] = "pending"
      <3>1. Letter(t) = "open" /\ Letter(t)' = "owed"
        BY <1>1, <2>1, <2>2 DEF Letter, Undecided
      <3>2. Results!Closes(t)
        BY <1>2, <1>3, <3>1 DEF Results!Closes
      <3> QED
        BY <3>2 DEF Results!OutboxNext
    <2>3. CASE delivery[t] # "pending"
      <3>1. Letter(t)' = Letter(t)
        BY <1>0, <1>1, <1>2, <2>3, SameLetter DEF Contains
      <3> QED
        BY <1>2, <1>3, <3>1, OutboxStutter
    <2> QED
      BY <2>2, <2>3
  <1> QED
    BY <1>4, <1>5

\* The coordinator keeps, sends or skips the result of one terminal task.
LEMMA CoordinateIsOutbox ==
  ASSUME IInv, IInv', NEW t \in Tasks, Coordinate(t)
  PROVE  Results!OutboxNext \/ UNCHANGED Results!outbox
  <1>0. /\ Typed /\ Typed' /\ TypeOK /\ OnItsWayOnce /\ mailbox \in Seq(Tasks)
        /\ status[t] \in {"done", "cancelled"}
    BY DEF IInv, Typed, TypeOK, DecidedAreKnown, Coordinate
  <1>1. UNCHANGED <<status, followUps, actor, handling>>
    BY DEF Coordinate, runs
  <1>2. \A x \in Tasks \ {t} : delivery'[x] = delivery[x]
    BY <1>0, CoordinateDecides
  <1>3. CASE mailbox' = mailbox /\ delivery'[t] = delivery[t]
    <2>1. Post' = Post
      BY <1>1, <1>3 DEF Post
    <2> QED
      BY <1>0, <1>1, <1>2, <1>3, <2>1, SameLetter, OutboxStutter DEF Contains
  <1>4. CASE mailbox' = mailbox /\ delivery[t] = "pending" /\ delivery'[t] = "skipped"
    <2>1. <<>> \in Seq(Tasks) /\ mailbox' = mailbox \o <<>> /\ \A i \in DOMAIN <<>> : FALSE
      BY <1>0, <1>4, ConcatEmptySeq
    <2>2. Post' = Post \o <<>>
      BY <1>0, <1>1, <2>1, PostGrows
    <2>3. \A x \in Tasks : ~Contains(<<>>, x)
      BY DEF Contains
    <2> QED
      BY <1>0, <1>1, <1>2, <1>4, <2>1, <2>2, <2>3, SettlesStep
  <1>5. CASE mailbox' = mailbox /\ delivery[t] = "pending" /\ delivery'[t] = "queued"
    <2>1. Post' = Post
      BY <1>1, <1>5 DEF Post
    <2>2. \A x \in Tasks \ {t} : Letter(x)' = Letter(x)
      BY <1>0, <1>1, <1>2, <2>1, SameLetter DEF Contains
    <2>3. Letter(t) = "owed" /\ Letter(t)' = "kept"
      BY <1>0, <1>5 DEF Letter, Undecided
    <2>4. Results!Keeps(t)
      BY <2>1, <2>2, <2>3 DEF Results!Keeps
    <2> QED
      BY <2>4 DEF Results!OutboxNext
  <1>6. CASE mailbox' = Append(mailbox, t) /\ delivery[t] = "pending" /\ delivery'[t] = "delivered"
    <2>1. /\ <<t>> \in Seq(Tasks) /\ mailbox' = mailbox \o <<t>>
          /\ \A i \in DOMAIN <<t>> : i = 1 /\ <<t>>[i] = t
          /\ 1 \in DOMAIN <<t>> /\ <<t>>[1] = t
      BY <1>0, <1>6, AppendIsConcat
    <2>2. Post' = Post \o <<t>>
      BY <1>0, <1>1, <2>1, PostGrows
    <2>3. \A x \in Tasks : Contains(<<t>>, x) <=> x = t
      BY <2>1 DEF Contains
    <2>4. \A i, j \in DOMAIN <<t>> : <<t>>[i] = <<t>>[j] => i = j
      BY <2>1
    <2> DEFINE sent == <<t>>
    <2>5. sent \in Seq(Tasks) /\ Post' = Post \o sent
          /\ \A i, j \in DOMAIN sent : sent[i] = sent[j] => i = j
      BY <2>1, <2>2, <2>4
    <2>6. \A x \in Tasks :
            IF Contains(sent, x)
            THEN delivery'[x] = "delivered" /\ delivery[x] = "pending"
                   /\ status[x] \in {"done", "cancelled"}
            ELSE delivery'[x] = delivery[x]
      BY <1>0, <1>2, <1>6, <2>3
    <2> QED
      <3> HIDE DEF sent
      <3> QED
        BY <1>0, <1>1, <2>6, <2>5, SettlesStep
  <1>7. \/ delivery[t] # "pending" /\ mailbox' = mailbox /\ delivery' = delivery
        \/ delivery[t] = "pending" /\ mailbox' = mailbox /\ delivery' = Skipped({t})
        \/ /\ delivery[t] = "pending" /\ mailbox' = mailbox
           /\ delivery' = [delivery EXCEPT ![t] = "queued"]
        \/ /\ delivery[t] = "pending" /\ mailbox' = Append(mailbox, t)
           /\ delivery' = [delivery EXCEPT ![t] = "delivered"]
    BY DEF Coordinate
  <1> QED
    BY <1>0, <1>3, <1>4, <1>5, <1>6, <1>7 DEF Skipped, TypeOK

\* A drain sends what the queue still owes, in its order, and skips what was cancelled.
LEMMA DrainIsOutbox ==
  ASSUME IInv, IInv', NEW who, ExitRun(who),
         actor' = "opening" <=> actor = "opening", actor = "opening" => handling' = handling
  PROVE  Results!OutboxNext
  <1>0. Typed /\ Typed' /\ TypeOK /\ OnItsWayOnce /\ QueueIsDecided
    BY DEF IInv, Typed
  <1>1. PICK sent \in InQueueOrder(Sent) : mailbox' = mailbox \o sent
    BY DEF ExitRun, Drain
  <1>2. /\ sent \in Seq(Tasks)
        /\ \A i \in DOMAIN sent : sent[i] \in Sent
        /\ \A i, j \in DOMAIN sent : sent[i] = sent[j] => i = j
    BY <1>0, InQueueOrderSeq DEF Sent, TypeOK
  <1>3. Post' = Post \o sent
    BY <1>0, <1>1, <1>2, PostGrows
  <1>4. UNCHANGED <<status, followUps>>
    BY DEF ExitRun
  <1>5. \A t \in Sent : \E i \in DOMAIN sent : sent[i] = t
    <2>1. queue \in Seq(Tasks) /\ Sent \in SUBSET ToSet(queue)
      BY <1>0 DEF Sent, TypeOK
    <2> QED
      BY <2>1, InQueueOrderAll
  <1>6. \A t \in Tasks : Contains(sent, t) <=> t \in Sent
    BY <1>2, <1>5 DEF Contains
  <1>7. ASSUME NEW t \in Sent
        PROVE  t \in Tasks => delivery'[t] = "delivered" /\ delivery[t] = "queued"
    <2>1. delivery'[t] = "delivered"
      BY <1>0, DrainDecides
    <2>2. t \in ToSet(queue) /\ delivery[t] \in {"pending", "queued"}
      BY DEF Sent, Drains
    <2>3. delivery[t] # "pending"
      BY <1>0, <2>2 DEF QueueIsDecided, ToSet, TypeOK
    <2> QED
      BY <2>1, <2>2, <2>3
  <1>8. ASSUME NEW t \in Tasks, t \notin Sent
        PROVE  delivery'[t] = delivery[t] \/ (delivery'[t] = "skipped" /\ delivery[t] = "queued")
    <2>1. delivery'[t] = IF t \in Dropped THEN "skipped" ELSE delivery[t]
      BY <1>8 DEF ExitRun, Drain, Skipped
    <2>2. ASSUME t \in Dropped PROVE delivery[t] = "queued"
      <3>1. t \in ToSet(queue) /\ delivery[t] \in {"pending", "queued"}
        BY <2>2 DEF Dropped, Drains
      <3> QED
        BY <1>0, <3>1 DEF QueueIsDecided, ToSet, TypeOK
    <2> QED
      BY <2>1, <2>2
  <1>9. \A t \in Tasks :
          IF Contains(sent, t)
          THEN delivery'[t] = "delivered" /\ delivery[t] = "queued"
          ELSE delivery'[t] = delivery[t] \/ (delivery'[t] = "skipped" /\ delivery[t] = "queued")
    BY <1>6, <1>7, <1>8
  <1> QED
    BY <1>0, <1>2, <1>3, <1>4, <1>9, SettlesStep

\* An interrupt, and the end of an object, skip registered tasks and send nothing.
LEMMA SkippingIsOutbox ==
  ASSUME IInv, IInv', Interrupt \/ Discard
  PROVE  Results!OutboxNext
  <1>0. Typed /\ Typed' /\ TypeOK /\ OnItsWayOnce /\ mailbox \in Seq(Tasks)
    BY DEF IInv, Typed, TypeOK
  <1>1. /\ UNCHANGED <<status, followUps, mailbox, handling>>
        /\ delivery' = Skipped(Skippable)
        /\ actor' = "opening" <=> actor = "opening"
    BY DEF Interrupt, Discard, runs
  <1>2. \A t \in Tasks : \/ delivery'[t] = delivery[t]
                         \/ /\ delivery'[t] = "skipped" /\ status[t] # "absent"
                            /\ delivery[t] \in {"pending", "queued"}
    BY <1>1 DEF Skipped, Skippable
  <1>3. <<>> \in Seq(Tasks) /\ mailbox' = mailbox \o <<>> /\ \A i \in DOMAIN <<>> : FALSE
    BY <1>0, <1>1, ConcatEmptySeq
  <1>4. Post' = Post \o <<>>
    BY <1>0, <1>1, <1>3, PostGrows
  <1>5. \A x \in Tasks : ~Contains(<<>>, x)
    BY DEF Contains
  <1> QED
    BY <1>0, <1>1, <1>2, <1>3, <1>4, <1>5, SettlesStep

\* The actor takes the letter sent first, and runs its follow-up or puts it back.
LEMMA OpenedIsTaken ==
  ASSUME IInv, IInv', ActorRuns \/ ActorFindsBusy
  PROVE  Results!OutboxNext
  <1>0. /\ Typed /\ Typed' /\ TypeOK /\ OnItsWayOnce /\ actor = "opening" /\ handling \in Tasks
        /\ delivery[handling] = "delivered" /\ followUps[handling] = 0
    BY DEF IInv, Typed, OnItsWayOnce, ActorRuns, ActorFindsBusy
  <1>1. PICK h \in Tasks : h = handling
    BY <1>0
  <1>2. /\ UNCHANGED <<status, mailbox, delivery>> /\ actor' # "opening"
        /\ \A t \in Tasks \ {h} : followUps'[t] = followUps[t]
        /\ followUps'[h] = IF ActorRuns THEN 1 ELSE 0
        /\ ActorRuns \/ ActorFindsBusy
    BY <1>0, <1>1, FindsBusyDecides DEF ActorRuns, ActorFindsBusy, TypeOK
  <1>3. Post # <<>> /\ Head(Post) = h /\ Post' = Tail(Post) /\ Post' = mailbox
    <2>1. Post # <<>> /\ Head(Post) = h /\ Tail(Post) = mailbox
      BY <1>0, <1>1, PostTells
    <2>2. Post' = mailbox'
      BY <1>0, <1>2, ConcatEmptySeq DEF Post, TypeOK
    <2> QED
      BY <1>2, <2>1, <2>2
  <1>4. \A t \in Tasks : /\ Contains(Post, t)' <=> \E i \in DOMAIN mailbox : mailbox[i] = t
                         /\ Contains(Post, t) <=>
                              h = t \/ \E i \in DOMAIN mailbox : mailbox[i] = t
    <2>1. \A t \in Tasks : Contains(Post, t) <=>
                              h = t \/ \E i \in DOMAIN mailbox : mailbox[i] = t
      BY <1>0, <1>1, PostTells
    <2>2. DOMAIN mailbox = 1 .. Len(mailbox)
      BY <1>0 DEF TypeOK
    <2> QED
      BY <1>3, <2>1, <2>2 DEF Contains
  <1>5. \A t \in Tasks \ {h} : Letter(t)' = Letter(t)
    BY <1>0, <1>2, <1>4, SameLetter
  <1>6. Letter(h) = "sent"
    BY <1>0, <1>1, <1>4, LetterTells
  <1>7. ~Contains(Post, h)'
    BY <1>0, <1>1, <1>4 DEF OnItsWayOnce
  <1>8. CASE ActorRuns
    <2>1. Letter(h)' = "made"
      BY <1>0, <1>1, <1>2, <1>8 DEF Letter
    <2>2. Results!Taken("made")
      BY <1>3, <1>5, <1>6, <2>1 DEF Results!Taken
    <2> QED
      BY <2>2 DEF Results!OutboxNext
  <1>9. CASE ~ActorRuns
    <2>1. Letter(h)' = "lost"
      BY <1>0, <1>1, <1>2, <1>7, <1>9 DEF Letter
    <2>2. Results!Taken("lost")
      BY <1>3, <1>5, <1>6, <2>1 DEF Results!Taken
    <2> QED
      BY <2>2 DEF Results!OutboxNext
  <1> QED
    BY <1>8, <1>9

\* Every step of TaskDelivery maps to a step of the outbox or to a stutter.
LEMMA OutboxStep == IInv /\ IInv' /\ [Next]_vars => [Results!OutboxNext]_(Results!outbox)
  <1> SUFFICES ASSUME IInv, IInv', [Next]_vars
               PROVE  Results!OutboxNext \/ UNCHANGED Results!outbox
    OBVIOUS
  <1>0. TypeOK /\ Typed
    BY DEF IInv, Typed
  <1>1. ASSUME UNCHANGED <<status, delivery, followUps>>, Post' = Post
        PROVE  UNCHANGED Results!outbox
    <2>1. \A t \in Tasks : Letter(t)' = Letter(t)
      BY <1>0, <1>1, SameLetter DEF Contains
    <2> QED
      BY <1>1, <2>1, OutboxStutter
  <1>2. ASSUME UNCHANGED <<status, delivery, followUps, mailbox, actor, handling>>
        PROVE  UNCHANGED Results!outbox
    <2>1. Post' = Post
      BY <1>2 DEF Post
    <2> QED
      BY <1>1, <1>2, <2>1
  <1>3. ASSUME ActorTakes PROVE UNCHANGED Results!outbox
    <2>1. /\ UNCHANGED <<status, delivery, followUps>>
          /\ mailbox # <<>> /\ mailbox' = Tail(mailbox) /\ handling' = Head(mailbox)
          /\ actor' = "opening" /\ actor = "receiving" /\ mailbox \in Seq(Tasks)
      BY <1>0, <1>3 DEF ActorTakes, TypeOK
    <2>2. Post = mailbox
      BY <1>0, <2>1, PostTells
    <2>3. mailbox = <<Head(mailbox)>> \o Tail(mailbox)
      BY <2>1
    <2>4. Post' = <<Head(mailbox)>> \o Tail(mailbox)
      BY <2>1 DEF Post
    <2> QED
      BY <1>1, <2>1, <2>2, <2>3, <2>4
  <1>4. ASSUME UserLeaves \/ \E next \in {"receiving", "dead"} : ActorLeaves(next)
        PROVE  Results!OutboxNext
    <2>1. CASE UserLeaves
      <3>1. ExitRun(user) /\ actor' = actor /\ handling' = handling
        BY <2>1 DEF UserLeaves
      <3> QED
        BY <3>1, DrainIsOutbox
    <2>2. ASSUME NEW next \in {"receiving", "dead"}, ActorLeaves(next) PROVE Results!OutboxNext
      <3>1. ExitRun(actor) /\ actor' # "opening" /\ actor # "opening"
        BY <2>2 DEF ActorLeaves
      <3> QED
        BY <3>1, DrainIsOutbox
    <2> QED
      BY <1>4, <2>1, <2>2
  <1> QED
    BY <1>2, <1>3, <1>4, TaskIsLetter, CoordinateIsOutbox, SkippingIsOutbox, OpenedIsTaken
       DEF Next, vars, conversation, runs, UserEnters, UserLiftsSuppression, SuppressionExpires

\* The coordinator implements an outbox, for every set of tasks and every length of queue and
\* mailbox (schedule_task_delivery, drain_pending_task_deliveries, the actor's mailbox loop).
THEOREM ResultsAreSettledOnceAlways == Spec => ResultsAreSettledOnce
  <1>1. Init => Results!OutboxInit
    <2> SUFFICES ASSUME Init PROVE Results!OutboxInit
      OBVIOUS
    <2>1. \A t \in Tasks : Letter(t) = "absent"
      BY DEF Init, Letter, Undecided
    <2>2. Post = <<>>
      BY ConcatEmptySeq, EmptySeq DEF Init, Post
    <2> QED
      BY <2>1, <2>2 DEF Results!OutboxInit
  <1> QED
    BY <1>1, TaskDeliveryInvariant, OutboxStep, PTL
       DEF Spec, ResultsAreSettledOnce, Results!OutboxSpec
=============================================================================
