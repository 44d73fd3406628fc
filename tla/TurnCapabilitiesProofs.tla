----------------------- MODULE TurnCapabilitiesProofs -----------------------
(***************************************************************************)
(* Proofs about TurnCapabilities, for every finite set of calls and every  *)
(* limit: the budget of a turn is never exceeded, its counters are exactly *)
(* the reservations, no call that ran keeps a slot, an answer is read      *)
(* once, and the whole implements LimitedCalls.  And about Codex, the      *)
(* other facility of code in the kernel, for every set of asks: one thread *)
(* per session, and a list of models that is whole.  The two share no      *)
(* state.                                                                  *)
(***************************************************************************)
EXTENDS TurnCapabilities, Codex, FiniteSetTheorems, SequenceTheorems, TLAPS

\* The part of the state the reservations own, and what holds of it.
reservations == <<successes, inFlight, turnOf, slot>>

Budget ==
  /\ successes \in [Turns -> [Caps -> Nat]]
  /\ inFlight \in [Turns -> [Caps -> Nat]]
  /\ turnOf \in [Calls -> Turns \cup {NoTurn}]
  /\ slot \in [Calls -> {"none", "held", "committed", "released"}]
  /\ \A c \in Calls : slot[c] # "none" => turnOf[c] \in Turns
  /\ SlotsAccounted
  /\ WithinLimit

\* A call that has not begun has no slot, one that is scheduled or runs still holds it.
StageTellsSlot ==
  \A c \in Calls :
    /\ stage[c] \in {"idle", "refused"} => slot[c] = "none"
    /\ stage[c] \in {"scheduled", "running"} => slot[c] = "held"

\* While its caller waits, a fixer's delivery is held unless it was given up, and an
\* answer settles it as skipped.
WaitingHolds ==
  \A c \in Fixers :
    /\ caller[c] = "waiting" => delivery[c] \in {"held", "skipped"}
    /\ caller[c] = "answered" => delivery[c] = "skipped"

IInv == TypeOK /\ Budget /\ StageTellsSlot /\ EndedHoldsNoSlot /\ WaitingHolds

-----------------------------------------------------------------------------
(* Counting.                                                               *)

\* The reservations of one kind form a finite set, so they can be counted.
LEMMA WithIsFinite ==
  ASSUME NEW k, NEW p, NEW s
  PROVE  IsFiniteSet(With(k, p, s)) /\ Cardinality(With(k, p, s)) \in Nat
  <1>1. IsFiniteSet(Calls) /\ With(k, p, s) \in SUBSET Calls
    BY CapabilityAssumption DEF With
  <1>2. IsFiniteSet(With(k, p, s))
    BY <1>1, FS_Subset
  <1> QED
    BY <1>2, FS_CardinalityType

\* A reservation that is none of the kind before becomes one more of it.
LEMMA OneMore ==
  ASSUME NEW k, NEW p, NEW s, NEW c, c \notin With(k, p, s),
         With(k, p, s)' = With(k, p, s) \cup {c}
  PROVE  Cardinality(With(k, p, s)') = Cardinality(With(k, p, s)) + 1
  BY WithIsFinite, FS_AddElement

\* One that leaves the kind makes one less, and there was one.
LEMMA OneFewer ==
  ASSUME NEW k, NEW p, NEW s, NEW c, c \in With(k, p, s),
         With(k, p, s)' = With(k, p, s) \ {c}
  PROVE  /\ Cardinality(With(k, p, s)) > 0
         /\ Cardinality(With(k, p, s)') = Cardinality(With(k, p, s)) - 1
  <1>1. Cardinality(With(k, p, s)) # 0
    BY WithIsFinite, FS_EmptySet
  <1>2. Cardinality(With(k, p, s) \ {c}) = Cardinality(With(k, p, s)) - 1
    BY WithIsFinite, FS_RemoveElement
  <1> QED
    BY <1>1, <1>2, WithIsFinite

\* A step that leaves the reservations alone leaves the budget alone.
LEMMA BudgetStays ==
  ASSUME Budget, UNCHANGED reservations
  PROVE  Budget'
  <1>1. /\ successes' = successes /\ inFlight' = inFlight
        /\ turnOf' = turnOf /\ slot' = slot
    BY DEF reservations
  <1>2. \A k \in Turns, p \in Caps :
          /\ With(k, p, "held")' = With(k, p, "held")
          /\ With(k, p, "committed")' = With(k, p, "committed")
    BY <1>1 DEF With
  <1>3. SlotsAccounted'
    BY <1>1, <1>2 DEF Budget, SlotsAccounted
  <1>4. WithinLimit'
    BY <1>1 DEF Budget, WithinLimit
  <1> QED
    BY <1>1, <1>3, <1>4 DEF Budget

\* reserve() admits a call only where the limit leaves room for one more.
LEMMA ReserveKeepsBudget ==
  ASSUME Budget, NEW c \in Calls, NEW k \in Turns, slot[c] = "none", Reserve(c, k)
  PROVE  Budget'
  <1> DEFINE q == CapOf[c]
  <1>1. q \in Caps /\ Limit \in [Caps -> Nat \ {0}]
    BY CapabilityAssumption
  <1>2. /\ inFlight' = [inFlight EXCEPT ![k][q] = @ + 1] /\ successes' = successes
        /\ turnOf' = [turnOf EXCEPT ![c] = k] /\ slot' = [slot EXCEPT ![c] = "held"]
        /\ successes[k][q] + inFlight[k][q] < Limit[q]
    BY DEF Reserve, HasRoom
  <1>3. inFlight' \in [Turns -> [Caps -> Nat]]
    BY <1>1, <1>2 DEF Budget
  <1>4. \A j \in Turns, p \in Caps :
          inFlight'[j][p] = IF j = k /\ p = q THEN inFlight[k][q] + 1 ELSE inFlight[j][p]
    BY <1>1, <1>2 DEF Budget
  <1>5. ASSUME NEW j \in Turns, NEW p \in Caps
        PROVE  /\ inFlight'[j][p] = Cardinality(With(j, p, "held")')
               /\ successes'[j][p] = Cardinality(With(j, p, "committed")')
    <2>1. With(j, p, "committed")' = With(j, p, "committed")
      BY <1>2 DEF With, Budget
    <2>2. CASE j = k /\ p = q
      <3>1. c \notin With(j, p, "held") /\ With(j, p, "held")' = With(j, p, "held") \cup {c}
        BY <1>2, <2>2 DEF With, Budget
      <3> QED
        BY <1>2, <1>4, <2>1, <2>2, <3>1, OneMore DEF Budget, SlotsAccounted
    <2>3. CASE ~(j = k /\ p = q)
      <3>1. With(j, p, "held")' = With(j, p, "held")
        BY <1>2, <2>3 DEF With, Budget
      <3> QED
        BY <1>2, <1>4, <2>1, <2>3, <3>1 DEF Budget, SlotsAccounted
    <2> QED
      BY <2>2, <2>3
  <1>6. WithinLimit'
    <2> SUFFICES ASSUME NEW j \in Turns, NEW p \in Caps
                 PROVE  successes'[j][p] + inFlight'[j][p] <= Limit[p]
      BY DEF WithinLimit
    <2>1. successes[j][p] \in Nat /\ inFlight[j][p] \in Nat /\ Limit[p] \in Nat
      BY <1>1 DEF Budget
    <2>2. successes[j][p] + inFlight[j][p] <= Limit[p]
      BY DEF Budget, WithinLimit
    <2> QED
      BY <1>2, <1>4, <2>1, <2>2
  <1> QED
    BY <1>2, <1>3, <1>5, <1>6 DEF Budget, SlotsAccounted

\* commit() and release() take the reservation out of the pending ones, once; a commit
\* counts it as a success.
LEMMA SettlingKeepsBudget ==
  ASSUME Budget, NEW c \in Calls, Commit(c) \/ Release(c), UNCHANGED turnOf
  PROVE  Budget' /\ slot'[c] # "held" /\ \A d \in Calls \ {c} : slot'[d] = slot[d]
  <1>1. CASE slot[c] # "held"
    <2>1. UNCHANGED reservations
      BY <1>1 DEF Commit, Release, reservations
    <2> QED
      BY <1>1, <2>1, BudgetStays DEF reservations
  <1>2. CASE slot[c] = "held"
    <2> DEFINE k == turnOf[c]
               q == CapOf[c]
    <2>1. k \in Turns /\ q \in Caps /\ Limit \in [Caps -> Nat \ {0}]
      BY <1>2, CapabilityAssumption DEF Budget
    <2>2. /\ inFlight' = [inFlight EXCEPT ![k][q] = OneLess(@)]
          /\ \/ /\ successes' = [successes EXCEPT ![k][q] = @ + 1]
                /\ slot' = [slot EXCEPT ![c] = "committed"]
             \/ /\ successes' = successes
                /\ slot' = [slot EXCEPT ![c] = "released"]
      BY <1>2 DEF Commit, Release
    <2>3. inFlight[k][q] \in Nat /\ inFlight[k][q] > 0
      <3>1. c \in With(k, q, "held")
        BY <1>2 DEF With
      <3>2. Cardinality(With(k, q, "held")) # 0
        BY <3>1, WithIsFinite, FS_EmptySet
      <3>3. inFlight[k][q] = Cardinality(With(k, q, "held")) /\ inFlight[k][q] \in Nat
        BY <2>1 DEF Budget, SlotsAccounted
      <3> QED
        BY <3>2, <3>3
    <2>4. inFlight' = [inFlight EXCEPT ![k][q] = @ - 1]
      <3>1. OneLess(inFlight[k][q]) = inFlight[k][q] - 1
        BY <2>3 DEF OneLess
      <3> QED
        BY <2>2, <3>1
    <2>5. \A j \in Turns, p \in Caps :
            inFlight'[j][p] = IF j = k /\ p = q THEN inFlight[k][q] - 1 ELSE inFlight[j][p]
      BY <2>1, <2>4 DEF Budget
    <2>6. inFlight' \in [Turns -> [Caps -> Nat]]
      BY <2>1, <2>3, <2>4 DEF Budget
    <2>7. ASSUME NEW j \in Turns, NEW p \in Caps
          PROVE  inFlight'[j][p] = Cardinality(With(j, p, "held")')
      <3>1. CASE j = k /\ p = q
        <4>1. /\ c \in With(j, p, "held")
              /\ With(j, p, "held")' = With(j, p, "held") \ {c}
          BY <1>2, <2>2, <3>1 DEF With, Budget
        <4> QED
          BY <2>5, <3>1, <4>1, OneFewer DEF Budget, SlotsAccounted
      <3>2. CASE ~(j = k /\ p = q)
        <4>1. With(j, p, "held")' = With(j, p, "held")
          BY <1>2, <2>2, <3>2 DEF With, Budget
        <4> QED
          BY <2>5, <3>2, <4>1 DEF Budget, SlotsAccounted
      <3> QED
        BY <3>1, <3>2
    <2>8. CASE /\ successes' = [successes EXCEPT ![k][q] = @ + 1]
               /\ slot' = [slot EXCEPT ![c] = "committed"]
      <3>1. successes' \in [Turns -> [Caps -> Nat]]
        BY <2>1, <2>8 DEF Budget
      <3>2. \A j \in Turns, p \in Caps :
              successes'[j][p] = IF j = k /\ p = q THEN successes[k][q] + 1
                                                   ELSE successes[j][p]
        BY <2>1, <2>8 DEF Budget
      <3>3. ASSUME NEW j \in Turns, NEW p \in Caps
            PROVE  successes'[j][p] = Cardinality(With(j, p, "committed")')
        <4>1. CASE j = k /\ p = q
          <5>1. /\ c \notin With(j, p, "committed")
                /\ With(j, p, "committed")' = With(j, p, "committed") \cup {c}
            BY <1>2, <2>8, <4>1 DEF With, Budget
          <5> QED
            BY <3>2, <4>1, <5>1, OneMore DEF Budget, SlotsAccounted
        <4>2. CASE ~(j = k /\ p = q)
          <5>1. With(j, p, "committed")' = With(j, p, "committed")
            BY <1>2, <2>8, <4>2 DEF With, Budget
          <5> QED
            BY <3>2, <4>2, <5>1 DEF Budget, SlotsAccounted
        <4> QED
          BY <4>1, <4>2
      <3>4. WithinLimit'
        <4> SUFFICES ASSUME NEW j \in Turns, NEW p \in Caps
                     PROVE  successes'[j][p] + inFlight'[j][p] <= Limit[p]
          BY DEF WithinLimit
        <4>1. successes[j][p] \in Nat /\ inFlight[j][p] \in Nat /\ Limit[p] \in Nat
          BY <2>1 DEF Budget
        <4>2. successes[j][p] + inFlight[j][p] <= Limit[p]
          BY DEF Budget, WithinLimit
        <4> QED
          BY <2>5, <3>2, <4>1, <4>2
      <3> QED
        BY <2>6, <2>7, <2>8, <3>1, <3>3, <3>4 DEF Budget, SlotsAccounted
    <2>9. CASE /\ successes' = successes
               /\ slot' = [slot EXCEPT ![c] = "released"]
      <3>1. \A j \in Turns, p \in Caps :
              With(j, p, "committed")' = With(j, p, "committed")
        BY <1>2, <2>9 DEF With, Budget
      <3>2. SlotsAccounted'
        BY <2>7, <2>9, <3>1 DEF Budget, SlotsAccounted
      <3>3. WithinLimit'
        <4> SUFFICES ASSUME NEW j \in Turns, NEW p \in Caps
                     PROVE  successes'[j][p] + inFlight'[j][p] <= Limit[p]
          BY DEF WithinLimit
        <4>1. successes[j][p] \in Nat /\ inFlight[j][p] \in Nat /\ Limit[p] \in Nat
          BY <2>1 DEF Budget
        <4>2. successes[j][p] + inFlight[j][p] <= Limit[p]
          BY DEF Budget, WithinLimit
        <4> QED
          BY <2>5, <2>9, <4>1, <4>2
      <3>4. slot' \in [Calls -> {"none", "held", "committed", "released"}]
        BY <2>9 DEF Budget
      <3>5. \A d \in Calls : slot'[d] = IF d = c THEN "released" ELSE slot[d]
        BY <2>9 DEF Budget
      <3>6. \A d \in Calls : slot'[d] # "none" => turnOf'[d] \in Turns
        BY <1>2, <3>5 DEF Budget
      <3> QED
        BY <2>6, <2>9, <3>2, <3>3, <3>4, <3>5, <3>6 DEF Budget
    <2> QED
      BY <2>2, <2>8, <2>9 DEF Budget
  <1> QED
    BY <1>1, <1>2

-----------------------------------------------------------------------------
(* Every step.                                                             *)

\* Types: the step of each action in turn.
LEMMA TypeStep ==
  ASSUME TypeOK, Budget', [Next]_vars
  PROVE  TypeOK'
  <1>0. /\ successes' \in [Turns -> [Caps -> Nat]] /\ inFlight' \in [Turns -> [Caps -> Nat]]
        /\ turnOf' \in [Calls -> Turns \cup {NoTurn}]
        /\ slot' \in [Calls -> {"none", "held", "committed", "released"}]
    BY DEF Budget
  <1>1. ASSUME NEW k \in Turns, OpenTurn(k) PROVE TypeOK'
    BY <1>0, <1>1 DEF OpenTurn, calling, TypeOK
  <1>2. ASSUME NEW c \in Calls, NEW k \in Turns, Reserve(c, k) PROVE TypeOK'
    <2>1. /\ stage' = [stage EXCEPT ![c] = IF c \in Fixers THEN "scheduled" ELSE "running"]
          /\ caller' = [caller EXCEPT ![c] = "waiting"]
          /\ delivery' = [delivery EXCEPT ![c] = IF c \in Fixers THEN "held" ELSE "none"]
          /\ UNCHANGED <<run, turn, result, suppressed>>
      BY <1>2 DEF Reserve
    <2> QED
      BY <1>0, <2>1 DEF TypeOK
  <1>3. ASSUME NEW c \in Calls, NEW k \in Turns, Refuse(c, k) PROVE TypeOK'
    <2>1. /\ stage' = [stage EXCEPT ![c] = "refused"]
          /\ UNCHANGED <<run, turn, result, caller, delivery, suppressed>>
      BY <1>3 DEF Refuse, counters
    <2> QED
      BY <1>0, <2>1 DEF TypeOK
  <1>4. ASSUME NEW c \in Calls, PlainSucceeds(c) \/ PlainFails(c) PROVE TypeOK'
    <2>1. /\ stage' = [stage EXCEPT ![c] = "ended"]
          /\ caller' = [caller EXCEPT ![c] = "answered"]
          /\ UNCHANGED <<run, turn, delivery, suppressed>>
      BY <1>4 DEF PlainSucceeds, PlainFails
    <2>2. result' = [result EXCEPT ![c] = "done"] \/ result' = [result EXCEPT ![c] = "failed"]
      BY <1>4 DEF PlainSucceeds, PlainFails
    <2> QED
      BY <1>0, <2>1, <2>2 DEF TypeOK
  <1>5. ASSUME NEW c \in Calls, FixerStarts(c) \/ SearchAnswers(c) PROVE TypeOK'
    BY <1>0, <1>5 DEF FixerStarts, SearchAnswers, counters, TypeOK
  <1>6. ASSUME NEW c \in Calls, NEW how \in {"done", "failed"}, FixerEnds(c, how) PROVE TypeOK'
    BY <1>0, <1>6 DEF FixerEnds, TypeOK
  <1>7. ASSUME NEW c \in Calls, NEW skip \in BOOLEAN, FixerCancelled(c, skip) PROVE TypeOK'
    BY <1>0, <1>7 DEF FixerCancelled, counters, TypeOK
  <1>8. ASSUME NEW c \in Calls, CallerReturns(c) \/ CallerCancelled(c) PROVE TypeOK'
    <2>1. Settle(c, TRUE) \/ Settle(c, FALSE)
      BY <1>8 DEF CallerReturns, CallerCancelled, CallerDetaches
    <2>2. delivery' \in [Calls -> {"none", "held", "pending", "queued", "skipped",
                                   "delivered", "dropped"}]
      BY <2>1 DEF Settle, TypeOK
    <2>3. caller' = [caller EXCEPT ![c] = "answered"] \/ caller' = [caller EXCEPT ![c] = "detached"]
      BY <1>8 DEF CallerReturns, CallerCancelled
    <2>4. UNCHANGED <<run, turn, stage, result, suppressed>>
      BY <1>8 DEF CallerReturns, CallerCancelled, counters
    <2> QED
      BY <1>0, <2>2, <2>3, <2>4 DEF TypeOK
  <1>9. CASE Interrupt
    BY <1>0, <1>9 DEF Interrupt, Undelivered, calling, TypeOK
  <1>14. CASE SuppressionExpires
    BY <1>0, <1>14 DEF SuppressionExpires, calling, TypeOK
  <1>10. ASSUME NEW c \in Calls, Deliver(c) \/ Evict(c) PROVE TypeOK'
    BY <1>0, <1>10 DEF Deliver, Evict, calling, TypeOK
  <1>11. CASE RunBegins
    BY <1>0, <1>11 DEF RunBegins, calling, TypeOK
  <1>12. CASE RunEnds
    BY <1>0, <1>12 DEF RunEnds, Drained, calling, TypeOK
  <1>13. CASE UNCHANGED vars
    BY <1>0, <1>13 DEF vars, TypeOK
  <1> QED
    BY <1>1, <1>2, <1>3, <1>4, <1>5, <1>6, <1>7, <1>8, <1>9, <1>10, <1>11, <1>12, <1>13, <1>14
       DEF Next

\* The budget: only reserving and settling touch it.
LEMMA BudgetStep ==
  ASSUME Budget, StageTellsSlot, [Next]_vars
  PROVE  Budget'
  <1>1. ASSUME NEW c \in Calls, NEW k \in Turns, Reserve(c, k) PROVE Budget'
    <2>1. slot[c] = "none"
      BY <1>1 DEF Reserve, StageTellsSlot
    <2> QED
      BY <1>1, <2>1, ReserveKeepsBudget
  <1>2. ASSUME NEW c \in Calls, PlainSucceeds(c) \/ PlainFails(c) \/ SearchAnswers(c) PROVE Budget'
    BY <1>2, SettlingKeepsBudget DEF PlainSucceeds, PlainFails, SearchAnswers
  <1>3. ASSUME NEW c \in Calls, NEW how \in {"done", "failed"}, FixerEnds(c, how) PROVE Budget'
    BY <1>3, SettlingKeepsBudget DEF FixerEnds
  <1>4. ASSUME NEW c \in Calls, NEW skip \in BOOLEAN, FixerCancelled(c, skip) PROVE Budget'
    <2>1. UNCHANGED turnOf /\ (UNCHANGED <<inFlight, successes, slot>> \/ Release(c))
      BY <1>4 DEF FixerCancelled
    <2> QED
      BY <2>1, SettlingKeepsBudget, BudgetStays DEF reservations
  <1>5. ASSUME UNCHANGED reservations PROVE Budget'
    BY <1>5, BudgetStays
  <1>6. ASSUME NEW k \in Turns, OpenTurn(k) PROVE UNCHANGED reservations
    BY <1>6 DEF OpenTurn, calling, reservations
  <1>7. ASSUME NEW c \in Calls, NEW k \in Turns, Refuse(c, k) PROVE UNCHANGED reservations
    BY <1>7 DEF Refuse, counters, reservations
  <1>8. ASSUME NEW c \in Calls,
               \/ FixerStarts(c) \/ CallerReturns(c) \/ CallerCancelled(c)
               \/ Deliver(c) \/ Evict(c)
        PROVE  UNCHANGED reservations
    BY <1>8 DEF FixerStarts, CallerReturns, CallerCancelled, Deliver, Evict, calling, counters,
                reservations
  <1>9. ASSUME Interrupt \/ SuppressionExpires \/ UNCHANGED vars PROVE UNCHANGED reservations
    BY <1>9 DEF Interrupt, SuppressionExpires, vars, calling, reservations
  <1>10. ASSUME RunBegins \/ RunEnds PROVE UNCHANGED reservations
    BY <1>10 DEF RunBegins, RunEnds, calling, reservations
  <1> QED
    BY <1>1, <1>2, <1>3, <1>4, <1>5, <1>6, <1>7, <1>8, <1>9, <1>10 DEF Next

\* What a call's slot says of its stage: the steps of other calls leave it alone, and its
\* own steps settle the slot whenever they leave "running".
LEMMA SlotStep ==
  ASSUME TypeOK, Budget, StageTellsSlot, EndedHoldsNoSlot, [Next]_vars
  PROVE  StageTellsSlot' /\ EndedHoldsNoSlot'
  <1>1. ASSUME NEW c \in Calls, NEW k \in Turns, Reserve(c, k)
        PROVE  StageTellsSlot' /\ EndedHoldsNoSlot'
    BY <1>1 DEF Reserve, TypeOK, StageTellsSlot, EndedHoldsNoSlot
  <1>2. ASSUME NEW c \in Calls, NEW k \in Turns, Refuse(c, k)
        PROVE  StageTellsSlot' /\ EndedHoldsNoSlot'
    BY <1>2 DEF Refuse, TypeOK, StageTellsSlot, EndedHoldsNoSlot
  <1>3. ASSUME NEW c \in Calls, Commit(c) \/ Release(c), UNCHANGED turnOf,
               NEW to \in {"storing", "ended"}, stage' = [stage EXCEPT ![c] = to],
               \A d \in Calls \ {c} : result'[d] = result[d]
        PROVE  StageTellsSlot' /\ EndedHoldsNoSlot'
    <2>1. slot'[c] # "held" /\ \A d \in Calls \ {c} : slot'[d] = slot[d]
      BY <1>3, SettlingKeepsBudget
    <2>2. stage'[c] = to /\ \A d \in Calls \ {c} : stage'[d] = stage[d]
      BY <1>3 DEF TypeOK
    <2> QED
      BY <1>3, <2>1, <2>2 DEF StageTellsSlot, EndedHoldsNoSlot
  <1>4. ASSUME NEW c \in Calls, PlainSucceeds(c) \/ PlainFails(c)
        PROVE  StageTellsSlot' /\ EndedHoldsNoSlot'
    BY <1>3, <1>4 DEF PlainSucceeds, PlainFails, TypeOK
  <1>5. ASSUME NEW c \in Calls, SearchAnswers(c)
        PROVE  StageTellsSlot' /\ EndedHoldsNoSlot'
    BY <1>3, <1>5 DEF SearchAnswers
  <1>6. ASSUME NEW c \in Calls, NEW how \in {"done", "failed"}, FixerEnds(c, how)
        PROVE  StageTellsSlot' /\ EndedHoldsNoSlot'
    BY <1>3, <1>6 DEF FixerEnds, TypeOK
  <1>7. ASSUME NEW c \in Calls, NEW skip \in BOOLEAN, FixerCancelled(c, skip)
        PROVE  StageTellsSlot' /\ EndedHoldsNoSlot'
    <2>1. CASE stage[c] = "scheduled"
      BY <1>7, <2>1 DEF FixerCancelled, TypeOK, StageTellsSlot, EndedHoldsNoSlot
    <2>2. CASE stage[c] # "scheduled"
      BY <1>3, <1>7, <2>2 DEF FixerCancelled, TypeOK
    <2> QED
      BY <2>1, <2>2
  <1>8. ASSUME NEW c \in Calls, FixerStarts(c)
        PROVE  StageTellsSlot' /\ EndedHoldsNoSlot'
    BY <1>8 DEF FixerStarts, TypeOK, StageTellsSlot, EndedHoldsNoSlot
  <1>9. ASSUME UNCHANGED <<stage, slot, result>>
        PROVE  StageTellsSlot' /\ EndedHoldsNoSlot'
    BY <1>9 DEF StageTellsSlot, EndedHoldsNoSlot
  <1>10. ASSUME NEW k \in Turns, OpenTurn(k)
         PROVE  UNCHANGED <<stage, slot, result>>
    BY <1>10 DEF OpenTurn, calling
  <1>11. ASSUME NEW c \in Calls,
                CallerReturns(c) \/ CallerCancelled(c) \/ Deliver(c) \/ Evict(c)
         PROVE  UNCHANGED <<stage, slot, result>>
    BY <1>11 DEF CallerReturns, CallerCancelled, Deliver, Evict, calling
  <1>12. ASSUME Interrupt \/ SuppressionExpires \/ RunBegins \/ RunEnds \/ UNCHANGED vars
         PROVE  UNCHANGED <<stage, slot, result>>
    BY <1>12 DEF Interrupt, SuppressionExpires, RunBegins, RunEnds, calling, vars
  <1> QED
    BY <1>1, <1>2, <1>4, <1>5, <1>6, <1>7, <1>8, <1>9, <1>10, <1>11, <1>12 DEF Next

\* Who waits still has the delivery held back: nothing but the caller's own return
\* releases it, and the coordinator touches released deliveries only.
LEMMA WaitingStep ==
  ASSUME TypeOK, WaitingHolds, [Next]_vars
  PROVE  WaitingHolds'
  <1>0. Fixers \subseteq Calls
    BY CapabilityAssumption
  <1>1. ASSUME NEW c \in Calls, NEW k \in Turns, Reserve(c, k) PROVE WaitingHolds'
    BY <1>0, <1>1 DEF Reserve, TypeOK, WaitingHolds
  <1>2. ASSUME NEW c \in Calls, PlainSucceeds(c) \/ PlainFails(c) PROVE WaitingHolds'
    BY <1>0, <1>2 DEF PlainSucceeds, PlainFails, TypeOK, WaitingHolds
  <1>3. ASSUME NEW c \in Calls, NEW skip \in BOOLEAN, FixerCancelled(c, skip) PROVE WaitingHolds'
    BY <1>0, <1>3 DEF FixerCancelled, TypeOK, WaitingHolds
  <1>4. ASSUME NEW c \in Calls, CallerReturns(c) PROVE WaitingHolds'
    BY <1>0, <1>4 DEF CallerReturns, CallerDetaches, Settle, TypeOK, WaitingHolds
  <1>5. ASSUME NEW c \in Calls, CallerCancelled(c) PROVE WaitingHolds'
    BY <1>0, <1>5 DEF CallerCancelled, CallerDetaches, Settle, TypeOK, WaitingHolds
  <1>6. CASE Interrupt \/ RunEnds
    BY <1>0, <1>6 DEF Interrupt, RunEnds, Drained, calling, TypeOK, WaitingHolds
  <1>7. ASSUME NEW c \in Calls, Deliver(c) \/ Evict(c) PROVE WaitingHolds'
    BY <1>0, <1>7 DEF Deliver, Deliverable, Evict, calling, TypeOK, WaitingHolds
  <1>8. ASSUME UNCHANGED <<caller, delivery>> PROVE WaitingHolds'
    BY <1>8 DEF WaitingHolds
  <1>9. ASSUME NEW k \in Turns, OpenTurn(k) PROVE UNCHANGED <<caller, delivery>>
    BY <1>9 DEF OpenTurn, calling
  <1>10. ASSUME NEW c \in Calls, NEW k \in Turns, Refuse(c, k) PROVE UNCHANGED <<caller, delivery>>
    BY <1>10 DEF Refuse
  <1>11. ASSUME NEW c \in Calls, FixerStarts(c) \/ SearchAnswers(c)
         PROVE  UNCHANGED <<caller, delivery>>
    BY <1>11 DEF FixerStarts, SearchAnswers
  <1>12. ASSUME NEW c \in Calls, NEW how \in {"done", "failed"}, FixerEnds(c, how)
         PROVE  UNCHANGED <<caller, delivery>>
    BY <1>12 DEF FixerEnds
  <1>13. ASSUME RunBegins \/ SuppressionExpires \/ UNCHANGED vars
         PROVE  UNCHANGED <<caller, delivery>>
    BY <1>13 DEF RunBegins, SuppressionExpires, calling, vars
  <1> QED
    BY <1>1, <1>2, <1>3, <1>4, <1>5, <1>6, <1>7, <1>8, <1>9, <1>10, <1>11, <1>12, <1>13 DEF Next

-----------------------------------------------------------------------------

\* The inductive invariant holds from the start, where no slot is taken.
LEMMA InitInv == Init => IInv
  <1> SUFFICES ASSUME Init PROVE IInv
    OBVIOUS
  <1>1. TypeOK
    BY DEF Init, TypeOK
  <1>2. \A k \in Turns, p \in Caps : With(k, p, "held") = {} /\ With(k, p, "committed") = {}
    BY DEF Init, With
  <1>3. SlotsAccounted
    BY <1>2, FS_EmptySet DEF Init, SlotsAccounted
  <1>4. WithinLimit
    BY CapabilityAssumption DEF Init, WithinLimit
  <1>5. Budget
    BY <1>1, <1>3, <1>4 DEF Init, Budget, TypeOK
  <1>6. StageTellsSlot /\ EndedHoldsNoSlot /\ WaitingHolds
    BY CapabilityAssumption DEF Init, StageTellsSlot, EndedHoldsNoSlot, WaitingHolds
  <1> QED
    BY <1>1, <1>5, <1>6 DEF IInv

\* The invariant of turn-limited capabilities: types, exact counters within the limits,
\* slots that follow the stage of their call, deliveries held while a caller waits.
THEOREM TurnCapabilitiesInvariant == Spec => []IInv
  <1>1. IInv /\ [Next]_vars => IInv'
    BY TypeStep, BudgetStep, SlotStep, WaitingStep DEF IInv
  <1> QED
    BY <1>1, InitInv, PTL DEF Spec

\* The types hold for every set of calls and turns.
THEOREM TurnCapabilitiesTypes == Spec => []TypeOK
  BY TurnCapabilitiesInvariant, PTL DEF IInv

\* For every limit and number of calls the counters of a turn are its reservations and stay
\* within the limit, and a call that ran has settled its slot.
THEOREM TurnBudgetAlways == Spec => []TurnBudget
  <1>1. IInv => TurnBudget
    BY DEF IInv, Budget, TurnBudget
  <1> QED
    BY <1>1, TurnCapabilitiesInvariant, PTL

\* An answered caller never gets its answer again as a follow-up.
THEOREM AnsweredOnceAlways == Spec => []AnsweredOnce
  <1>1. WaitingHolds => AnsweredOnce
    BY DEF WaitingHolds, AnsweredOnce
  <1> QED
    BY <1>1, TurnCapabilitiesInvariant, PTL DEF IInv

-----------------------------------------------------------------------------
(* The refinement of LimitedCalls.                                         *)

PastHold == {"pending", "queued", "skipped", "delivered", "dropped"}

\* What a caller was told follows the stage of its call; a plain call has no delivery, and
\* only a fixer's caller leaves before the end.
CallerTells ==
  \A c \in Calls :
    /\ caller[c] = "none" <=> stage[c] \in {"idle", "refused"}
    /\ caller[c] = "answered" => stage[c] = "ended"
    /\ c \notin Fixers => /\ delivery[c] = "none"
                          /\ stage[c] \notin {"scheduled", "storing"}
                          /\ caller[c] = "waiting" <=> stage[c] = "running"
                          /\ caller[c] # "detached"
    /\ caller[c] = "detached" => delivery[c] \in PastHold
    /\ delivery[c] = "queued" => stage[c] = "ended"

\* The step of one call, with what it says of that call.
LEMMA OneCallTells ==
  ASSUME NEW c \in Calls, CallerTells, TypeOK, TypeOK',
         \A d \in Calls : d # c => /\ stage'[d] = stage[d] /\ caller'[d] = caller[d]
                                   /\ delivery'[d] = delivery[d],
         CallerTells!(c)'
  PROVE  CallerTells'
  BY DEF CallerTells

\* Every step keeps it.
LEMMA CallerTellsStep == IInv /\ IInv' /\ CallerTells /\ [Next]_vars => CallerTells'
  <1> SUFFICES ASSUME TypeOK, TypeOK', WaitingHolds, CallerTells, [Next]_vars PROVE CallerTells'
    BY DEF IInv
  <1>. USE DEF PastHold
  <1>1. ASSUME NEW k \in Turns, OpenTurn(k) PROVE CallerTells'
    BY <1>1 DEF OpenTurn, calling, CallerTells
  <1>2. ASSUME NEW c \in Calls, NEW k \in Turns, Reserve(c, k) PROVE CallerTells'
    <2>1. /\ stage' = [stage EXCEPT ![c] = IF c \in Fixers THEN "scheduled" ELSE "running"]
          /\ caller' = [caller EXCEPT ![c] = "waiting"]
          /\ delivery' = [delivery EXCEPT ![c] = IF c \in Fixers THEN "held" ELSE "none"]
      BY <1>2 DEF Reserve
    <2> QED
      BY <2>1, OneCallTells DEF TypeOK, CallerTells
  <1>3. ASSUME NEW c \in Calls, NEW k \in Turns, Refuse(c, k) PROVE CallerTells'
    <2>1. /\ stage[c] = "idle" /\ stage' = [stage EXCEPT ![c] = "refused"]
          /\ caller' = caller /\ delivery' = delivery
      BY <1>3 DEF Refuse
    <2> QED
      BY <2>1, OneCallTells DEF TypeOK, CallerTells
  <1>4. ASSUME NEW c \in Calls, PlainSucceeds(c) \/ PlainFails(c) PROVE CallerTells'
    <2>1. /\ stage' = [stage EXCEPT ![c] = "ended"] /\ c \notin Fixers
          /\ caller' = [caller EXCEPT ![c] = "answered"] /\ delivery' = delivery
      BY <1>4 DEF PlainSucceeds, PlainFails
    <2> QED
      BY <2>1, OneCallTells DEF TypeOK, CallerTells
  <1>5. ASSUME NEW c \in Calls, FixerStarts(c) \/ SearchAnswers(c) PROVE CallerTells'
    <2>1. /\ stage[c] \in {"scheduled", "running"}
          /\ stage[c] = "running" => c \in Fixers
          /\ \/ stage' = [stage EXCEPT ![c] = "running"] /\ stage[c] = "scheduled"
             \/ stage' = [stage EXCEPT ![c] = "storing"]
          /\ caller' = caller /\ delivery' = delivery
      BY <1>5 DEF FixerStarts, SearchAnswers
    <2> QED
      BY <2>1, OneCallTells DEF TypeOK, CallerTells
  <1>6. ASSUME NEW c \in Calls, NEW how \in {"done", "failed"}, FixerEnds(c, how)
        PROVE  CallerTells'
    <2>1. /\ c \in Fixers /\ stage[c] \in {"storing", "running"}
          /\ stage' = [stage EXCEPT ![c] = "ended"] /\ caller' = caller /\ delivery' = delivery
      BY <1>6 DEF FixerEnds
    <2> QED
      BY <2>1, OneCallTells DEF TypeOK, CallerTells
  <1>7. ASSUME NEW c \in Calls, NEW skip \in BOOLEAN, FixerCancelled(c, skip) PROVE CallerTells'
    <2>1. /\ c \in Fixers /\ stage[c] \in {"scheduled", "running", "storing"}
          /\ stage' = [stage EXCEPT ![c] = "ended"] /\ caller' = caller
          /\ delivery' = [delivery EXCEPT ![c] =
                            IF skip /\ Undelivered(c) THEN "skipped" ELSE @]
      BY <1>7 DEF FixerCancelled
    <2> QED
      BY <2>1, OneCallTells DEF TypeOK, CallerTells
  <1>8. ASSUME NEW c \in Calls, CallerReturns(c) \/ CallerCancelled(c) PROVE CallerTells'
    <2>1. /\ c \in Fixers /\ caller[c] = "waiting" /\ stage' = stage
          /\ \/ /\ caller' = [caller EXCEPT ![c] = "answered"] /\ stage[c] = "ended"
                /\ Settle(c, FALSE)
             \/ /\ caller' = [caller EXCEPT ![c] = "detached"]
                /\ Settle(c, TRUE)
      BY <1>8 DEF CallerReturns, CallerCancelled, CallerDetaches
    <2>2. delivery[c] \in {"held", "skipped"}
      BY <2>1 DEF WaitingHolds
    <2> QED
      BY <2>1, <2>2, OneCallTells DEF TypeOK, CallerTells, Settle
  <1>9. CASE Interrupt
    <2>1. /\ stage' = stage /\ caller' = caller
          /\ \A c \in Calls : delivery'[c] = IF Undelivered(c) THEN "skipped" ELSE delivery[c]
      BY <1>9 DEF Interrupt, calling
    <2> QED
      BY <2>1 DEF CallerTells, Undelivered
  <1>10. ASSUME NEW c \in Calls, Deliver(c) PROVE CallerTells'
    <2>1. /\ c \in Fixers /\ delivery[c] = "pending" /\ stage[c] = "ended"
          /\ stage' = stage /\ caller' = caller
          /\ \E d \in {"skipped", "queued", "delivered"} : delivery' = [delivery EXCEPT ![c] = d]
      BY <1>10 DEF Deliver, Deliverable, calling, TypeOK
    <2> QED
      BY <2>1, OneCallTells DEF TypeOK, CallerTells
  <1>11. ASSUME NEW c \in Calls, Evict(c) PROVE CallerTells'
    <2>1. /\ delivery[c] = "queued" /\ stage' = stage /\ caller' = caller
          /\ delivery' = [delivery EXCEPT ![c] = "dropped"]
      BY <1>11 DEF Evict, calling
    <2> QED
      BY <2>1, OneCallTells DEF TypeOK, CallerTells
  <1>12. CASE RunEnds
    <2>1. /\ stage' = stage /\ caller' = caller
          /\ \A c \in Calls : delivery'[c] = Drained(c)
      BY <1>12 DEF RunEnds, calling
    <2>2. ASSUME NEW c \in Calls
          PROVE  \/ delivery[c] # "queued" /\ delivery'[c] = delivery[c]
                 \/ delivery[c] = "queued" /\ delivery'[c] \in {"skipped", "delivered"}
      <3>1. delivery'[c] = Drained(c)
        BY <2>1
      <3> QED
        BY <3>1 DEF Drained
    <2> QED
      BY <2>1, <2>2 DEF CallerTells
  <1>13. CASE RunBegins \/ SuppressionExpires \/ UNCHANGED vars
    <2>1. UNCHANGED <<stage, caller, delivery>>
      BY <1>13 DEF RunBegins, SuppressionExpires, calling, vars
    <2> QED
      BY <2>1 DEF CallerTells
  <1> QED
    BY <1>1, <1>2, <1>3, <1>4, <1>5, <1>6, <1>7, <1>8, <1>9, <1>10, <1>11, <1>12, <1>13 DEF Next

\* The places taken in a turn are its successes and its reservations in flight, so the test
\* of reserve() asks for room.
LEMMA RoomIsRoom ==
  ASSUME Budget, NEW k \in Turns, NEW p \in Caps
  PROVE  HasRoom(k, p) <=> Limited!Room(k, p)
  <1> DEFINE A == With(k, p, "held")
             B == With(k, p, "committed")
  <1>1. Limited!Taken(k, p) = A \cup B /\ A \cap B = {}
    BY DEF With, Limited!Taken
  <1>2. /\ IsFiniteSet(A) /\ IsFiniteSet(B)
        /\ Cardinality(A) \in Nat /\ Cardinality(B) \in Nat
    BY WithIsFinite
  <1>3. inFlight[k][p] = Cardinality(A) /\ successes[k][p] = Cardinality(B)
    BY DEF Budget, SlotsAccounted
  <1> HIDE DEF A, B
  <1>4. Cardinality(A \cup B) = Cardinality(A) + Cardinality(B) - Cardinality(A \cap B)
    BY <1>2, FS_Union
  <1>5. Cardinality(A \cap B) = 0
    BY <1>1, FS_EmptySet
  <1>6. Cardinality(Limited!Taken(k, p)) = successes[k][p] + inFlight[k][p]
    BY <1>1, <1>2, <1>3, <1>4, <1>5
  <1>7. Limited!Cardinality(Limited!Taken(k, p)) = Cardinality(Limited!Taken(k, p))
    BY DEF Limited!Cardinality, Cardinality
  <1> QED
    BY <1>6, <1>7 DEF HasRoom, Limited!Room

\* A step of one call changes the view of that call only.
LEMMA OneCallView ==
  ASSUME NEW c \in Calls,
         \A d \in Calls : d # c => /\ stage'[d] = stage[d] /\ caller'[d] = caller[d]
                                   /\ delivery'[d] = delivery[d]
  PROVE  /\ CallWork' = [CallWork EXCEPT ![c] = Work(c)']
         /\ CallAnswer' = [CallAnswer EXCEPT ![c] = Answer(c)']
  <1>1. \A d \in Calls : d # c => Work(d)' = Work(d) /\ Answer(d)' = Answer(d)
    BY DEF Work, Answer, FollowUp
  <1> QED
    BY <1>1 DEF CallWork, CallAnswer

\* A step that keeps the stage of every call keeps the view of its work.
LEMMA SameWork == ASSUME stage' = stage PROVE CallWork' = CallWork
  BY DEF CallWork, Work

\* The runs of the conversation follow one another, and so do its turns.
OneOpenTurn == \A j, k \in Turns : turn[j] = "open" /\ turn[k] = "open" => j = k

LEMMA OneOpenTurnStep == TypeOK /\ OneOpenTurn /\ [Next]_vars => OneOpenTurn'
  <1> SUFFICES ASSUME TypeOK, OneOpenTurn, [Next]_vars PROVE OneOpenTurn'
    OBVIOUS
  <1>1. ASSUME NEW k \in Turns, OpenTurn(k) PROVE OneOpenTurn'
    BY <1>1 DEF OpenTurn, TypeOK, OneOpenTurn
  <1>2. ASSUME RunEnds PROVE OneOpenTurn'
    BY <1>2 DEF RunEnds, OneOpenTurn
  <1>3. ASSUME UNCHANGED turn PROVE OneOpenTurn'
    BY <1>3 DEF OneOpenTurn
  <1> QED
    BY <1>1, <1>2, <1>3
       DEF Next, vars, calling, counters, RunBegins, Reserve, Refuse, PlainSucceeds, PlainFails,
           FixerStarts, SearchAnswers, FixerEnds, FixerCancelled, CallerReturns, CallerCancelled,
           Interrupt, SuppressionExpires, Deliver, Evict

\* Deliveries that go on or are given up settle promises, and nothing else of the view: what
\* is sent was pending or queued, of work that is over.
LEMMA SettlesPromises ==
  ASSUME TypeOK, WaitingHolds, CallerTells, UNCHANGED <<stage, caller>>,
         \A c \in Calls :
           \/ delivery'[c] = delivery[c]
           \/ /\ delivery[c] \in {"held", "pending", "queued"}
              /\ delivery'[c] \in {"skipped", "dropped"}
           \/ /\ delivery[c] \in {"pending", "queued"} /\ stage[c] = "ended"
              /\ delivery'[c] \in {"skipped", "queued", "delivered"}
  PROVE  CallWork' = CallWork /\ Limited!SomeSettled
  <1>1. CallWork' = CallWork
    BY SameWork
  <1> DEFINE kept == {c \in Calls : /\ Answer(c) = "promised" /\ stage[c] = "ended"
                                    /\ delivery'[c] = "delivered"}
             waived == {c \in Calls : /\ Answer(c) = "promised"
                                      /\ delivery'[c] \in {"skipped", "dropped"}}
  <1>2. ASSUME NEW c \in Calls
        PROVE  Answer(c)' = IF c \in kept THEN "followed"
                            ELSE IF c \in waived THEN "waived" ELSE Answer(c)
    <2>0. caller'[c] = caller[c]
      OBVIOUS
    <2>1. CASE caller[c] = "detached"
      <3>1. delivery[c] \in PastHold
        BY <2>1 DEF CallerTells
      <3>2. Answer(c) = FollowUp(c) /\ Answer(c)' = FollowUp(c)'
        BY <2>0, <2>1 DEF Answer
      <3>3. CASE delivery[c] \in {"pending", "queued"}
        BY <3>2, <3>3 DEF FollowUp
      <3>4. CASE delivery[c] \notin {"pending", "queued"}
        BY <3>1, <3>2, <3>4 DEF FollowUp, PastHold
      <3> QED
        BY <3>3, <3>4
    <2>2. CASE caller[c] \in {"none", "waiting"}
      <3>1. Answer(c)' = Answer(c) /\ Answer(c) \in {"none", "awaited"}
        BY <2>0, <2>2 DEF Answer
      <3> QED
        BY <3>1
    <2>3. CASE caller[c] = "answered"
      <3>1. delivery[c] \in {"none", "skipped"}
        BY <2>3 DEF CallerTells, WaitingHolds
      <3>2. delivery'[c] = delivery[c]
        BY <3>1
      <3>3. Answer(c)' = Answer(c) /\ Answer(c) \in {"told", "twice"}
        BY <2>0, <2>3, <3>2 DEF Answer
      <3> QED
        BY <3>3
    <2> QED
      BY <2>1, <2>2, <2>3 DEF TypeOK
  <1>3. /\ kept \in SUBSET {c \in Limited!Promised : CallWork[c] = "over"}
        /\ waived \in SUBSET Limited!Promised
    BY DEF Limited!Promised, CallAnswer, CallWork, Work
  <1>4. Limited!Settles(kept, waived)
    BY <1>2 DEF Limited!Settles, CallAnswer
  <1> QED
    BY <1>1, <1>3, <1>4 DEF Limited!SomeSettled

\* Every step of reservations, callers, tasks and deliveries is one of the limited calls.
LEMMA LimitedStep ==
  IInv /\ CallerTells /\ OneOpenTurn /\ [Next]_vars => [Limited!CallsNext]_Limited!calls
  <1> SUFFICES ASSUME TypeOK, Budget, StageTellsSlot, WaitingHolds, CallerTells, OneOpenTurn,
                      [Next]_vars
               PROVE  Limited!CallsNext \/ UNCHANGED Limited!calls
    BY DEF IInv
  <1>0. Fixers \subseteq Calls /\ CapOf \in [Calls -> Caps]
    BY CapabilityAssumption
  <1>1. ASSUME NEW k \in Turns, OpenTurn(k) PROVE Limited!CallsNext
    <2>1. UNCHANGED <<turnOf, slot, stage, caller, delivery>>
      BY <1>1 DEF OpenTurn, calling
    <2>2. CallWork' = CallWork /\ CallAnswer' = CallAnswer
      BY <2>1 DEF CallWork, CallAnswer, Work, Answer, FollowUp
    <2>3. Limited!Opens(k)
      BY <1>1, <2>1, <2>2 DEF OpenTurn, Limited!Opens
    <2> QED
      BY <2>3 DEF Limited!CallsNext
  <1>2. ASSUME NEW c \in Calls, NEW k \in Turns, Reserve(c, k) PROVE Limited!CallsNext
    <2>1. /\ stage[c] = "idle" /\ turn[k] = "open" /\ HasRoom(k, CapOf[c])
          /\ turnOf' = [turnOf EXCEPT ![c] = k] /\ slot' = [slot EXCEPT ![c] = "held"]
          /\ stage' = [stage EXCEPT ![c] = IF c \in Fixers THEN "scheduled" ELSE "running"]
          /\ caller' = [caller EXCEPT ![c] = "waiting"]
          /\ delivery' = [delivery EXCEPT ![c] = IF c \in Fixers THEN "held" ELSE "none"]
          /\ turn' = turn
      BY <1>2 DEF Reserve
    <2>2. /\ CallWork' = [CallWork EXCEPT ![c] = Work(c)']
          /\ CallAnswer' = [CallAnswer EXCEPT ![c] = Answer(c)']
      BY <2>1, OneCallView DEF TypeOK
    <2>3. /\ CallWork[c] = "idle" /\ Work(c)' \in {"scheduled", "running"}
          /\ Answer(c)' = "awaited"
      BY <2>1 DEF CallWork, Work, Answer, FollowUp, TypeOK
    <2>4. Limited!Room(k, CapOf[c])
      BY <1>0, <2>1, RoomIsRoom
    <2>5. Limited!Admitted(c, k)
      BY <2>1, <2>2, <2>3, <2>4 DEF Limited!Admitted
    <2> QED
      BY <2>5 DEF Limited!CallsNext
  <1>3. ASSUME NEW c \in Calls, NEW k \in Turns, Refuse(c, k) PROVE Limited!CallsNext
    <2>1. /\ stage[c] = "idle"
          /\ turn[k] = "closed" \/ (turn[k] = "open" /\ ~HasRoom(k, CapOf[c]))
          /\ stage' = [stage EXCEPT ![c] = "refused"]
          /\ UNCHANGED <<turn, turnOf, slot, caller, delivery>>
      BY <1>3 DEF Refuse, counters
    <2>2. /\ CallWork' = [CallWork EXCEPT ![c] = Work(c)']
          /\ CallWork[c] = "idle" /\ Work(c)' = "refused"
      BY <2>1, OneCallView DEF TypeOK, CallWork, Work
    <2>3. CallAnswer' = CallAnswer
      BY <2>1 DEF CallAnswer, Answer, FollowUp
    <2>4. HasRoom(k, CapOf[c]) <=> Limited!Room(k, CapOf[c])
      BY <1>0, RoomIsRoom
    <2>5. Limited!Refused(c, k)
      BY <2>1, <2>2, <2>3, <2>4 DEF Limited!Refused
    <2> QED
      BY <2>5 DEF Limited!CallsNext
  <1>4. ASSUME NEW c \in Calls, PlainSucceeds(c) \/ PlainFails(c) PROVE Limited!CallsNext
    <2>1. /\ c \notin Fixers /\ stage[c] = "running" /\ slot[c] = "held"
          /\ stage' = [stage EXCEPT ![c] = "ended"]
          /\ caller' = [caller EXCEPT ![c] = "answered"]
          /\ UNCHANGED <<turn, turnOf, delivery>>
      BY <1>4 DEF PlainSucceeds, PlainFails, StageTellsSlot
    <2>2. \E s \in {"released", "committed"} : slot' = [slot EXCEPT ![c] = s]
      BY <1>4, <2>1 DEF PlainSucceeds, PlainFails, Commit, Release
    <2>3. /\ CallWork' = [CallWork EXCEPT ![c] = Work(c)']
          /\ CallAnswer' = [CallAnswer EXCEPT ![c] = Answer(c)']
      BY <2>1, OneCallView DEF TypeOK
    <2>4. CallWork[c] = "running" /\ Work(c)' = "over"
      BY <2>1 DEF CallWork, Work, TypeOK
    <2>5. CallAnswer[c] = "awaited" /\ Answer(c)' = "told"
      BY <2>1 DEF CallAnswer, Answer, FollowUp, TypeOK, CallerTells
    <2>6. "told" \in Limited!AnswerAtEnd(c)
      BY <2>5 DEF Limited!AnswerAtEnd
    <2>7. \E s \in Limited!PlaceAtEnd(c) : slot' = [slot EXCEPT ![c] = s]
      BY <2>1, <2>2, <2>4 DEF Limited!PlaceAtEnd
    <2>8. Limited!IsOver(c)
      BY <2>1, <2>3, <2>4, <2>5, <2>6, <2>7 DEF Limited!IsOver
    <2> QED
      BY <2>8 DEF Limited!CallsNext
  <1>5. ASSUME NEW c \in Calls, FixerStarts(c) PROVE Limited!CallsNext
    <2>1. /\ stage[c] = "scheduled" /\ stage' = [stage EXCEPT ![c] = "running"]
          /\ UNCHANGED <<turn, turnOf, slot, caller, delivery>>
      BY <1>5 DEF FixerStarts, counters
    <2>2. /\ CallWork' = [CallWork EXCEPT ![c] = Work(c)']
          /\ CallWork[c] = "scheduled" /\ Work(c)' = "running"
      BY <2>1, OneCallView DEF TypeOK, CallWork, Work
    <2>3. CallAnswer' = CallAnswer
      BY <2>1 DEF CallAnswer, Answer, FollowUp
    <2>4. Limited!Begins(c)
      BY <2>1, <2>2, <2>3 DEF Limited!Begins
    <2> QED
      BY <2>4 DEF Limited!CallsNext
  <1>6. ASSUME NEW c \in Calls, SearchAnswers(c) PROVE Limited!CallsNext
    <2>1. /\ stage[c] = "running" /\ slot[c] = "held"
          /\ stage' = [stage EXCEPT ![c] = "storing"]
          /\ slot' = [slot EXCEPT ![c] = "committed"]
          /\ UNCHANGED <<turn, turnOf, caller, delivery>>
      BY <1>6 DEF SearchAnswers, StageTellsSlot, Commit
    <2>2. /\ CallWork' = [CallWork EXCEPT ![c] = Work(c)']
          /\ CallWork[c] = "running" /\ Work(c)' = "running"
      BY <2>1, OneCallView DEF TypeOK, CallWork, Work
    <2>3. CallWork' = CallWork
      BY <2>2 DEF CallWork
    <2>4. CallAnswer' = CallAnswer
      BY <2>1 DEF CallAnswer, Answer, FollowUp
    <2>5. Limited!OfUse(c)
      BY <2>1, <2>2, <2>3, <2>4 DEF Limited!OfUse
    <2> QED
      BY <2>5 DEF Limited!CallsNext
  <1>7. ASSUME NEW c \in Calls, NEW how \in {"done", "failed"}, FixerEnds(c, how)
        PROVE  Limited!CallsNext
    <2>1. /\ stage[c] \in {"storing", "running"}
          /\ stage' = [stage EXCEPT ![c] = "ended"] /\ Release(c)
          /\ UNCHANGED <<turn, turnOf, caller, delivery>>
      BY <1>7 DEF FixerEnds
    <2>2. /\ CallWork' = [CallWork EXCEPT ![c] = Work(c)']
          /\ CallWork[c] = "running" /\ Work(c)' = "over"
      BY <2>1, OneCallView DEF TypeOK, CallWork, Work
    <2>3. CallAnswer' = [CallAnswer EXCEPT ![c] = CallAnswer[c]]
      <3>1. CallAnswer' = CallAnswer
        BY <2>1 DEF CallAnswer, Answer, FollowUp
      <3> QED
        BY <3>1 DEF CallAnswer
    <2>4. CallAnswer[c] \in Limited!AnswerAtEnd(c)
      BY DEF Limited!AnswerAtEnd
    <2>5. \E s \in Limited!PlaceAtEnd(c) : slot' = [slot EXCEPT ![c] = s]
      <3>1. CASE slot[c] = "held"
        BY <2>1, <2>2, <3>1 DEF Release, Limited!PlaceAtEnd
      <3>2. CASE slot[c] # "held"
        BY <2>1, <2>2, <3>2 DEF Release, Limited!PlaceAtEnd, TypeOK
      <3> QED
        BY <3>1, <3>2
    <2>6. Limited!IsOver(c)
      BY <2>1, <2>2, <2>3, <2>4, <2>5 DEF Limited!IsOver
    <2> QED
      BY <2>6 DEF Limited!CallsNext
  <1>8. ASSUME NEW c \in Calls, NEW skip \in BOOLEAN, FixerCancelled(c, skip)
        PROVE  Limited!CallsNext
    <2>1. /\ c \in Fixers /\ stage[c] \in {"scheduled", "running", "storing"}
          /\ IF stage[c] = "scheduled" THEN slot' = slot ELSE Release(c)
          /\ stage' = [stage EXCEPT ![c] = "ended"]
          /\ delivery' = [delivery EXCEPT ![c] =
                            IF skip /\ Undelivered(c) THEN "skipped" ELSE @]
          /\ UNCHANGED <<turn, turnOf, caller>>
      BY <1>8 DEF FixerCancelled
    <2>2. /\ CallWork' = [CallWork EXCEPT ![c] = Work(c)']
          /\ CallAnswer' = [CallAnswer EXCEPT ![c] = Answer(c)']
      BY <2>1, OneCallView DEF TypeOK
    <2>3. /\ CallWork[c] = IF stage[c] = "scheduled" THEN "scheduled" ELSE "running"
          /\ Work(c)' = "over"
      BY <2>1 DEF CallWork, Work, TypeOK
    <2>4. Answer(c)' \in Limited!AnswerAtEnd(c)
      <3>1. caller[c] \in {"waiting", "detached"}
        BY <2>1 DEF CallerTells, TypeOK
      <3>2. CASE caller[c] = "waiting"
        <4>1. caller'[c] = "waiting"
          BY <2>1, <3>2
        <4>2. Answer(c) = "awaited" /\ Answer(c)' = "awaited"
          BY <3>2, <4>1 DEF Answer, FollowUp
        <4> QED
          BY <4>2 DEF CallAnswer, Limited!AnswerAtEnd
      <3>3. CASE caller[c] = "detached"
        <4>1. delivery[c] \in PastHold
          BY <3>3 DEF CallerTells
        <4>2. \/ delivery'[c] = delivery[c]
              \/ delivery[c] \in {"pending", "queued"} /\ delivery'[c] = "skipped"
          BY <2>1, <4>1 DEF Undelivered, TypeOK, PastHold
        <4>3. Answer(c)' = Answer(c) \/ (Answer(c) = "promised" /\ Answer(c)' = "waived")
          BY <2>1, <3>3, <4>2 DEF Answer, FollowUp
        <4> QED
          BY <4>3 DEF CallAnswer, Limited!AnswerAtEnd
      <3> QED
        BY <3>1, <3>2, <3>3
    <2>5. \E s \in Limited!PlaceAtEnd(c) : slot' = [slot EXCEPT ![c] = s]
      <3>1. CASE stage[c] = "scheduled"
        BY <2>1, <2>3, <3>1 DEF StageTellsSlot, Limited!PlaceAtEnd, TypeOK
      <3>2. CASE stage[c] # "scheduled" /\ slot[c] = "held"
        BY <2>1, <2>3, <3>2 DEF Release, Limited!PlaceAtEnd
      <3>3. CASE stage[c] # "scheduled" /\ slot[c] # "held"
        BY <2>1, <2>3, <3>3 DEF Release, Limited!PlaceAtEnd, TypeOK
      <3> QED
        BY <3>1, <3>2, <3>3
    <2>6. Limited!IsOver(c)
      BY <2>1, <2>2, <2>3, <2>4, <2>5 DEF Limited!IsOver
    <2> QED
      BY <2>6 DEF Limited!CallsNext
  <1>9. ASSUME NEW c \in Calls, CallerReturns(c) \/ CallerCancelled(c) PROVE Limited!CallsNext
    <2>1. /\ c \in Fixers /\ caller[c] = "waiting"
          /\ UNCHANGED <<turn, turnOf, slot, stage>>
          /\ \/ /\ caller' = [caller EXCEPT ![c] = "answered"] /\ stage[c] = "ended"
                /\ Settle(c, FALSE)
             \/ /\ caller' = [caller EXCEPT ![c] = "detached"]
                /\ Settle(c, TRUE)
      BY <1>9 DEF CallerReturns, CallerCancelled, CallerDetaches, counters
    <2>2. CallWork' = CallWork
      BY <2>1, SameWork
    <2>3. CallAnswer' = [CallAnswer EXCEPT ![c] = Answer(c)']
      <3>1. \A d \in Calls : d # c => stage'[d] = stage[d] /\ caller'[d] = caller[d]
        BY <2>1 DEF TypeOK
      <3>2. \A d \in Calls : d # c => delivery'[d] = delivery[d]
        BY <2>1 DEF TypeOK, Settle
      <3> QED
        BY <3>1, <3>2, OneCallView
    <2>4. CallAnswer[c] = "awaited" /\ delivery[c] \in {"held", "skipped"}
      BY <2>1 DEF CallAnswer, Answer, FollowUp, WaitingHolds
    <2>5. CASE caller'[c] = "answered"
      <3>1. stage[c] = "ended" /\ Settle(c, FALSE)
        BY <2>1, <2>5 DEF TypeOK
      <3>2. delivery'[c] = "skipped"
        BY <2>4, <3>1 DEF Settle, TypeOK
      <3>3. Answer(c)' = "told" /\ CallWork[c] = "over"
        BY <2>5, <3>1, <3>2 DEF Answer, FollowUp, CallWork, Work
      <3>4. Limited!Told(c)
        BY <2>1, <2>2, <2>3, <2>4, <3>3 DEF Limited!Told
      <3> QED
        BY <3>4 DEF Limited!CallsNext
    <2>6. CASE caller'[c] = "detached"
      <3>1. Settle(c, TRUE)
        BY <2>1, <2>6 DEF TypeOK
      <3>2. delivery'[c] \in {"pending", "skipped"}
        BY <2>4, <3>1 DEF Settle, TypeOK
      <3>3. Answer(c)' \in {"promised", "waived"}
        BY <2>6, <3>2 DEF Answer, FollowUp
      <3>4. Limited!Detached(c)
        BY <2>1, <2>2, <2>3, <2>4, <3>3 DEF Limited!Detached
      <3> QED
        BY <3>4 DEF Limited!CallsNext
    <2> QED
      BY <2>1, <2>5, <2>6 DEF TypeOK
  <1>10. ASSUME Interrupt PROVE Limited!CallsNext
    <2>1. /\ UNCHANGED <<turn, turnOf, slot, stage, caller>>
          /\ \A c \in Calls : delivery'[c] = IF Undelivered(c) THEN "skipped" ELSE delivery[c]
      BY <1>10 DEF Interrupt, calling
    <2>2. CallWork' = CallWork /\ Limited!SomeSettled
      BY <2>1, SettlesPromises DEF Undelivered
    <2> QED
      BY <2>1, <2>2 DEF Limited!CallsNext, Limited!Settled
  <1>11. ASSUME NEW c \in Calls, Deliver(c) PROVE Limited!CallsNext
    <2>1. /\ stage[c] = "ended" /\ delivery[c] = "pending"
          /\ \E d \in {"skipped", "queued", "delivered"} : delivery' = [delivery EXCEPT ![c] = d]
          /\ UNCHANGED <<turn, turnOf, slot, stage, caller>>
      BY <1>11 DEF Deliver, Deliverable, calling, TypeOK
    <2> QED
      BY <2>1, SettlesPromises DEF TypeOK, Limited!CallsNext, Limited!Settled
  <1>12. ASSUME NEW c \in Calls, Evict(c) PROVE Limited!CallsNext
    <2>1. /\ delivery[c] = "queued" /\ delivery' = [delivery EXCEPT ![c] = "dropped"]
          /\ UNCHANGED <<turn, turnOf, slot, stage, caller>>
      BY <1>12 DEF Evict, calling
    <2> QED
      BY <2>1, SettlesPromises DEF TypeOK, Limited!CallsNext, Limited!Settled
  <1>13. ASSUME RunEnds PROVE Limited!CallsNext
    <2>1. /\ UNCHANGED <<turnOf, slot, stage, caller>>
          /\ \A c \in Calls : delivery'[c] = Drained(c)
          /\ turn' = [k \in Turns |-> IF turn[k] = "open" THEN "closed" ELSE turn[k]]
      BY <1>13 DEF RunEnds, calling
    <2>2. CallWork' = CallWork /\ Limited!SomeSettled
      BY <2>1, SettlesPromises DEF Drained, CallerTells
    <2>3. CASE \A k \in Turns : turn[k] # "open"
      <3>1. turn' = turn
        BY <2>1, <2>3 DEF TypeOK
      <3> QED
        BY <2>1, <2>2, <3>1 DEF Limited!CallsNext, Limited!Settled
    <2>4. CASE \E k \in Turns : turn[k] = "open"
      <3>1. PICK k \in Turns : turn[k] = "open"
        BY <2>4
      <3>2. \A j \in Turns : turn[j] = "open" => j = k
        BY <3>1 DEF OneOpenTurn
      <3>3. turn' = [turn EXCEPT ![k] = "closed"]
        BY <2>1, <3>1, <3>2 DEF TypeOK
      <3>4. Limited!Closes(k)
        BY <2>1, <2>2, <3>1, <3>3 DEF Limited!Closes
      <3> QED
        BY <3>4 DEF Limited!CallsNext
    <2> QED
      BY <2>3, <2>4
  <1>14. ASSUME RunBegins \/ SuppressionExpires \/ UNCHANGED vars
         PROVE  UNCHANGED Limited!calls
    <2>1. UNCHANGED <<turn, turnOf, slot, stage, caller, delivery>>
      BY <1>14 DEF RunBegins, SuppressionExpires, calling, vars
    <2> QED
      BY <2>1 DEF Limited!calls, CallWork, CallAnswer, Work, Answer, FollowUp
  <1> QED
    BY <1>1, <1>2, <1>3, <1>4, <1>5, <1>6, <1>7, <1>8, <1>9, <1>10, <1>11, <1>12, <1>13, <1>14
       DEF Next

\* For every set of calls and turns and every limit, turn limits and the fixer route
\* implement limited calls.
THEOREM CallsAreLimitedAlways == Spec => CallsAreLimited
  <1>1. Init => CallerTells /\ OneOpenTurn
    BY DEF Init, CallerTells, OneOpenTurn
  <1>2. Init => Limited!CallsInit
    BY DEF Init, Limited!CallsInit, CallWork, CallAnswer, Work, Answer, FollowUp
  <1>3. IInv /\ IInv' /\ CallerTells /\ [Next]_vars => CallerTells'
    BY CallerTellsStep
  <1>4. IInv /\ OneOpenTurn /\ [Next]_vars => OneOpenTurn'
    BY OneOpenTurnStep DEF IInv
  <1> QED
    BY <1>1, <1>2, <1>3, <1>4, TurnCapabilitiesInvariant, LimitedStep, PTL
       DEF Spec, CallsAreLimited, Limited!CallsSpec

-----------------------------------------------------------------------------
(* Codex                                                                   *)

\* An ask past its lock holds it; nobody else has read anything.
LockIsHeld ==
  \A a \in Asks :
    /\ ask[a] \in Inside <=> holder = a
    /\ ask[a] \notin Inside => heard[a] = {}
    /\ process[a] = "running" => ask[a] \in {"reading", "yielded", "ending", "closed"}

\* The thread of the ask inside is that of the session, or nobody has heard of either.
ThreadIsKept ==
  \A a \in Asks :
    /\ ask[a] \in Inside =>
         /\ thread[a] # NoThread
         /\ thread[a] = sessionId \/ (sessionId = NoThread /\ heard[a] = {})
    /\ heard[a] # {} => Announced(a)
    /\ ask[a] = "answered" => thread[a] = sessionId /\ sessionId # NoThread

\* The pages found are those before the one asked for.
PagesInOrder ==
  /\ \A i \in 1..Len(found) : found[i] = i
  /\ discovery \in {"none", "initializing", "listing"} => Len(found) = cursor - 1
  /\ discovery = "listed" => Len(found) = LastPage /\ appServer = "stopped"

\* The inductive invariant.
CodexInv == CodexTypeOK /\ LockIsHeld /\ ThreadIsKept /\ PagesInOrder

\* Every initial state satisfies the invariant.
LEMMA CodexInitInv == CodexInit => CodexInv
<1>. SUFFICES ASSUME CodexInit PROVE CodexInv
  OBVIOUS
<1>1. CodexTypeOK
  <2>1. found \in Seq(1..LastPage)
    BY DEF CodexInit
  <2>. QED BY <2>1, CodexAssumption DEF CodexInit, CodexTypeOK, AskAt, Inside, Events
<1>2. LockIsHeld /\ ThreadIsKept
  BY CodexAssumption DEF CodexInit, LockIsHeld, ThreadIsKept, Inside, Announced
<1>3. PagesInOrder
  BY DEF CodexInit, PagesInOrder
<1>. QED BY <1>1, <1>2, <1>3 DEF CodexInv

\* A step of an ask preserves the invariant and leaves the discovery alone.
LEMMA AskStep ==
  ASSUME CodexInv, UNCHANGED modelVars,
         \E a \in Asks :
           \/ AskCodex(a) \/ CancelledInQueue(a) \/ Spawn(a) \/ SpawnFails(a)
           \/ \E e \in Events : ReadEvent(a, e)
           \/ ReadOn(a) \/ GiveUp(a) \/ Finalized(a) \/ ProcessEnds(a) \/ OutputEnds(a)
           \/ StopAsk(a) \/ AskStopped(a) \/ JudgeAsk(a)
  PROVE  CodexInv'
<1>. USE DEF AskGoes, Leaves
<1>1. PagesInOrder'
  BY DEF CodexInv, PagesInOrder, modelVars
<1>m. discovery \in {"none", "initializing", "listing", "listed", "failed"}
      /\ appServer \in {"none", "running", "stopped"} /\ cursor \in 1..LastPage
      /\ found \in Seq(1..LastPage)
  BY DEF CodexInv, CodexTypeOK
<1>2. PICK a \in Asks :
        \/ AskCodex(a) \/ CancelledInQueue(a) \/ Spawn(a) \/ SpawnFails(a)
        \/ \E e \in Events : ReadEvent(a, e)
        \/ ReadOn(a) \/ GiveUp(a) \/ Finalized(a) \/ ProcessEnds(a) \/ OutputEnds(a)
        \/ StopAsk(a) \/ AskStopped(a) \/ JudgeAsk(a)
  OBVIOUS
<1>. DEFINE Types == /\ sessionId \in Asks \cup {NoThread, Resumed} /\ holder \in Asks \cup {NoAsk}
                     /\ ask \in [Asks -> AskAt] /\ thread \in [Asks -> Asks \cup {NoThread, Resumed}]
                     /\ process \in [Asks -> {"none", "running", "exited", "crashed"}]
                     /\ heard \in [Asks -> SUBSET Events]
            Goal == Types' /\ LockIsHeld' /\ ThreadIsKept'
<1>t. Types /\ LockIsHeld /\ ThreadIsKept
  BY DEF CodexInv, CodexTypeOK
<1>3. ASSUME AskCodex(a) \/ CancelledInQueue(a) \/ SpawnFails(a) PROVE Goal
  <2>1. Types'
    BY <1>3, <1>t DEF AskCodex, CancelledInQueue, SpawnFails, AskAt
  <2>2. LockIsHeld'
    BY <1>3, <1>t DEF AskCodex, CancelledInQueue, SpawnFails, LockIsHeld, Inside, AskAt
  <2>3. ThreadIsKept'
    BY <1>3, <1>t DEF AskCodex, CancelledInQueue, SpawnFails, ThreadIsKept, Inside, AskAt, Announced
  <2>. QED BY <2>1, <2>2, <2>3
<1>4. ASSUME Spawn(a) PROVE Goal
  <2>1. Types'
    BY <1>4, <1>t DEF Spawn, Works, AskAt, Inside
  <2>2. LockIsHeld'
    BY <1>4, <1>t, CodexAssumption DEF Spawn, MayAsk, LockIsHeld, Inside, AskAt
  <2>3. ThreadIsKept'
    BY <1>4, <1>t, CodexAssumption DEF Spawn, MayAsk, Works, LockIsHeld, ThreadIsKept, Inside, AskAt, Announced
  <2>. QED BY <2>1, <2>2, <2>3
<1>5. ASSUME NEW e \in Events, ReadEvent(a, e) PROVE Goal
  <2>1. Types'
    BY <1>5, <1>t DEF ReadEvent, AskAt, Inside
  <2>2. LockIsHeld'
    BY <1>5, <1>t DEF ReadEvent, LockIsHeld, Inside, AskAt
  <2>3. sessionId' = IF e = "thread.started" THEN thread[a] ELSE sessionId
    BY <1>5 DEF ReadEvent
  <2>4. sessionId' # NoThread /\ thread[a] = sessionId'
    <3>1. CASE e = "thread.started"
      BY <3>1, <2>3, <1>5, <1>t DEF ReadEvent, ThreadIsKept, Inside
    <3>2. CASE e # "thread.started"
      BY <3>2, <2>3, <1>5, <1>t DEF ReadEvent, ThreadIsKept, Inside, Announced
    <3>. QED BY <3>1, <3>2
  <2>5. sessionId = NoThread \/ sessionId' = sessionId
    BY <2>3, <1>5, <1>t DEF ReadEvent, ThreadIsKept, Inside
  <2>6. \A b \in Asks : b # a => ask[b] \notin Inside
    BY <1>5, <1>t DEF ReadEvent, LockIsHeld, Inside
  <2>7. ThreadIsKept'
    BY <2>4, <2>5, <2>6, <1>5, <1>t DEF ReadEvent, ThreadIsKept, LockIsHeld, Inside, AskAt, Announced
  <2>. QED BY <2>1, <2>2, <2>7
<1>6. ASSUME ReadOn(a) \/ OutputEnds(a) PROVE Goal
  <2>1. Types'
    BY <1>6, <1>t DEF ReadOn, OutputEnds, AskAt, Inside
  <2>2. LockIsHeld'
    BY <1>6, <1>t DEF ReadOn, OutputEnds, LockIsHeld, Inside, AskAt
  <2>3. ThreadIsKept'
    BY <1>6, <1>t DEF ReadOn, OutputEnds, ThreadIsKept, Inside, AskAt, Announced
  <2>. QED BY <2>1, <2>2, <2>3
<1>7. ASSUME Finalized(a) \/ ProcessEnds(a) \/ StopAsk(a) PROVE Goal
  <2>1. Types'
    BY <1>7, <1>t DEF Finalized, ProcessEnds, StopAsk, KillsProcess, AskAt, Inside
  <2>2. LockIsHeld'
    BY <1>7, <1>t DEF Finalized, ProcessEnds, StopAsk, KillsProcess, LockIsHeld, Inside, AskAt
  <2>3. ThreadIsKept'
    BY <1>7, <1>t DEF Finalized, ProcessEnds, StopAsk, KillsProcess, ThreadIsKept, Inside, AskAt, Announced
  <2>. QED BY <2>1, <2>2, <2>3
<1>8. ASSUME GiveUp(a) \/ AskStopped(a) \/ JudgeAsk(a) PROVE Goal
  <2>s. ask[a] \in Inside /\ holder = a
    BY <1>8, <1>t DEF GiveUp, AskStopped, JudgeAsk, LockIsHeld, Inside
  <2>o. \A b \in Asks : b # a => ask[b] \notin Inside
    BY <2>s, <1>t DEF LockIsHeld
  <2>1. Types'
    BY <1>8, <1>t DEF GiveUp, AskStopped, JudgeAsk, AskAt
  <2>2. LockIsHeld'
    <3>1. \A b \in Asks : b # a => ask'[b] = ask[b] /\ heard'[b] = heard[b] /\ process'[b] = process[b]
      BY <1>8, <1>t DEF GiveUp, AskStopped, JudgeAsk
    <3>2. holder' = NoAsk /\ heard'[a] = {} /\ ask'[a] \in {"closed", "failed", "answered"}
      BY <1>8, <1>t DEF GiveUp, AskStopped, JudgeAsk
    <3>3. process'[a] = "running" => ask'[a] = "closed"
      BY <1>8, <1>t DEF GiveUp, AskStopped, JudgeAsk, LockIsHeld
    <3>. QED BY <3>1, <3>2, <3>3, <2>o, <1>t, CodexAssumption DEF LockIsHeld, Inside
  <2>3. ThreadIsKept'
    <3>1. \A b \in Asks : b # a => ask'[b] = ask[b] /\ heard'[b] = heard[b]
      BY <1>8, <1>t DEF GiveUp, AskStopped, JudgeAsk
    <3>2. thread' = thread /\ sessionId' = sessionId /\ heard'[a] = {} /\ ask'[a] \notin Inside
      BY <1>8, <1>t DEF GiveUp, AskStopped, JudgeAsk, Inside
    <3>3. ask'[a] = "answered" => heard[a] # {}
      BY <1>8, <1>t DEF GiveUp, AskStopped, JudgeAsk, Succeeded
    <3>. QED BY <3>1, <3>2, <3>3, <2>s, <1>t DEF ThreadIsKept, Announced
  <2>. QED BY <2>1, <2>2, <2>3
<1>. QED BY <1>1, <1>2, <1>m, <1>3, <1>4, <1>5, <1>6, <1>7, <1>8 DEF CodexInv, CodexTypeOK, modelVars

\* No step of the discovery touches an ask.
LEMMA ModelsStep ==
  ASSUME CodexInv, UNCHANGED askVars,
         Initialize \/ Initialized \/ PageArrives \/ ServerExits \/ DiscoveryFails
  PROVE  CodexInv'
<1>1. /\ CodexTypeOK /\ PagesInOrder /\ LastPage \in Nat \ {0}
  BY CodexAssumption DEF CodexInv
<1>2. LockIsHeld' /\ ThreadIsKept'
  BY DEF CodexInv, askVars, LockIsHeld, ThreadIsKept, Announced
<1>3. ASSUME PageArrives PROVE CodexTypeOK' /\ PagesInOrder'
  <2>1. found \in Seq(1..LastPage) /\ cursor \in 1..LastPage /\ Len(found) = cursor - 1
    BY <1>1, <1>3 DEF CodexTypeOK, PagesInOrder, PageArrives
  <2>2. found' \in Seq(1..LastPage) /\ Len(found') = cursor
        /\ \A i \in 1..Len(found') : found'[i] = IF i <= Len(found) THEN found[i] ELSE cursor
    BY <2>1, <1>3 DEF PageArrives
  <2>3. \A i \in 1..Len(found') : found'[i] = i
    BY <2>1, <2>2, <1>1 DEF PagesInOrder
  <2>4. CASE cursor < LastPage
    BY <2>1, <2>2, <2>3, <2>4, <1>1, <1>3 DEF PageArrives, CodexTypeOK, PagesInOrder, askVars
  <2>5. CASE ~(cursor < LastPage)
    BY <2>1, <2>2, <2>3, <2>5, <1>1, <1>3 DEF PageArrives, CodexTypeOK, PagesInOrder, askVars
  <2>. QED BY <2>4, <2>5
<1>4. ASSUME Initialize \/ Initialized \/ ServerExits \/ DiscoveryFails
      PROVE  CodexTypeOK' /\ PagesInOrder'
  BY <1>1, <1>4 DEF Initialize, Initialized, ServerExits, DiscoveryFails, CodexTypeOK, PagesInOrder, askVars
<1>. QED BY <1>2, <1>3, <1>4 DEF CodexInv

\* Every step preserves the invariant.
LEMMA CodexStep == CodexInv /\ [CodexNext]_codexVars => CodexInv'
<1>. SUFFICES ASSUME CodexInv, [CodexNext]_codexVars PROVE CodexInv'
  OBVIOUS
<1>1. CASE \E a \in Asks :
             \/ AskCodex(a) \/ CancelledInQueue(a) \/ Spawn(a) \/ SpawnFails(a)
             \/ \E e \in Events : ReadEvent(a, e)
             \/ ReadOn(a) \/ GiveUp(a) \/ Finalized(a) \/ ProcessEnds(a) \/ OutputEnds(a)
             \/ StopAsk(a) \/ AskStopped(a) \/ JudgeAsk(a)
  <2>1. UNCHANGED modelVars
    BY <1>1 DEF AskCodex, CancelledInQueue, Spawn, SpawnFails, ReadEvent, ReadOn, GiveUp, Finalized,
                ProcessEnds, OutputEnds, StopAsk, AskStopped, JudgeAsk
  <2>. QED BY <2>1, <1>1, AskStep
<1>2. CASE Initialize \/ Initialized \/ PageArrives \/ ServerExits \/ DiscoveryFails
  <2>1. UNCHANGED askVars
    BY <1>2 DEF Initialize, Initialized, PageArrives, ServerExits, DiscoveryFails
  <2>. QED BY <2>1, <1>2, ModelsStep
<1>3. CASE UNCHANGED codexVars
  BY <1>3 DEF codexVars, askVars, modelVars, CodexInv, CodexTypeOK, LockIsHeld, ThreadIsKept,
              PagesInOrder, Announced
<1>. QED BY <1>1, <1>2, <1>3 DEF CodexNext

\* Whatever holds of a session and a discovery, for every set of asks.
THEOREM CodexInvariant == CodexSpec => []CodexInv
<1>. QED BY CodexInitInv, CodexStep, PTL DEF CodexSpec

\* Every answer is part of the thread that the next ask resumes, and a list of models is
\* whole and in order.
THEOREM OneThreadAlways == CodexSpec => []OneThread
<1>1. CodexInv => OneThread
  <2>. SUFFICES ASSUME CodexInv PROVE OneThread
    OBVIOUS
  <2>1. \A a \in Asks :
          /\ ask[a] = "answered" => thread[a] = sessionId
          /\ process[a] = "running" => holder = a \/ ask[a] = "closed"
    BY DEF CodexInv, LockIsHeld, ThreadIsKept, Inside
  <2>2. discovery = "listed" =>
          appServer = "stopped" /\ Len(found) = LastPage /\ \A i \in 1..LastPage : found[i] = i
    BY DEF CodexInv, PagesInOrder
  <2>. QED BY <2>1, <2>2 DEF OneThread
<1>. QED BY <1>1, CodexInvariant, PTL
=============================================================================
