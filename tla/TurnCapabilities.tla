-------------------------- MODULE TurnCapabilities --------------------------
(***************************************************************************)
(* Turn-limited capabilities: TurnLimitRegistry (runtime/turn_limits.py)   *)
(* and the fixer route that outlives its caller (turn_capabilities.py).    *)
(*                                                                         *)
(* A call reserves a slot of its turn, runs, and commits or releases the   *)
(* slot.  A "plain" call (web search, delegate) holds its caller for as    *)
(* long as it runs.  A fixer call runs as a runtime task whose delivery is *)
(* held while the HTTP caller waits; caller, task, interrupt and delivery  *)
(* coordinator then race to settle who gets the answer.                    *)
(*                                                                         *)
(* One conversation, whose runs follow one another; a user's run opens a   *)
(* turn.  The per-turn lock is never held across a suspension, so each     *)
(* operation of it is one step, and so is the end of a run, which closes   *)
(* its turn, drains the queue and releases the gate.  An answer is         *)
(* "delivered" when it is in the actor's mailbox; what the actor does with *)
(* it, and a Conversation discarded during a run, are TaskDelivery's.      *)
(***************************************************************************)
EXTENDS Integers, FiniteSets

CONSTANTS
  Calls,    \* HTTP requests and tool calls, each made at most once
  Fixers,   \* the calls of a fixer facade; the rest go through run()
  Turns,    \* turn tokens
  Caps,     \* limited capabilities
  CapOf,    \* the capability of each call
  Limit,    \* LIMITS
  NoTurn    \* turn of a call not yet made

ASSUME CapabilityAssumption ==
  /\ IsFiniteSet(Calls) /\ Fixers \subseteq Calls
  /\ CapOf \in [Calls -> Caps]
  /\ Limit \in [Caps -> Nat \ {0}]
  /\ NoTurn \notin Turns

VARIABLES
  run,          \* _run_state of the conversation: idle, running or interrupting
  turn,         \* per token: unopened, open or closed (_states holds it while open)
  successes,    \* _TurnState.successes
  inFlight,     \* _TurnState.in_flight
  turnOf,       \* the _TurnState a call's reservation keeps
  slot,         \* the reservation: none, held, committed or released (_finished)
  stage,        \* the operation: idle, refused, scheduled, running, storing, ended
  result,       \* how it ended
  caller,       \* who waits for it, or what the caller was told
  delivery,     \* delivery_state of a fixer's task record; dropped: the record is evicted
  suppressed    \* the conversation suppresses task deliveries

vars == <<run, turn, successes, inFlight, turnOf, slot, stage, result, caller, delivery,
          suppressed>>

counters == <<run, turn, successes, inFlight>>
calling == <<successes, inFlight, turnOf, slot, stage, result, caller>>

-----------------------------------------------------------------------------

Init ==
  /\ run = "idle"
  /\ turn = [k \in Turns |-> "unopened"]
  /\ successes = [k \in Turns |-> [p \in Caps |-> 0]]
  /\ inFlight = [k \in Turns |-> [p \in Caps |-> 0]]
  /\ turnOf = [c \in Calls |-> NoTurn]
  /\ slot = [c \in Calls |-> "none"]
  /\ stage = [c \in Calls |-> "idle"]
  /\ result = [c \in Calls |-> "none"]
  /\ caller = [c \in Calls |-> "none"]
  /\ delivery = [c \in Calls |-> "none"]
  /\ suppressed = FALSE

\* _enter_run, of a user's message, a follow-up or a continuation.
RunBegins ==
  /\ run = "idle" /\ run' = "running"
  /\ UNCHANGED <<turn, calling, delivery, suppressed>>

\* A user's run opens its token and lifts the suppression of an earlier interrupt.
OpenTurn(k) ==
  /\ run # "idle" /\ turn[k] = "unopened" /\ \A j \in Turns : turn[j] # "open"
  /\ turn' = [turn EXCEPT ![k] = "open"]
  /\ suppressed' = FALSE
  /\ UNCHANGED <<run, calling, delivery>>

\* drain_pending_task_deliveries: what was queued is sent, or skipped if its task was cancelled.
LeftQueued(c) == delivery[c]   \* mistake: the gate is released without the drain
Drained(c) ==
  IF delivery[c] # "queued" THEN delivery[c]
  ELSE IF result[c] \in {"cancelled", "neverRan"} THEN "skipped" ELSE "delivered"

RunEnds ==
  /\ run # "idle" /\ run' = "idle"
  /\ turn' = [k \in Turns |-> IF turn[k] = "open" THEN "closed" ELSE turn[k]]
  /\ delivery' = [c \in Calls |-> Drained(c)]
  /\ UNCHANGED <<calling, suppressed>>

\* The test of reserve().
CountsSuccessesOnly(k, p) == successes[k][p] < Limit[p]   \* mistake: pending not counted
HasRoom(k, p) == successes[k][p] + inFlight[k][p] < Limit[p]

\* The reservation of an open turn; a fixer then registers its task with held delivery.
Reserve(c, k) ==
  /\ stage[c] = "idle" /\ turn[k] = "open" /\ HasRoom(k, CapOf[c])
  /\ inFlight' = [inFlight EXCEPT ![k][CapOf[c]] = @ + 1]
  /\ turnOf' = [turnOf EXCEPT ![c] = k]
  /\ slot' = [slot EXCEPT ![c] = "held"]
  /\ stage' = [stage EXCEPT ![c] = IF c \in Fixers THEN "scheduled" ELSE "running"]
  /\ caller' = [caller EXCEPT ![c] = "waiting"]
  /\ delivery' = [delivery EXCEPT ![c] = IF c \in Fixers THEN "held" ELSE "none"]
  /\ UNCHANGED <<run, turn, successes, result, suppressed>>

\* TurnLimitError, at the limit or after the turn closed.
Refuse(c, k) ==
  /\ stage[c] = "idle"
  /\ turn[k] = "closed" \/ (turn[k] = "open" /\ ~HasRoom(k, CapOf[c]))
  /\ stage' = [stage EXCEPT ![c] = "refused"]
  /\ UNCHANGED <<counters, turnOf, slot, result, caller, delivery, suppressed>>

\* _release: a counter never goes below zero.
OneLess(n) == IF n > 1 THEN n - 1 ELSE 0

\* TurnLimitReservation.commit and .release; both do nothing on a finished reservation.
Commit(c) ==
  IF slot[c] # "held" THEN UNCHANGED <<inFlight, successes, slot>>
  ELSE /\ inFlight' = [inFlight EXCEPT ![turnOf[c]][CapOf[c]] = OneLess(@)]
       /\ successes' = [successes EXCEPT ![turnOf[c]][CapOf[c]] = @ + 1]
       /\ slot' = [slot EXCEPT ![c] = "committed"]

Release(c) ==
  IF slot[c] # "held" THEN UNCHANGED <<inFlight, successes, slot>>
  ELSE /\ inFlight' = [inFlight EXCEPT ![turnOf[c]][CapOf[c]] = OneLess(@)]
       /\ slot' = [slot EXCEPT ![c] = "released"]
       /\ UNCHANGED successes

\* run(): the awaited operation returns, or raises (cancellation of the caller included).
PlainSucceeds(c) ==
  /\ c \notin Fixers /\ stage[c] = "running"
  /\ Commit(c)
  /\ stage' = [stage EXCEPT ![c] = "ended"]
  /\ result' = [result EXCEPT ![c] = "done"]
  /\ caller' = [caller EXCEPT ![c] = "answered"]
  /\ UNCHANGED <<run, turn, turnOf, delivery, suppressed>>

PlainFails(c) ==
  /\ c \notin Fixers /\ stage[c] = "running"
  /\ Release(c)
  /\ stage' = [stage EXCEPT ![c] = "ended"]
  /\ result' = [result EXCEPT ![c] = "failed"]
  /\ caller' = [caller EXCEPT ![c] = "answered"]
  /\ UNCHANGED <<run, turn, turnOf, delivery, suppressed>>

-----------------------------------------------------------------------------
(* The fixer task.                                                         *)

FixerStarts(c) ==
  /\ stage[c] = "scheduled"
  /\ stage' = [stage EXCEPT ![c] = "running"]
  /\ UNCHANGED <<counters, turnOf, slot, result, caller, delivery, suppressed>>

\* hosted_search answers: the slot is committed before the usage row is written.
SearchAnswers(c) ==
  /\ c \in Fixers /\ stage[c] = "running"
  /\ Commit(c)
  /\ stage' = [stage EXCEPT ![c] = "storing"]
  /\ UNCHANGED <<run, turn, turnOf, result, caller, delivery, suppressed>>

\* The operation ends: answered and stored, or failed before or after the answer.
FixerEnds(c, how) ==
  /\ c \in Fixers
  /\ stage[c] = "storing" \/ (stage[c] = "running" /\ how = "failed")
  /\ Release(c)
  /\ stage' = [stage EXCEPT ![c] = "ended"]
  /\ result' = [result EXCEPT ![c] = how]
  /\ UNCHANGED <<run, turn, turnOf, caller, delivery, suppressed>>

\* release_held_delivery: only a held delivery is changed.
SettleReleased(c, deliver) ==   \* mistake: a state the coordinator does not know
  delivery' = [delivery EXCEPT ![c] =
                 IF @ # "held" THEN @ ELSE IF deliver THEN "pending" ELSE "released"]
Settle(c, deliver) ==
  delivery' = [delivery EXCEPT ![c] =
                 IF @ # "held" THEN @ ELSE IF deliver THEN "pending" ELSE "skipped"]

Undelivered(c) == delivery[c] \in {"held", "pending", "queued"}

\* The task is cancelled (by its user, or with its actor, which skips its delivery);
\* before its first step the operation never runs, so nobody releases the slot.
FixerCancelled(c, skip) ==
  /\ c \in Fixers /\ stage[c] \in {"scheduled", "running", "storing"}
  /\ IF stage[c] = "scheduled" THEN UNCHANGED <<inFlight, successes, slot>>
                               ELSE Release(c)
  /\ result' = [result EXCEPT ![c] = IF stage[c] = "scheduled" THEN "neverRan" ELSE "cancelled"]
  /\ stage' = [stage EXCEPT ![c] = "ended"]
  /\ delivery' = [delivery EXCEPT ![c] = IF skip /\ Undelivered(c) THEN "skipped" ELSE @]
  /\ UNCHANGED <<run, turn, turnOf, caller, suppressed>>

\* wait_until_terminal_or_timeout returns, by the end of the task or by the timeout; the
\* route asks again whether the record is terminal.
CallerDetaches(c) == Settle(c, TRUE)

CallerReturns(c) ==
  /\ c \in Fixers /\ caller[c] = "waiting"
  /\ \/ /\ stage[c] = "ended"
        /\ Settle(c, FALSE)
        /\ caller' = [caller EXCEPT ![c] = "answered"]
     \/ /\ stage[c] # "ended"
        /\ CallerDetaches(c)
        /\ caller' = [caller EXCEPT ![c] = "detached"]
  /\ UNCHANGED <<counters, turnOf, slot, stage, result, suppressed>>

\* CancelledError in the waiting route: the kernel's request is gone.
CallerCancelled(c) ==
  /\ c \in Fixers /\ caller[c] = "waiting"
  /\ CallerDetaches(c)
  /\ caller' = [caller EXCEPT ![c] = "detached"]
  /\ UNCHANGED <<counters, turnOf, slot, stage, result, suppressed>>

\* An interrupt of a run skips every delivery of the conversation still to be made.
Interrupt ==
  /\ run = "running" /\ run' = "interrupting"
  /\ suppressed' = TRUE
  /\ delivery' = [c \in Calls |-> IF Undelivered(c) THEN "skipped" ELSE delivery[c]]
  /\ UNCHANGED <<turn, calling>>

\* DEFAULT_TASK_DELIVERY_SUPPRESSION_TTL_S passes.
SuppressionExpires ==
  /\ suppressed /\ suppressed' = FALSE
  /\ UNCHANGED <<run, turn, calling, delivery>>

\* schedule_task_delivery on the terminal record, once its delivery is released.
DeliverHeld(c) == delivery[c] \in {"held", "pending"}   \* mistake: does not wait for it
Deliverable(c) == delivery[c] = "pending"

Deliver(c) ==
  /\ c \in Fixers /\ stage[c] = "ended" /\ Deliverable(c)
  /\ delivery' = [delivery EXCEPT ![c] = CASE suppressed                     -> "skipped"
                                            [] ~suppressed /\ run # "idle"    -> "queued"
                                            [] ~suppressed /\ run = "idle"    -> "delivered"]
  /\ UNCHANGED <<run, turn, calling, suppressed>>

\* The record of a queued result expires, and the drain passes over ids it does not know.
Evict(c) ==
  /\ delivery[c] = "queued"
  /\ delivery' = [delivery EXCEPT ![c] = "dropped"]
  /\ UNCHANGED <<run, turn, calling, suppressed>>

Next ==
  \/ RunBegins
  \/ \E k \in Turns : OpenTurn(k)
  \/ RunEnds
  \/ \E c \in Calls, k \in Turns : Reserve(c, k)
  \/ \E c \in Calls, k \in Turns : Refuse(c, k)
  \/ \E c \in Calls : PlainSucceeds(c)
  \/ \E c \in Calls : PlainFails(c)
  \/ \E c \in Calls : FixerStarts(c)
  \/ \E c \in Calls : SearchAnswers(c)
  \/ \E c \in Calls, how \in {"done", "failed"} : FixerEnds(c, how)
  \/ \E c \in Calls, skip \in BOOLEAN : FixerCancelled(c, skip)
  \/ \E c \in Calls : CallerReturns(c)
  \/ \E c \in Calls : CallerCancelled(c)
  \/ Interrupt
  \/ SuppressionExpires
  \/ \E c \in Calls : Deliver(c)
  \/ \E c \in Calls : Evict(c)

Spec == Init /\ [][Next]_vars

\* The event loop runs a scheduled task, the route's wait is bounded by
\* FIXER_SYNC_WAIT_S, the Gateway client's requests time out and the usage row is
\* written or fails, and the delivery task of a terminal record runs.  Nothing bounds a
\* run: it lasts as long as the model calls tools.
Fairness ==
  \A c \in Calls :
    /\ WF_vars(FixerStarts(c)) /\ WF_vars(CallerReturns(c)) /\ WF_vars(Deliver(c))
    /\ WF_vars(SearchAnswers(c) \/ \E how \in {"done", "failed"} : FixerEnds(c, how))

FairSpec == Spec /\ Fairness

-----------------------------------------------------------------------------

\* Every variable has its type; reservations and deliveries are in the states the code names.
TypeOK ==
  /\ run \in {"idle", "running", "interrupting"}
  /\ turn \in [Turns -> {"unopened", "open", "closed"}]
  /\ successes \in [Turns -> [Caps -> Nat]]
  /\ inFlight \in [Turns -> [Caps -> Nat]]
  /\ turnOf \in [Calls -> Turns \cup {NoTurn}]
  /\ slot \in [Calls -> {"none", "held", "committed", "released"}]
  /\ stage \in [Calls -> {"idle", "refused", "scheduled", "running", "storing", "ended"}]
  /\ result \in [Calls -> {"none", "done", "failed", "cancelled", "neverRan"}]
  /\ caller \in [Calls -> {"none", "waiting", "answered", "detached"}]
  /\ delivery \in [Calls -> {"none", "held", "pending", "queued", "skipped",
                            "delivered", "dropped"}]
  /\ suppressed \in BOOLEAN

With(k, p, s) == {c \in Calls : turnOf[c] = k /\ CapOf[c] = p /\ slot[c] = s}

\* A turn never has more of a capability than its limit, whatever runs at once and
\* whenever the slots come back, also after the token is closed.
WithinLimit ==
  \A k \in Turns, p \in Caps : successes[k][p] + inFlight[k][p] <= Limit[p]

\* The two counters are exactly the reservations: none is counted twice, lost by a second
\* commit or release, or charged to another turn.
SlotsAccounted ==
  \A k \in Turns, p \in Caps :
    /\ inFlight[k][p] = Cardinality(With(k, p, "held"))
    /\ successes[k][p] = Cardinality(With(k, p, "committed"))

\* A call that ran gives its slot back or turns it into a success.
EndedHoldsNoSlot ==
  \A c \in Calls : stage[c] = "ended" /\ result[c] # "neverRan" => slot[c] # "held"

\* The budget of a turn, which the calls that run at once, fail, time out or are cancelled
\* neither exceed nor leak: the two counters are the reservations, within the limit, and a
\* call that ran keeps none (runtime/turn_limits.py).
TurnBudget == WithinLimit /\ SlotsAccounted /\ EndedHoldsNoSlot

\* The model reads an answer once: a caller that was answered gets no second copy as a
\* follow-up of its conversation.
AnsweredOnce ==
  \A c \in Fixers : caller[c] = "answered" => delivery[c] # "delivered"

\* A call as its turn and its caller see it.
Work(c) ==
  CASE stage[c] = "storing" -> "running" [] stage[c] = "ended" -> "over" [] OTHER -> stage[c]

\* "twice" is no answer the abstract specification knows.
FollowUp(c) ==
  CASE delivery[c] \in {"pending", "queued"} -> "promised"
    [] delivery[c] = "delivered" -> "followed"
    [] OTHER -> "waived"

Answer(c) ==
  CASE caller[c] = "none" -> "none"
    [] caller[c] = "waiting" -> "awaited"
    [] caller[c] = "answered" -> IF delivery[c] = "delivered" THEN "twice" ELSE "told"
    [] caller[c] = "detached" -> FollowUp(c)

CallWork == [c \in Calls |-> Work(c)]
CallAnswer == [c \in Calls |-> Answer(c)]

Limited == INSTANCE LimitedCalls WITH
  work <- CallWork, home <- turnOf, place <- slot, answer <- CallAnswer

\* The counters, the held deliveries and the four parties that race to settle one (caller,
\* task, interrupt, coordinator) implement limited calls: a turn admits exactly while it
\* has room, a place is kept exactly by a call that was of use, and the model reads an
\* answer once, from the caller or as a follow-up.
CallsAreLimited == Limited!CallsSpec

\* Where every run ends, a caller that was told "pending" hears of the task again, unless an
\* interrupt or a cancellation gave the delivery up or a run outlasted the record: the
\* delivery is left neither held, nor pending, nor in the queue of the conversation
\* (turn_capabilities.py, schedule_task_delivery and the drain at the end of a run).
DetachedIsSettled ==
  []<>(run = "idle") =>
    \A c \in Fixers :
      caller[c] = "detached" ~> delivery[c] \in {"delivered", "skipped", "dropped"}
=============================================================================
