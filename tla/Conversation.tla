---------------------------- MODULE Conversation ----------------------------
(***************************************************************************)
(* The runs of one conversation (chat/loop.py): the run gate, the turn     *)
(* loop, interrupts, the ask_user pause and its answers, and the objects   *)
(* ConversationManager creates and discards for the conversation's id.     *)
(*                                                                         *)
(* A caller is a coroutine that wants to run the conversation: a user's    *)
(* send, a developer notice of the actor, or an answer to a question.      *)
(* Every stretch of code between two awaits is one step.  History is kept  *)
(* to what matters later: whether a tool call or an ask_user call is in it *)
(* without its result, in the memory of each object and in the database.   *)
(***************************************************************************)
EXTENDS FiniteSets

CONSTANTS
  Objects,   \* Conversation objects alive at once
  Users,     \* callers of run_loop with a user message
  Notices,   \* callers of append_developer_notice
  Answers,   \* callers of claim_question_answer and run_claimed_answer
  NoObject

ASSUME ConversationAssumption ==
  /\ NoObject \notin Objects
  /\ Users \cap Notices = {} /\ Users \cap Answers = {} /\ Notices \cap Answers = {}

Callers == Users \cup Notices \cup Answers

VARIABLES
  held,      \* the object in ConversationManager._items
  gate,      \* _run_state of each object
  stop,      \* its stop_event
  claimed,   \* its _answer_claimed
  asked,     \* its history holds an ask_user call without result
  dbStatus,  \* the conversation row's status
  dbAsked,   \* asked, for the history in the database
  phase,     \* where each caller is
  on,        \* the object it is on
  open       \* its run committed a tool call and no result for it yet

objects == <<gate, stop, claimed, asked>>
database == <<dbStatus, dbAsked>>
callers == <<phase, on, open>>
vars == <<held, objects, database, callers>>

\* Phases in which a caller is past the gate.
InLoop == {"starting", "committing", "streaming", "tools", "stopped", "cut", "pausing",
           "blocked", "failed", "leaving"}

Interactive(c) == c \notin Notices

-----------------------------------------------------------------------------

Init ==
  /\ held = NoObject
  /\ gate = [o \in Objects |-> "idle"] /\ stop = [o \in Objects |-> FALSE]
  /\ claimed = [o \in Objects |-> FALSE] /\ asked = [o \in Objects |-> FALSE]
  /\ dbStatus = "none" /\ dbAsked = FALSE
  /\ phase = [c \in Callers |-> "out"] /\ on = [c \in Callers |-> NoObject]
  /\ open = [c \in Callers |-> FALSE]

\* get_or_create and get_or_load, under _create_lock: a new object with the history of the
\* database.  Objects that are neither held nor in use are gone.
InUse(o) == \E c \in Callers : on[c] = o

Load(o) ==
  /\ held = NoObject /\ ~InUse(o)
  /\ held' = o
  /\ gate' = [x \in Objects |-> IF InUse(x) THEN gate[x] ELSE "idle"]
  /\ stop' = [x \in Objects |-> InUse(x) /\ stop[x]]
  /\ claimed' = [x \in Objects |-> InUse(x) /\ claimed[x]]
  /\ asked' = [x \in Objects |-> IF x = o THEN dbAsked ELSE InUse(x) /\ asked[x]]
  /\ UNCHANGED <<database, callers>>

\* discard (sweep, close_for_actor, close_all, delete): close() only sets the stop event.
Discard ==
  /\ held # NoObject
  /\ stop' = [stop EXCEPT ![held] = TRUE]
  /\ held' = NoObject
  /\ UNCHANGED <<gate, claimed, asked, database, callers>>

\* _enter_run: one step, without an await.
MayAlwaysEnter(o) == TRUE   \* mistake: the gate is not looked at
MayEnter(o) == gate[o] = "idle"

Enter(c, o) ==
  /\ MayEnter(o)
  /\ gate' = [gate EXCEPT ![o] = "running"] /\ stop' = [stop EXCEPT ![o] = FALSE]
  /\ phase' = [phase EXCEPT ![c] = "starting"] /\ on' = [on EXCEPT ![c] = o]

\* run_loop refuses while a question is pending; a notice does not ask.
Send(c) ==
  /\ c \in Users /\ phase[c] = "out" /\ held # NoObject /\ ~asked[held]
  /\ Enter(c, held)
  /\ UNCHANGED <<held, claimed, asked, open, database>>

Notice(c) ==
  /\ c \in Notices /\ phase[c] = "out" /\ held # NoObject
  /\ Enter(c, held)
  /\ UNCHANGED <<held, claimed, asked, open, database>>

\* claim_question_answer: the pending question is reserved for this answer.
MayClaimAgain(o) == gate[o] = "idle" /\ asked[o]   \* mistake: a claim does not exclude
MayClaim(o) == gate[o] = "idle" /\ ~claimed[o] /\ asked[o]

Claim(c) ==
  /\ c \in Answers /\ phase[c] = "out" /\ held # NoObject /\ MayClaim(held)
  /\ claimed' = [claimed EXCEPT ![held] = TRUE]
  /\ phase' = [phase EXCEPT ![c] = "claimed"] /\ on' = [on EXCEPT ![c] = held]
  /\ UNCHANGED <<held, gate, stop, asked, open, database>>

\* The acknowledgement cannot be sent: release_question_answer.
GiveUpClaim(c) ==
  /\ phase[c] = "claimed"
  /\ claimed' = [claimed EXCEPT ![on[c]] = FALSE]
  /\ phase' = [phase EXCEPT ![c] = "out"] /\ on' = [on EXCEPT ![c] = NoObject]
  /\ UNCHANGED <<held, gate, stop, asked, open, database>>

\* run_claimed_answer, on the object the claim was made on.
RunAnswer(c) ==
  /\ phase[c] = "claimed"
  /\ Enter(c, on[c])
  /\ UNCHANGED <<held, claimed, asked, open, database>>

\* ConversationBusy leaves run_claimed_answer before its try: the claim stays.
AnswerIsRaced(c) ==
  /\ phase[c] = "claimed" /\ ~MayEnter(on[c])
  /\ phase' = [phase EXCEPT ![c] = "out"] /\ on' = [on EXCEPT ![c] = NoObject]
  /\ UNCHANGED <<held, objects, database, open>>

-----------------------------------------------------------------------------
(* The run.                                                                *)

\* _mark_status("active").
StopCleared(o) == FALSE   \* mistake: the event is cleared once the status is written
StopAtBegin(o) == stop[o]

Begin(c) ==
  /\ phase[c] = "starting"
  /\ dbStatus' = "active"
  /\ stop' = [stop EXCEPT ![on[c]] = StopAtBegin(on[c])]
  /\ phase' = [phase EXCEPT ![c] = "committing"]
  /\ UNCHANGED <<held, gate, claimed, asked, open, dbAsked, on>>

\* What the caller brings is committed (an answer is the result of its question) and the
\* stream begins; with the stop event set already it answers "interrupted" at once.
CommitInput(c) ==
  /\ phase[c] = "committing"
  /\ asked' = [asked EXCEPT ![on[c]] = @ /\ c \notin Answers]
  /\ dbAsked' = (dbAsked /\ c \notin Answers)
  /\ phase' = [phase EXCEPT ![c] = IF stop[on[c]] THEN "cut" ELSE "streaming"]
  /\ gate' = [gate EXCEPT ![on[c]] = IF stop[on[c]] THEN "interrupted" ELSE @]
  /\ UNCHANGED <<held, stop, claimed, open, dbStatus, on>>

\* Outputs with unanswered calls are committed, in memory and in the database.
Commits(c, newOpen, newAsked) ==
  /\ open' = [open EXCEPT ![c] = newOpen]
  /\ asked' = [asked EXCEPT ![on[c]] = @ \/ newAsked] /\ dbAsked' = (dbAsked \/ newAsked)

\* merge keeps the calls whose arguments were complete, whatever the stop reason is.
CommitsAny(c) ==
  \E newOpen \in BOOLEAN, newAsked \in {FALSE, Interactive(c)} : Commits(c, newOpen, newAsked)

\* The LLM stream ends; only "tool_calls" goes on with the calls it committed.  A stream
\* stopped by the event may have ended for its own reason before.
StreamEnds(c) ==
  /\ phase[c] = "streaming"
  /\ \/ /\ CommitsAny(c)                                           \* stop
        /\ phase' = [phase EXCEPT ![c] = "stopped"]
        /\ UNCHANGED gate
     \/ /\ stop[on[c]] /\ CommitsAny(c)                            \* interrupted
        /\ phase' = [phase EXCEPT ![c] = "cut"]
        /\ gate' = [gate EXCEPT ![on[c]] = "interrupted"]
     \/ /\ \E mixed \in {FALSE, Interactive(c)} : Commits(c, TRUE, mixed)
        /\ phase' = [phase EXCEPT ![c] = "tools"]                   \* tool_calls
        /\ UNCHANGED gate
     \/ /\ Interactive(c) /\ Commits(c, FALSE, TRUE)                \* ask_user, alone
        /\ phase' = [phase EXCEPT ![c] = "pausing"]
        /\ UNCHANGED gate
     \/ /\ CommitsAny(c)                                           \* length, ...
        /\ phase' = [phase EXCEPT ![c] = "blocked"]
        /\ UNCHANGED gate
  /\ UNCHANGED <<held, stop, claimed, dbStatus, on>>

\* The provider, or a write of the history, raises.
StreamFails(c) ==
  /\ phase[c] \in {"committing", "streaming"}
  /\ phase' = [phase EXCEPT ![c] = "failed"]
  /\ UNCHANGED <<held, objects, database, on, open>>

\* Harness.gather answers every call (a rejected ask_user group too), the results are
\* committed, and the stop event is looked at.
StreamsAgain(o) == "streaming"   \* mistake: the stop event is left to the next stream
AfterTools(o) == IF stop[o] THEN "cut" ELSE "streaming"

ToolsEnd(c) ==
  /\ phase[c] = "tools"
  /\ LET o == on[c] IN
       /\ open' = [open EXCEPT ![c] = FALSE]
       /\ asked' = [asked EXCEPT ![o] = @ /\ ~Interactive(c)]
       /\ dbAsked' = (dbAsked /\ ~Interactive(c))
       /\ phase' = [phase EXCEPT ![c] = AfterTools(o)]
       /\ gate' = [gate EXCEPT ![o] = IF AfterTools(o) = "cut" THEN "interrupted" ELSE @]
  /\ UNCHANGED <<held, stop, claimed, dbStatus, on>>

\* The caller's asyncio task is cancelled (its actor is stopped, the CLI goes away).
LeavesUnmarked == "leaving"   \* mistake: no status is written for a cancelled run
CancelledPhase == "cut"

CallerCancelled(c) ==
  /\ phase[c] \in {"committing", "streaming", "tools"}
  /\ phase' = [phase EXCEPT ![c] = CancelledPhase]
  /\ gate' = [gate EXCEPT ![on[c]] = "interrupted"]
  /\ UNCHANGED <<held, stop, claimed, asked, open, database, on>>

\* _mark_status at the end of the run.
PhaseAsStatus(p) == p   \* mistake: the loop's phase is written
StatusOf(p) ==
  CASE p = "stopped" -> "closed"          [] p = "cut"    -> "interrupted"
    [] p = "pausing" -> "awaiting_input"  [] p = "failed" -> "error"
    [] OTHER         -> "blocked"

Settle(c) ==
  /\ phase[c] \in {"stopped", "cut", "pausing", "blocked", "failed"}
  /\ dbStatus' = StatusOf(phase[c])
  /\ phase' = [phase EXCEPT ![c] = "leaving"]
  /\ UNCHANGED <<held, objects, dbAsked, on, open>>

\* _exit_run; an answer releases its claim.
Leave(c) ==
  /\ phase[c] = "leaving"
  /\ gate' = [gate EXCEPT ![on[c]] = "idle"]
  /\ claimed' = [claimed EXCEPT ![on[c]] = @ /\ c \notin Answers]
  /\ phase' = [phase EXCEPT ![c] = "out"] /\ on' = [on EXCEPT ![c] = NoObject]
  /\ open' = [open EXCEPT ![c] = FALSE]
  /\ UNCHANGED <<held, stop, asked, database>>

\* Conversation.interrupt, through the manager: true only for a run it reaches.
Interrupt ==
  /\ held # NoObject /\ gate[held] = "running"
  /\ gate' = [gate EXCEPT ![held] = "interrupting"]
  /\ stop' = [stop EXCEPT ![held] = TRUE]
  /\ UNCHANGED <<held, claimed, asked, database, callers>>

Next ==
  \/ \E o \in Objects : Load(o)
  \/ Discard
  \/ \E c \in Callers : Send(c)
  \/ \E c \in Callers : Notice(c)
  \/ \E c \in Callers : Claim(c)
  \/ \E c \in Callers : GiveUpClaim(c)
  \/ \E c \in Callers : RunAnswer(c)
  \/ \E c \in Callers : AnswerIsRaced(c)
  \/ \E c \in Callers : Begin(c)
  \/ \E c \in Callers : CommitInput(c)
  \/ \E c \in Callers : StreamEnds(c)
  \/ \E c \in Callers : StreamFails(c)
  \/ \E c \in Callers : ToolsEnd(c)
  \/ \E c \in Callers : CallerCancelled(c)
  \/ \E c \in Callers : Settle(c)
  \/ \E c \in Callers : Leave(c)
  \/ Interrupt

Spec == Init /\ [][Next]_vars

\* Database writes return, the Gateway client's requests time out, and a tool call ends
\* within TOOL_TIMEOUT_S and the bounds on its cancellation.
Fairness ==
  \A c \in Callers :
    WF_vars(Begin(c) \/ CommitInput(c) \/ StreamEnds(c) \/ ToolsEnd(c) \/ Settle(c) \/ Leave(c))

FairSpec == Spec /\ Fairness

-----------------------------------------------------------------------------

\* Every variable has its type: statuses and phases are among those the code names.
TypeOK ==
  /\ held \in Objects \cup {NoObject}
  /\ gate \in [Objects -> {"idle", "running", "interrupting", "interrupted"}]
  /\ stop \in [Objects -> BOOLEAN] /\ claimed \in [Objects -> BOOLEAN]
  /\ asked \in [Objects -> BOOLEAN]
  /\ dbStatus \in {"none", "active", "closed", "interrupted", "awaiting_input", "blocked",
                   "error"}
  /\ dbAsked \in BOOLEAN
  /\ phase \in [Callers -> InLoop \cup {"out", "claimed"}]
  /\ on \in [Callers -> Objects \cup {NoObject}] /\ open \in [Callers -> BOOLEAN]

\* One run at a time per Conversation object: the gate is taken exactly while a caller is
\* past it.
OneRunPerObject ==
  \A o \in Objects :
    Cardinality({c \in Callers : phase[c] \in InLoop /\ on[c] = o})
      = IF gate[o] = "idle" THEN 0 ELSE 1

\* An interrupt that answered true is not swallowed: the event stays set until the run it
\* was meant for leaves the gate.
InterruptKeepsStop == \A o \in Objects : gate[o] = "interrupting" => stop[o]

\* A caller, and an object, as the gate sees them.
RunPlace == [c \in Callers |-> IF phase[c] \in InLoop THEN on[c] ELSE NoObject]

Doing(p) ==
  IF p \notin InLoop THEN "out"
  ELSE IF p \in {"starting", "committing", "tools"} THEN "working"
  ELSE IF p = "streaming" THEN "streaming" ELSE "ending"
RunDoing == [c \in Callers |-> Doing(phase[c])]

Told == {o \in Objects : /\ stop[o] \/ gate[o] = "interrupting"
                         /\ \E c \in Callers : phase[c] \in InLoop /\ on[c] = o}

Gated == INSTANCE RunGate WITH
  Gates <- Objects, Runners <- Callers, Nowhere <- NoObject,
  place <- RunPlace, doing <- RunDoing, told <- Told

\* The run state and the stop event of each object implement a run gate: one run at a time,
\* and an interrupt (or a close) that finds a run is not swallowed by its start, by its
\* tools or by a caller that waits: it begins no further stream.
RunsAreGated == Gated!GateSpec

\* An answer that was accepted is still the only one for its object, and its question is
\* still there to be answered.
ClaimedQuestionPends ==
  \A c \in Answers : phase[c] = "claimed" =>
    /\ claimed[on[c]] /\ asked[on[c]]
    /\ \A d \in Answers \ {c} : on[d] # on[c]

\* A conversation nobody runs is not shown as active.
IdleIsSettled == (\A c \in Callers : phase[c] \notin InLoop) => dbStatus # "active"

\* A run that was interrupted ends.
InterruptEndsRun == \A o \in Objects : gate[o] = "interrupting" ~> gate[o] = "idle"

\* A conversation has one run at a time, whichever objects serve it.
OneRunPerConversation ==
  \A c, d \in Callers : phase[c] \in InLoop /\ phase[d] \in InLoop => c = d

\* When an interrupted run is over, every tool call it committed has a result.
InterruptedCallsAnswered ==
  \A c \in Callers :
    phase[c] = "leaving" /\ gate[on[c]] = "interrupted" /\ on[c] = held /\ stop[held]
      => ~open[c]
=============================================================================
