------------------------------ MODULE Dialogue ------------------------------
(***************************************************************************)
(* The history of one conversation as the model provider gets it           *)
(* (Conversation.run_loop and _run_loop of chat/loop.py, chat/ask_user.py, *)
(* Harness.gather, _messages of llm/gateway.py): which results the calls   *)
(* of the assistant have when the next request is encoded.  Providers      *)
(* refuse a request in which a call is not followed by its result.         *)
(*                                                                         *)
(* Conversation models the gate of the runs; here one run follows another. *)
(* A reload from the database leaves the history as it is.                 *)
(***************************************************************************)
EXTENDS Naturals, Sequences, SequencesExt

CONSTANTS
  MaxDialogueCalls, \* bound: tool calls
  MaxInputs         \* bound: runs

ASSUME DialogueAssumption == {MaxDialogueCalls, MaxInputs} \subseteq Nat

ToolNames == {"tool", "ask", "bad ask"}  \* "bad ask": ask_user with a payload decode_questions refuses

VARIABLES
  dialogue, \* history: inputs, texts, calls and results
  step,     \* "idle", "llm", "tools", or "rejected" (the results of a refused group are due)
  group,    \* the calls of the step under way, in their order
  finished, \* calls of the group whose tool has answered
  stopping, \* stop_event
  unsettled, \* calls whose step ended without their results, or was talked over
  inputs    \* bound: runs so far

dialogueVars == <<dialogue, step, group, finished, stopping, unsettled, inputs>>

Entry(kind, id, name) == [kind |-> kind, id |-> id, name |-> name]

Input(role) == Entry("input", 0, role)
CallEntry(c) == Entry("call", c.id, c.name)
Result(id) == Entry("result", id, "")

Entries(kind) == {i \in DOMAIN dialogue : dialogue[i].kind = kind}

Called == {dialogue[i].id : i \in Entries("call")}
Answered == {dialogue[i].id : i \in Entries("result")}

\* pending_ask_user: the id of the last question without a result (0: none).
OpenQuestions ==
  {i \in Entries("call") : dialogue[i].name # "tool" /\ dialogue[i].id \notin Answered}
Pending == IF OpenQuestions = {} THEN 0 ELSE dialogue[Max(OpenQuestions)].id

DialogueTypeOK ==
  /\ step \in {"idle", "llm", "tools", "rejected"}
  /\ \A i \in DOMAIN group : group[i].name \in ToolNames
  /\ finished \subseteq {c.id : c \in ToSet(group)}
  /\ stopping \in BOOLEAN /\ inputs \in 0..MaxInputs
  /\ unsettled \subseteq 1..MaxDialogueCalls

DialogueInit ==
  /\ dialogue = <<>> /\ step = "idle" /\ group = <<>> /\ finished = {}
  /\ stopping = FALSE /\ unsettled = {} /\ inputs = 0

-----------------------------------------------------------------------------
(* The runs.                                                               *)

\* _enter_run clears stop_event.
Enters ==
  /\ step = "idle" /\ inputs < MaxInputs
  /\ step' = "llm" /\ stopping' = FALSE /\ inputs' = inputs + 1
  /\ UNCHANGED <<group, finished>>

\* _needs_python_reset_notice: a call of execute_python (the "tool") since the last notice.
ResetNotice ==
  LET last == SelectLastInSeq(dialogue, LAMBDA e : e = Input("developer"))
  IN IF \E i \in (last + 1)..Len(dialogue) : dialogue[i].kind = "call" /\ dialogue[i].name = "tool"
     THEN <<Input("developer")>> ELSE <<>>

\* run_loop refuses a message while a question is pending.
UserMessage ==
  /\ Enters
  /\ Pending = 0
  /\ dialogue' = dialogue \o ResetNotice \o <<Input("user")>>
  /\ UNCHANGED unsettled

\* append_developer_notice does not look at the question.
DeveloperNotice ==
  /\ Enters
  /\ dialogue' = Append(dialogue, Input("developer"))
  /\ unsettled' = IF Pending = 0 THEN unsettled ELSE unsettled \cup {Pending}

\* claim_question_answer and run_claimed_answer.
AnswerQuestion ==
  /\ Enters
  /\ \E i \in Entries("call") : dialogue[i].id = Pending /\ dialogue[i].name = "ask"
  /\ dialogue' = Append(dialogue, Result(Pending))
  /\ UNCHANGED unsettled

Stop ==
  /\ step # "idle" /\ ~stopping /\ stopping' = TRUE
  /\ UNCHANGED <<dialogue, step, group, finished, unsettled, inputs>>

-----------------------------------------------------------------------------
(* One step of _run_loop.                                                  *)

Ids(calls) == {c.id : c \in ToSet(calls)}

\* The complete calls of a step: the next ids with any names.
NewCalls ==
  LET used == Cardinality(Called)
  IN UNION {{[i \in 1..n |-> [id |-> used + i, name |-> names[i]]] : names \in [1..n -> ToolNames]} :
              n \in 0..(MaxDialogueCalls - used)}

IsQuestion(c) == c.name # "tool"

\* The text beside calls makes no difference to them.
CommitOutputs(calls) ==
  LET text == IF calls = <<>> THEN <<Entry("text", 0, "")>> ELSE <<>>
  IN dialogue' = dialogue \o text \o [i \in DOMAIN calls |-> CallEntry(calls[i])]

\* A single valid question pauses the conversation.
StreamPauses(calls) ==
  /\ step = "llm"
  /\ Len(calls) = 1 /\ calls[1].name = "ask"
  /\ CommitOutputs(calls)
  /\ step' = "idle"
  /\ UNCHANGED <<group, finished, stopping, unsettled, inputs>>

\* Otherwise "tool_calls" runs the tools, or refuses a group with a question in it.  Without
\* a call it asks again: bounded away.
StreamCalls(calls) ==
  /\ step = "llm" /\ calls # <<>>
  /\ ~(Len(calls) = 1 /\ calls[1].name = "ask")
  /\ CommitOutputs(calls)
  /\ group' = calls /\ finished' = {}
  /\ step' = IF \E i \in DOMAIN calls : IsQuestion(calls[i]) THEN "rejected" ELSE "tools"
  /\ UNCHANGED <<stopping, unsettled, inputs>>

\* "stop", "interrupted", or a reason that blocks: the complete calls stay in the history.
StreamEnds(calls) ==
  /\ step = "llm"
  /\ CommitOutputs(calls)
  /\ unsettled' = unsettled \cup Ids(calls)
  /\ step' = "idle"
  /\ UNCHANGED <<group, finished, stopping, inputs>>

ToolFinishes(id) ==
  /\ step = "tools" /\ id \in Ids(group) \ finished
  /\ finished' = finished \cup {id}
  /\ UNCHANGED <<dialogue, step, group, stopping, unsettled, inputs>>

\* mistake: an interrupted call has no result.
FinishedOnly(calls) ==
  LET done == SelectSeq(calls, LAMBDA c : c.id \in finished \/ step = "rejected")
  IN [i \in DOMAIN done |-> Result(done[i].id)]

\* gather: a result for every call in the order of the calls, the interrupted ones with a
\* snapshot of their output; _rejected_ask_user_results: one for every call of the group.
Results(calls) == [i \in DOMAIN calls |-> Result(calls[i].id)]

\* The results are committed; a stop seen by now ends the run.
ResultsCommit ==
  /\ \/ step = "rejected"
     \/ step = "tools" /\ (finished = Ids(group) \/ stopping)
  /\ dialogue' = dialogue \o Results(group)
  /\ group' = <<>> /\ finished' = {}
  /\ step' = IF stopping THEN "idle" ELSE "llm"
  /\ UNCHANGED <<stopping, unsettled, inputs>>

\* An error, a cancelled task or a crash of the daemon.
RunDies ==
  /\ step # "idle"
  /\ step' = "idle" /\ group' = <<>> /\ finished' = {}
  /\ unsettled' = unsettled \cup Ids(group)
  /\ UNCHANGED <<dialogue, stopping, inputs>>

DialogueNext ==
  \/ UserMessage \/ DeveloperNotice \/ AnswerQuestion \/ Stop
  \/ \E calls \in NewCalls : StreamPauses(calls) \/ StreamCalls(calls) \/ StreamEnds(calls)
  \/ \E id \in 1..MaxDialogueCalls : ToolFinishes(id)
  \/ ResultsCommit \/ RunDies

DialogueSpec == DialogueInit /\ [][DialogueNext]_dialogueVars

-----------------------------------------------------------------------------
(* What a request says.                                                    *)

Message(role, calls) == [role |-> role, calls |-> calls]

\* _messages: the outputs up to the next input or result are one message of the assistant.
AddMessage(messages, e) ==
  LET n == Len(messages)
      call == IF e.kind = "call" THEN <<e.id>> ELSE <<>>
  IN CASE e.kind = "input"  -> Append(messages, Message(e.name, <<>>))
       [] e.kind = "result" -> Append(messages, Message("tool", <<e.id>>))
       [] OTHER -> IF n > 0 /\ messages[n].role = "assistant"
                   THEN [messages EXCEPT ![n].calls = @ \o call]
                   ELSE Append(messages, Message("assistant", call))

MessagesUpTo(history) ==
  LET upTo[n \in 0..Len(history)] ==
        IF n = 0 THEN <<>> ELSE AddMessage(upTo[n - 1], history[n])
  IN upTo

Messages == MessagesUpTo(dialogue)[Len(dialogue)]

\* Every call of a message of the assistant has its result directly behind that message, in
\* the order of the calls and once, unless its step was cut: groups with a question in them,
\* interrupted tools, answered questions, notices and later runs never break a request.
RequestsAreAnswered ==
  LET m == Messages IN
  step = "llm" =>
    \A i \in DOMAIN m : \A j \in DOMAIN m[i].calls :
      m[i].role = "assistant" /\ m[i].calls[j] \notin unsettled =>
        /\ i + j <= Len(m)
        /\ m[i + j] = Message("tool", <<m[i].calls[j]>>)
        /\ \A k \in DOMAIN m : m[k] = m[i + j] => k = i + j
=============================================================================
