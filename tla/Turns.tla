-------------------------------- MODULE Turns --------------------------------
(***************************************************************************)
(* What the turns of one conversation ask of the model endpoints           *)
(* (llm/gateway.py, chat/loop.py): the targets of an alias one after the   *)
(* other, on each of them the Responses API and then Chat Completions, the *)
(* chain of stored responses that lets a Responses request carry only what *)
(* is new, and the history that every turn extends.                        *)
(*                                                                         *)
(* A request to an endpoint, and the memory of an endpoint (which inputs a *)
(* stored response stands for), are external.  The history is kept to      *)
(* whether each message is an input (a message, a tool result) or output.  *)
(***************************************************************************)
EXTENDS Naturals, Sequences, FiniteSets

CONSTANTS
  Endpoints,
  Routes,       \* the target lists of the selectors in use: sequences of [endpoint, model]
  MaxMessages   \* bound: messages of the conversation

Targets == UNION {{r[i] : i \in DOMAIN r} : r \in Routes}
NoTarget == [endpoint |-> "", model |-> ""]

ASSUME TurnsAssumption ==
  /\ \A r \in Routes : r \in Seq(Targets) /\ r # <<>>
  /\ \A t \in Targets : t.endpoint \in Endpoints
  /\ MaxMessages \in Nat /\ NoTarget \notin Targets

VARIABLES
  route,       \* targets of the selector of the conversation's context
  configured,  \* endpoints in GatewayClient.endpoints
  messages,    \* history, in memory and in the database
  chain,       \* context.response_state
  chainRow,    \* the response state row
  standsFor,   \* for each stored response: its target and the inputs it stands for
  turn,        \* where the turn is
  attempt,     \* index in route of the target under way
  asked,       \* the open Responses request: previous_response_id, the inputs in it
  living       \* living_chunks: which attempt and protocol each came from

turnsVars == <<route, configured, messages, chain, chainRow, standsFor, turn, attempt,
               asked, living>>

\* A response state: of which target, the last response (0: none), how many messages it
\* has seen, and whether it starts from the items of a Responses compaction.
Cleared == [target |-> NoTarget, response |-> 0, cursor |-> 0, compacted |-> FALSE]
NothingAsked == [previous |-> 0, inputs |-> {}]

TurnsInit ==
  /\ route \in Routes /\ configured \in SUBSET Endpoints
  /\ messages = <<>> /\ chain = Cleared /\ chainRow = Cleared /\ standsFor = <<>>
  /\ turn = "idle" /\ attempt = 0 /\ asked = NothingAsked /\ living = {}

-----------------------------------------------------------------------------

Inputs == {i \in DOMAIN messages : messages[i] = "in"}
Target == route[attempt]

KeepLiving(kind) == messages' = Append(messages, kind) /\ UNCHANGED living

\* _emit_commit: the history grows and the living chunks are gone.
CommitMessage(kind) == messages' = Append(messages, kind) /\ living' = {}

\* The first request of a run, after its input, and the next one, after the tool results.
TurnStarts ==
  /\ turn \in {"idle", "tools"} /\ Len(messages) < MaxMessages
  /\ CommitMessage("in")
  /\ turn' = "routing" /\ attempt' = 1
  /\ UNCHANGED <<route, configured, chain, chainRow, standsFor, asked>>

\* The run ends with the tools: interrupted, paused for a question, cancelled.
TurnStops ==
  /\ turn = "tools"
  /\ turn' = "idle"
  /\ UNCHANGED <<route, configured, messages, chain, chainRow, standsFor, attempt, asked, living>>

\* A target whose endpoint is not configured is passed over; after the last target the
\* last error is raised.
NextTarget == turn' = "routing" /\ attempt' = attempt + 1 /\ asked' = NothingAsked
RunFails == turn' = "idle" /\ attempt' = 0 /\ asked' = NothingAsked

TargetIsMissing ==
  /\ turn = "routing" /\ attempt \in DOMAIN route /\ Target.endpoint \notin configured
  /\ NextTarget
  /\ UNCHANGED <<route, configured, messages, chain, chainRow, standsFor, living>>

NoTargetLeft ==
  /\ turn = "routing" /\ attempt \notin DOMAIN route
  /\ RunFails
  /\ UNCHANGED <<route, configured, messages, chain, chainRow, standsFor, living>>

\* A chain that another target holds is of no use here.
\* mistake: another target's chain is used.
AnyChain == chain
UsableChain == IF chain.target \in {NoTarget, Target} THEN chain ELSE Cleared

\* _responses_events: only what is new when the endpoint stores what came before,
\* everything else otherwise.
AskResponses ==
  /\ turn = "routing" /\ attempt \in DOMAIN route /\ Target.endpoint \in configured
  /\ chain' = UsableChain
  /\ asked' = [previous |-> chain'.response,
               inputs |-> IF chain'.response # 0 /\ chain'.cursor <= Len(messages)
                          THEN {i \in Inputs : i > chain'.cursor} ELSE Inputs]
  /\ turn' = "responses"
  /\ UNCHANGED <<route, configured, messages, chainRow, standsFor, attempt, living>>

\* The stop event was set before the request, or is seen between two events of the stream.
StopIsSeen ==
  /\ \/ turn = "routing" /\ attempt \in DOMAIN route /\ Target.endpoint \in configured
     \/ turn \in {"responses", "chat"}
  /\ turn' = "stopped"
  /\ UNCHANGED <<route, configured, messages, chain, chainRow, standsFor, attempt, asked, living>>

Speaks ==
  /\ turn \in {"responses", "chat"}
  /\ living' = living \cup {<<attempt, turn>>}
  /\ UNCHANGED <<route, configured, messages, chain, chainRow, standsFor, turn, attempt, asked>>

Behind == IF asked.previous = 0 THEN {} ELSE standsFor[asked.previous].inputs

\* response.completed: the chain goes on from this response, if it has an id.
ResponseCompletes ==
  /\ turn = "responses"
  /\ \/ UNCHANGED <<chain, standsFor>>
     \/ /\ standsFor' = Append(standsFor, [target |-> Target, inputs |-> Behind \cup asked.inputs])
        /\ chain' = [chain EXCEPT !.target = Target, !.response = Len(standsFor) + 1,
                                  !.cursor = Len(messages)]
  /\ turn' = "completed"
  /\ UNCHANGED <<route, configured, messages, chainRow, attempt, asked, living>>

\* An event reached the conversation in this attempt.
Emitted == living # {}

\* mistake: visible events do not stop the fallback.
FallsBackAlways == TRUE

\* An error falls back only before the first event.
MayFallBack == ~Emitted

\* The Responses API fails: with one of the codes of _RESPONSES_FALLBACK_ERROR_CODES the
\* chain is cleared and the same target gets a Chat Completions request.
ResponsesFail ==
  /\ turn = "responses"
  /\ \/ RunFails /\ UNCHANGED chain
     \/ MayFallBack /\ chain' = Cleared /\ turn' = "chat" /\ asked' = NothingAsked /\ UNCHANGED attempt
  /\ UNCHANGED <<route, configured, messages, chainRow, standsFor, living>>

\* Chat Completions gets the whole history in every request; it fails to the next target
\* with one of the codes of _FALLBACK_ERROR_CODES.
ChatCompletes ==
  /\ turn = "chat"
  /\ turn' = "completed"
  /\ UNCHANGED <<route, configured, messages, chain, chainRow, standsFor, attempt, asked, living>>

ChatFails ==
  /\ turn = "chat"
  /\ RunFails \/ (MayFallBack /\ NextTarget)
  /\ UNCHANGED <<route, configured, messages, chain, chainRow, standsFor, living>>

\* merge: what the living chunks make of a message is committed, if it makes one (partial
\* tool calls are dropped) ...
Merge ==
  /\ turn \in {"completed", "stopped"} /\ Len(messages) < MaxMessages
  /\ \/ living # {} /\ CommitMessage("out")
     \/ living' = {} /\ UNCHANGED messages
  /\ turn' = IF turn = "stopped" THEN "lastRecord" ELSE "record"
  /\ attempt' = 0 /\ asked' = NothingAsked
  /\ UNCHANGED <<route, configured, chain, chainRow, standsFor>>

\* ... and _record_usage writes the response state; tools run when the turn has calls.
RecordUsage ==
  /\ turn \in {"record", "lastRecord"}
  /\ chainRow' = chain
  /\ turn' \in IF turn = "lastRecord" THEN {"idle"} ELSE {"idle", "tools"}
  /\ UNCHANGED <<route, configured, messages, chain, standsFor, attempt, asked, living>>

\* GatewayClient.compact asks the endpoint of the response state, or the first target.
CompactTarget == IF chain.target # NoTarget THEN chain.target ELSE route[1]

\* The response state that holds the items an endpoint has compacted.
CompactedBy(t) == [Cleared EXCEPT !.target = t, !.compacted = TRUE]

\* A mailbox conversation grown too long goes on in a new one, with the compacted items of
\* the Responses API as its response state; the failure of that leaves no response state.
CompactChain ==
  /\ turn = "idle" /\ messages # <<>>
  /\ \/ CompactTarget.endpoint \in configured /\ chain' = CompactedBy(CompactTarget)
     \/ chain' = Cleared
  /\ chainRow' = IF chain' = Cleared THEN Cleared ELSE chain'
  /\ messages' = <<"in">> /\ living' = {}
  /\ standsFor' = <<>>
  /\ UNCHANGED <<route, configured, turn, attempt, asked>>

\* The object is dropped, or the daemon dies at any point: the next one starts from the
\* database, with the model the actor has by then.
Respawn ==
  /\ turn' = "idle" /\ attempt' = 0 /\ asked' = NothingAsked /\ living' = {}
  /\ chain' = chainRow
  /\ route' \in Routes
  /\ UNCHANGED <<configured, messages, chainRow, standsFor>>

\* The administrator puts or deletes an endpoint.
Reconfigure ==
  /\ configured' \in SUBSET Endpoints
  /\ configured' # configured
  /\ UNCHANGED <<route, messages, chain, chainRow, standsFor, turn, attempt, asked, living>>

TurnsNext ==
  \/ TurnStarts \/ TurnStops \/ TargetIsMissing \/ NoTargetLeft
  \/ AskResponses \/ StopIsSeen \/ Speaks \/ ResponseCompletes \/ ResponsesFail
  \/ ChatCompletes \/ ChatFails \/ Merge \/ RecordUsage
  \/ CompactChain \/ Respawn \/ Reconfigure

TurnsSpec == TurnsInit /\ [][TurnsNext]_turnsVars

-----------------------------------------------------------------------------

ChainType == [target : Targets \cup {NoTarget}, response : 0..Len(standsFor),
              cursor : 0..MaxMessages, compacted : BOOLEAN]

TurnsTypeOK ==
  /\ route \in Routes /\ configured \subseteq Endpoints
  /\ messages \in Seq({"in", "out"}) /\ Len(messages) <= MaxMessages
  /\ chain \in ChainType /\ chainRow \in ChainType
  /\ standsFor \in Seq([target : Targets, inputs : SUBSET (1..MaxMessages)])
  /\ turn \in {"idle", "routing", "responses", "chat", "completed", "stopped", "record",
               "lastRecord", "tools"}
  /\ attempt \in 0..(1 + Len(route))
  /\ asked \in [previous : 0..Len(standsFor), inputs : SUBSET (1..MaxMessages)]
  /\ living \subseteq ((1..Len(route)) \X {"responses", "chat"})

\* The events that a turn merges into one message come from one attempt on one target over
\* one protocol, whatever failed before it in this run or an earlier one: fallback happens
\* only before the first visible event (llm/gateway.py stream, docs/server-deploy.md), and
\* the chunks of a run that failed are gone before the next one speaks (chat/loop.py).
OneVoice == turn \in {"completed", "stopped"} => Cardinality(living) <= 1

\* A Responses request and the stored response it goes on from together carry every input
\* of the history once, and the response is one of the endpoint and model that is asked:
\* through fallbacks, interrupts, lost writes of the response state, respawns and changes
\* of the actor's model (llm/gateway.py _responses_events).
ChainCoversInputs ==
  turn = "responses" =>
    /\ Behind \cup asked.inputs = Inputs
    /\ Behind \cap asked.inputs = {}
    /\ asked.previous # 0 => standsFor[asked.previous].target = Target
=============================================================================
