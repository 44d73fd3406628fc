-------------------------------- MODULE Codex --------------------------------
(***************************************************************************)
(* Codex from the kernel of an actor (yext/codex.py): the asks of one      *)
(* Session, each a process whose events are streamed to a consumer, and    *)
(* one discovery of models by a short-lived app-server.                    *)
(*                                                                         *)
(* Codex is external: a process announces its thread before it writes      *)
(* anything else, works on the thread it was told to resume, and may stop  *)
(* anywhere.  A lock serialises the asks.  A consumer that gives up        *)
(* between two events leaves the lock at once, and the process is killed   *)
(* later, when the event loop closes the abandoned inner generator.        *)
(***************************************************************************)
EXTENDS Naturals, Sequences

CONSTANTS
  Asks,      \* calls of ask(), each names the thread its process starts
  NoAsk,     \* nobody holds the lock
  NoThread,  \* a session without thread
  Resumed,   \* the thread a session of resume_session() begins with
  LastPage   \* pages of the list of models

ASSUME CodexAssumption ==
  /\ NoAsk \notin Asks /\ NoThread \notin Asks /\ Resumed \notin Asks /\ NoThread # Resumed
  /\ LastPage \in Nat \ {0}

VARIABLES
  sessionId,  \* Session._id
  holder,     \* who holds Session._lock
  ask,        \* where each ask is
  thread,     \* the thread its process works on
  process,    \* its process; "exited" with code 0, "crashed" or killed with another
  heard,      \* the events it has read, while it is inside
  discovery,  \* where models() is
  appServer,  \* its app-server
  cursor,     \* the page it asks for
  found       \* the pages it has

askVars == <<sessionId, holder, ask, thread, process, heard>>
modelVars == <<discovery, appServer, cursor, found>>
codexVars == <<askVars, modelVars>>

Inside == {"reading", "yielded", "ending", "stopping"}
AskAt == {"none", "queued", "answered", "failed", "closed"} \cup Inside
Events == {"thread.started", "item.completed", "failure", "turn.completed"}

CodexInit ==
  /\ sessionId \in {NoThread, Resumed}  \* open_session, resume_session
  /\ holder = NoAsk
  /\ ask = [a \in Asks |-> "none"] /\ thread = [a \in Asks |-> NoThread]
  /\ process = [a \in Asks |-> "none"] /\ heard = [a \in Asks |-> {}]
  /\ discovery = "none" /\ appServer = "none" /\ cursor = 1 /\ found = <<>>

AskGoes(a, p) == ask' = [ask EXCEPT ![a] = p]

\* It leaves the lock.
Leaves(a, p) == AskGoes(a, p) /\ holder' = NoAsk /\ heard' = [heard EXCEPT ![a] = {}]

-----------------------------------------------------------------------------
(* Session.ask *)

AskCodex(a) ==
  /\ ask[a] = "none"
  /\ AskGoes(a, "queued")
  /\ UNCHANGED <<sessionId, holder, thread, process, heard, modelVars>>

CancelledInQueue(a) ==
  /\ ask[a] = "queued"
  /\ AskGoes(a, "failed")
  /\ UNCHANGED <<sessionId, holder, thread, process, heard, modelVars>>

AsksAnyway(a) == TRUE   \* mistake: no lock
MayAsk(a) == holder = NoAsk

\* _command: a session that knows its thread resumes it.
Works(a) == IF sessionId = NoThread THEN a ELSE sessionId

Spawn(a) ==
  /\ ask[a] = "queued" /\ MayAsk(a)
  /\ AskGoes(a, "reading") /\ holder' = a
  /\ thread' = [thread EXCEPT ![a] = Works(a)]
  /\ process' = [process EXCEPT ![a] = "running"]
  /\ UNCHANGED <<sessionId, heard, modelVars>>

\* The binary is not on PATH.
SpawnFails(a) ==
  /\ ask[a] = "queued" /\ MayAsk(a)
  /\ AskGoes(a, "failed")
  /\ UNCHANGED <<sessionId, holder, thread, process, heard, modelVars>>

\* An event is read, noted and yielded.
Announced(a) == "thread.started" \in heard[a]

ReadEvent(a, e) ==
  /\ ask[a] = "reading"
  /\ e = "thread.started" \/ Announced(a)
  /\ heard' = [heard EXCEPT ![a] = @ \cup {e}]
  /\ sessionId' = IF e = "thread.started" THEN thread[a] ELSE sessionId
  /\ AskGoes(a, "yielded")
  /\ UNCHANGED <<holder, thread, process, modelVars>>

\* The consumer asks for the next event.
ReadOn(a) ==
  /\ ask[a] = "yielded"
  /\ AskGoes(a, "reading")
  /\ UNCHANGED <<sessionId, holder, thread, process, heard, modelVars>>

\* The consumer gives up: GeneratorExit leaves ask() and its lock; _ask() is only dropped.
GiveUp(a) ==
  /\ ask[a] = "yielded"
  /\ Leaves(a, "closed")
  /\ UNCHANGED <<sessionId, thread, process, modelVars>>

KillsProcess(a) == process' = [process EXCEPT ![a] = IF @ = "running" THEN "crashed" ELSE @]

Finalized(a) ==
  /\ ask[a] = "closed" /\ process[a] = "running"
  /\ KillsProcess(a)
  /\ UNCHANGED <<sessionId, holder, ask, thread, heard, modelVars>>

ProcessEnds(a) ==
  /\ process[a] = "running"
  /\ \E p \in {"exited", "crashed"} : process' = [process EXCEPT ![a] = p]
  /\ UNCHANGED <<sessionId, holder, ask, thread, heard, modelVars>>

OutputEnds(a) ==
  /\ ask[a] = "reading"
  /\ AskGoes(a, "ending")
  /\ UNCHANGED <<sessionId, holder, thread, process, heard, modelVars>>

\* Past its deadline, not JSON, or cancelled: _stop kills the process, and waits for it at
\* most a second.
StopAsk(a) ==
  /\ ask[a] \in {"reading", "ending"}
  /\ KillsProcess(a)
  /\ AskGoes(a, "stopping")
  /\ UNCHANGED <<sessionId, holder, thread, heard, modelVars>>

AskStopped(a) ==
  /\ ask[a] = "stopping"
  /\ Leaves(a, "failed")
  /\ UNCHANGED <<sessionId, thread, process, modelVars>>

\* The process is gone: what the events and its code say.
Succeeded(a) ==
  {"turn.completed", "item.completed"} \subseteq heard[a] /\ "failure" \notin heard[a]
  /\ process[a] = "exited"

JudgeAsk(a) ==
  /\ ask[a] = "ending" /\ process[a] \in {"exited", "crashed"}
  /\ Leaves(a, IF Succeeded(a) THEN "answered" ELSE "failed")
  /\ UNCHANGED <<sessionId, thread, process, modelVars>>

-----------------------------------------------------------------------------
(* models() *)

Initialize ==
  /\ discovery = "none"
  /\ discovery' = "initializing" /\ appServer' = "running"
  /\ UNCHANGED <<askVars, cursor, found>>

Initialized ==
  /\ discovery = "initializing" /\ appServer = "running"
  /\ discovery' = "listing"
  /\ UNCHANGED <<askVars, appServer, cursor, found>>

\* The answer to the request at hand, others are passed over: a page, and either the cursor
\* of the next or the end, at which the app-server is stopped.
PageArrives ==
  /\ discovery = "listing" /\ appServer = "running"
  /\ found' = Append(found, cursor)
  /\ IF cursor < LastPage
     THEN cursor' = cursor + 1 /\ UNCHANGED <<discovery, appServer>>
     ELSE discovery' = "listed" /\ appServer' = "stopped" /\ UNCHANGED cursor
  /\ UNCHANGED askVars

ServerExits ==
  /\ appServer = "running"
  /\ appServer' = "stopped"
  /\ UNCHANGED <<askVars, discovery, cursor, found>>

\* Timeout, early exit, error or invalid answer: the app-server is stopped and nothing listed.
DiscoveryFails ==
  /\ discovery \in {"initializing", "listing"}
  /\ discovery' = "failed" /\ appServer' = "stopped"
  /\ UNCHANGED <<askVars, cursor, found>>

CodexNext ==
  \/ \E a \in Asks :
       \/ AskCodex(a) \/ CancelledInQueue(a) \/ Spawn(a) \/ SpawnFails(a)
       \/ \E e \in Events : ReadEvent(a, e)
       \/ ReadOn(a) \/ GiveUp(a) \/ Finalized(a) \/ ProcessEnds(a) \/ OutputEnds(a)
       \/ StopAsk(a) \/ AskStopped(a) \/ JudgeAsk(a)
  \/ Initialize \/ Initialized \/ PageArrives \/ ServerExits \/ DiscoveryFails

CodexSpec == CodexInit /\ [][CodexNext]_codexVars

-----------------------------------------------------------------------------

CodexTypeOK ==
  /\ sessionId \in Asks \cup {NoThread, Resumed} /\ holder \in Asks \cup {NoAsk}
  /\ ask \in [Asks -> AskAt] /\ thread \in [Asks -> Asks \cup {NoThread, Resumed}]
  /\ process \in [Asks -> {"none", "running", "exited", "crashed"}]
  /\ heard \in [Asks -> SUBSET Events]
  /\ discovery \in {"none", "initializing", "listing", "listed", "failed"}
  /\ appServer \in {"none", "running", "stopped"}
  /\ cursor \in 1..LastPage /\ found \in Seq(1..LastPage)

\* Every answer of a session is part of the thread its next ask resumes, however asks
\* fail, are cancelled before or after their thread was announced, or are given up; a
\* process that runs belongs to the ask that holds the lock or to one given up, which the
\* event loop has yet to close (yext/codex.py, Session.ask); and a list of models has every
\* page once, in order, or none.
OneThread ==
  /\ \A a \in Asks :
       /\ ask[a] = "answered" => thread[a] = sessionId
       /\ process[a] = "running" => holder = a \/ ask[a] = "closed"
  /\ discovery = "listed" =>
       appServer = "stopped" /\ Len(found) = LastPage /\ \A i \in 1..LastPage : found[i] = i
=============================================================================
