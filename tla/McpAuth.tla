------------------------------- MODULE McpAuth -------------------------------
(***************************************************************************)
(* One MCP server and the OAuth attempts that authorise it: the record and *)
(* its state in McpManager (runtime/mcp.py), the requests on them          *)
(* (app/service.py), the durable attempts (runtime/auth_attempts.py), and  *)
(* for each attempt a background task that waits for the browser's         *)
(* callback (runtime/mcp_oauth.py).                                        *)
(*                                                                         *)
(* Requests and tasks interleave at every await.  Writes of the one SQLite *)
(* connection are carried out and answered in the order they were issued,  *)
(* so a row changes when its write is issued, and the memory that follows  *)
(* it in that same order.  Discovery (the MCP SDK, the endpoint, the       *)
(* token exchange) is external: it succeeds or raises.                     *)
(***************************************************************************)
EXTENDS Naturals, Sequences

CONSTANTS
  Attempts,     \* identities of the attempts made
  MaxEdits,     \* bound: requests that change the server
  MaxCallbacks  \* bound: requests on attempts, to a callback URL or for their status

ASSUME McpAuthAssumption == MaxEdits \in Nat /\ MaxCallbacks \in Nat

VARIABLES
  server,      \* the record in memory: "none", "on", "off"
  serverRow,   \* the same for the row
  serverState, \* McpServerState.status, "none" when there is none
  tokens,      \* its credential holds OAuth tokens
  probing,     \* a refresh is in discovery
  deleting,    \* a delete waits for its credential to go before the row does
  known,       \* status of each attempt in memory, "none" when it is not there
  attemptRow,  \* status of each attempt's row
  future,      \* its future in _callbacks: "none", "pending", "set"
  task,        \* where its task is
  startedOn,   \* the record its task was started with
  writing,     \* updates of attempts whose write is under way, in order
  edits, callbacks,
  overruled    \* history: attempts a request has given a status of its own

mcpVars == <<server, serverRow, serverState, tokens, probing, deleting, known, attemptRow, future,
             task, startedOn, writing, edits, callbacks, overruled>>
serverVars == <<server, serverRow, serverState, tokens, probing, deleting, edits>>
attemptVars == <<known, attemptRow, future, task, startedOn, writing, callbacks, overruled>>

TaskAt == {"none", "discovering", "asking", "waiting", "exchanging", "saved", "failed", "ending"}

McpInit ==
  /\ server = "none" /\ serverRow = "none" /\ serverState = "none" /\ tokens = FALSE
  /\ probing = FALSE /\ deleting = FALSE
  /\ known = [a \in Attempts |-> "none"] /\ attemptRow = [a \in Attempts |-> "none"]
  /\ future = [a \in Attempts |-> "none"] /\ task = [a \in Attempts |-> "none"]
  /\ startedOn = [a \in Attempts |-> "none"] /\ writing = <<>> /\ edits = 0 /\ callbacks = 0
  /\ overruled = {}

-----------------------------------------------------------------------------

Edit == edits < MaxEdits /\ edits' = edits + 1

\* configure_mcp_server: a new record, or a changed one; a new credential has no tokens.
ConfigureServer ==
  /\ Edit
  /\ \E on \in {"on", "off"} : server' = on /\ serverRow' = on
  /\ tokens' \in {tokens, FALSE}
  /\ UNCHANGED <<serverState, probing, deleting, attemptVars>>

\* has_oauth_tokens.
HasTokens == tokens

\* refresh_mcp_server, and enable_mcp_server before it: without tokens it asks for them,
\* with tokens it starts the discovery.
RefreshServer ==
  /\ Edit /\ server # "none"
  /\ server' \in {server, "on"}
  /\ serverRow' = IF server' = "on" THEN "on" ELSE serverRow
  /\ \/ server' = "off" /\ serverState' = "disabled" /\ UNCHANGED probing
     \/ server' = "on" /\ ~HasTokens /\ serverState' = "needs_auth" /\ UNCHANGED probing
     \/ server' = "on" /\ HasTokens /\ ~probing /\ serverState' = "checking" /\ probing' = TRUE
  /\ UNCHANGED <<tokens, deleting, attemptVars>>

\* The discovery ends: its outcome and the record it started with are stored, whatever has
\* become of the server.
ProbeEnds ==
  /\ probing
  /\ probing' = FALSE
  /\ serverState' \in {"ready", "needs_auth"}
  /\ serverRow' = "on"
  /\ UNCHANGED <<server, tokens, deleting, edits, attemptVars>>

DisableServer ==
  /\ Edit /\ server # "none"
  /\ server' = "off" /\ serverRow' = "off" /\ serverState' = "disabled"
  /\ UNCHANGED <<tokens, probing, deleting, attemptVars>>

\* McpOAuthCoordinator.cancel: the task and the callback of an attempt.  A cancelled task
\* that waits for a write of its own leaves the write to be done, and nobody its answer.
CancelTasks(S) ==
  /\ task' = [a \in Attempts |-> IF a \in S THEN "none" ELSE task[a]]
  /\ future' = [a \in Attempts |-> IF a \in S THEN "none" ELSE future[a]]
  /\ writing' = [i \in DOMAIN writing |->
                   IF writing[i].attempt \in S /\ writing[i].by = "task"
                   THEN [writing[i] EXCEPT !.by = "nobody"] ELSE writing[i]]

\* delete_mcp_server, also of a server that is gone: memory and the tasks at once, then the
\* credential of a record that has one, and only then the row.
DeleteServer ==
  /\ Edit /\ ~deleting
  /\ server' = "none" /\ serverState' = "none"
  /\ CancelTasks({a \in Attempts : known[a] # "none"})
  /\ \/ (~tokens \/ server = "none") /\ serverRow' = "none" /\ UNCHANGED <<tokens, deleting>>
     \/ server # "none" /\ tokens' = FALSE /\ deleting' = TRUE /\ UNCHANGED serverRow
  /\ UNCHANGED <<startedOn, probing, known, attemptRow, callbacks, overruled>>

DeleteServerRow ==
  /\ deleting
  /\ deleting' = FALSE /\ serverRow' = "none"
  /\ UNCHANGED <<server, serverState, tokens, probing, edits, attemptVars>>

DeleteCredential ==
  /\ Edit /\ server # "none"
  /\ tokens' = FALSE /\ serverState' = "needs_auth" /\ serverRow' = server
  /\ UNCHANGED <<server, probing, deleting, attemptVars>>

-----------------------------------------------------------------------------

\* update_auth_attempt: the row is written; memory follows when the write is answered.
Update(a, status, by) ==
  /\ attemptRow' = [attemptRow EXCEPT ![a] = status]
  /\ writing' = Append(writing, [attempt |-> a, status |-> status, by |-> by])

\* start_mcp_oauth: the attempt in the database and in memory, then its callback and its
\* task.
StartAttempt(a) ==
  /\ server # "none" /\ attemptRow[a] = "none"
  /\ attemptRow' = [attemptRow EXCEPT ![a] = "waiting"]
  /\ known' = [known EXCEPT ![a] = "waiting"]
  /\ future' = [future EXCEPT ![a] = "pending"]
  /\ task' = [task EXCEPT ![a] = "discovering"]
  /\ startedOn' = [startedOn EXCEPT ![a] = server]
  /\ UNCHANGED <<serverVars, writing, callbacks, overruled>>

\* redirect_handler: the authorization URL goes into the attempt.
Redirect(a) ==
  /\ task[a] = "discovering" /\ known[a] # "none"
  /\ Update(a, "waiting", "task")
  /\ task' = [task EXCEPT ![a] = "asking"]
  /\ UNCHANGED <<startedOn, serverVars, known, future, callbacks, overruled>>

AwaitCallback(a) ==
  /\ task[a] = "asking" /\ \A i \in DOMAIN writing : writing[i].attempt # a \/ writing[i].by # "task"
  /\ task' = [task EXCEPT ![a] = "waiting"]
  /\ serverState' = "needs_auth"
  /\ UNCHANGED <<startedOn, server, serverRow, tokens, probing, deleting, edits, known, attemptRow, future, writing, callbacks, overruled>>

\* create_auth_attempt by request: an attempt that no task works on.
CreateAttempt(a) ==
  /\ attemptRow[a] = "none"
  /\ attemptRow' = [attemptRow EXCEPT ![a] = "waiting"]
  /\ known' = [known EXCEPT ![a] = "waiting"]
  /\ UNCHANGED <<serverVars, future, task, startedOn, writing, callbacks, overruled>>

RequestOn(a) ==
  /\ callbacks < MaxCallbacks /\ callbacks' = callbacks + 1
  /\ known[a] # "none"

\* complete_mcp_oauth_callback, of a first or a repeated request of the browser: an attempt
\* without a callback raises, otherwise the future gets its result and the attempt is
\* "exchanging".
Callback(a) ==
  /\ RequestOn(a) /\ future[a] # "none"
  /\ future' = [future EXCEPT ![a] = "set"]
  /\ Update(a, "exchanging", "callback")
  /\ UNCHANGED <<startedOn, serverVars, known, task, overruled>>

\* A callback with ?error= asks for no token and looks at no status: the attempt has failed,
\* and its task, if it has one, waits on.
ErrorCallback(a) ==
  /\ RequestOn(a)
  /\ Update(a, "failed", "request")
  /\ overruled' = IF attemptRow[a] = "succeeded" THEN overruled \cup {a} ELSE overruled
  /\ UNCHANGED <<startedOn, serverVars, known, task, future>>

\* PUT /api/auth-attempts/{id}: any status at all ("polling" and "expired" change nothing
\* that "waiting" and "failed" do not).
PutStatus(a) ==
  /\ RequestOn(a)
  /\ \E status \in {"waiting", "exchanging", "succeeded", "failed"} : Update(a, status, "request")
  /\ overruled' = overruled \cup {a}
  /\ UNCHANGED <<startedOn, serverVars, known, task, future>>

Exchange(a) ==
  /\ task[a] = "waiting" /\ future[a] = "set"
  /\ task' = [task EXCEPT ![a] = "exchanging"]
  /\ UNCHANGED <<startedOn, serverVars, known, attemptRow, future, writing, callbacks, overruled>>

\* McpOAuthTokenStorage.set_tokens: the new tokens are in the credential of the server.
StoreTokens == tokens' = TRUE

\* mistake: the future stays for a repeated callback.
KeepCallback(a) == UNCHANGED future
DropCallback(a) == future' = [future EXCEPT ![a] = "none"]

\* The exchange and the discovery behind it succeed, or the discovery needs no exchange:
\* the callback is dropped, the server is ready, its row written; then the attempt has
\* succeeded.
Discovered(a) ==
  /\ task[a] = "exchanging" \/ (task[a] = "discovering" /\ tokens)
  /\ DropCallback(a)
  /\ StoreTokens /\ serverState' = "ready" /\ serverRow' = startedOn[a]
  /\ task' = [task EXCEPT ![a] = "saved"]
  /\ UNCHANGED <<startedOn, server, probing, deleting, edits, known, attemptRow, writing, callbacks, overruled>>

Succeed(a) ==
  /\ task[a] = "saved"
  /\ IF known[a] = "none"
     THEN task' = [task EXCEPT ![a] = "none"] /\ UNCHANGED <<attemptRow, writing>>
     ELSE Update(a, "succeeded", "task") /\ task' = [task EXCEPT ![a] = "ending"]
  /\ UNCHANGED <<startedOn, serverVars, known, future, callbacks, overruled>>

\* It raises, at any point - after the exchange with new tokens in the credential - also
\* because no callback comes in 600 seconds: the attempt has failed, then the server's state
\* and row say so; the callback is dropped last.
AttemptFails(a) ==
  /\ task[a] \in {"discovering", "waiting", "exchanging"}
  /\ (task[a] = "exchanging" /\ StoreTokens) \/ UNCHANGED tokens
  /\ IF known[a] = "none" THEN UNCHANGED <<attemptRow, writing>> ELSE Update(a, "failed", "task")
  /\ task' = [task EXCEPT ![a] = "failed"]
  /\ UNCHANGED <<startedOn, server, serverRow, serverState, probing, deleting, edits, known,
                 future, callbacks, overruled>>

FailureStored(a) ==
  /\ task[a] = "failed" /\ \A i \in DOMAIN writing : writing[i].attempt # a \/ writing[i].by # "task"
  /\ task' = [task EXCEPT ![a] = "none"]
  /\ future' = [future EXCEPT ![a] = "none"]
  /\ serverState' = "needs_auth" /\ serverRow' = startedOn[a]
  /\ UNCHANGED <<startedOn, server, tokens, probing, deleting, edits, known, attemptRow, writing, callbacks, overruled>>

\* The oldest write is answered: AuthAttemptRegistry.put, also of an attempt that has been
\* deleted meanwhile, if who issued it still waits.
WriteAnswered ==
  /\ writing # <<>>
  /\ LET w == Head(writing) IN
       /\ known' = IF w.by = "nobody" THEN known ELSE [known EXCEPT ![w.attempt] = w.status]
       /\ task' = IF task[w.attempt] = "ending" /\ w.by = "task"
                  THEN [task EXCEPT ![w.attempt] = "none"] ELSE task
  /\ writing' = Tail(writing)
  /\ UNCHANGED <<startedOn, serverVars, attemptRow, future, callbacks, overruled>>

\* delete_auth_attempt, by request or by the sweep of expired attempts: the task, the
\* callback, the memory, the row.
DeleteAttempt(a) ==
  /\ known[a] # "none"
  /\ CancelTasks({a})
  /\ known' = [known EXCEPT ![a] = "none"]
  /\ attemptRow' = [attemptRow EXCEPT ![a] = "gone"]
  /\ UNCHANGED <<startedOn, serverVars, callbacks, overruled>>

\* The daemon restarts: the rows are loaded, tasks and callbacks are not there.
McpRestart ==
  /\ server' = serverRow /\ probing' = FALSE /\ deleting' = FALSE
  /\ serverState' = CASE serverRow = "none" -> "none"
                      [] serverRow = "off" -> "disabled"
                      [] OTHER -> "checking"
  /\ known' = [a \in Attempts |-> IF attemptRow[a] = "gone" THEN "none" ELSE attemptRow[a]]
  /\ future' = [a \in Attempts |-> "none"] /\ task' = [a \in Attempts |-> "none"]
  /\ writing' = <<>>
  /\ UNCHANGED <<startedOn, serverRow, tokens, edits, attemptRow, callbacks, overruled>>

McpNext ==
  \/ ConfigureServer \/ RefreshServer \/ ProbeEnds \/ DisableServer \/ DeleteServer
  \/ DeleteServerRow \/ DeleteCredential \/ WriteAnswered \/ McpRestart
  \/ \E a \in Attempts :
       \/ StartAttempt(a) \/ Redirect(a) \/ AwaitCallback(a) \/ Exchange(a)
       \/ CreateAttempt(a) \/ Callback(a) \/ ErrorCallback(a) \/ PutStatus(a)
       \/ Discovered(a) \/ Succeed(a) \/ AttemptFails(a) \/ FailureStored(a) \/ DeleteAttempt(a)

McpSpec == McpInit /\ [][McpNext]_mcpVars

-----------------------------------------------------------------------------

AttemptStatus == {"none", "waiting", "exchanging", "succeeded", "failed"}

McpTypeOK ==
  /\ server \in {"none", "on", "off"} /\ serverRow \in {"none", "on", "off"}
  /\ serverState \in {"none", "disabled", "checking", "needs_auth", "ready"}
  /\ tokens \in BOOLEAN /\ probing \in BOOLEAN /\ deleting \in BOOLEAN
  /\ known \in [Attempts -> AttemptStatus]
  /\ startedOn \in [Attempts -> {"none", "on", "off"}]
  /\ attemptRow \in [Attempts -> AttemptStatus \cup {"gone"}]
  /\ future \in [Attempts -> {"none", "pending", "set"}] /\ task \in [Attempts -> TaskAt]
  /\ writing \in Seq([attempt : Attempts, status : AttemptStatus, by : {"task", "callback", "request", "nobody"}])
  /\ overruled \subseteq Attempts
  /\ edits \in 0..MaxEdits /\ callbacks \in 0..MaxCallbacks

\* A success that the task of an attempt has reported stays in memory and in the row until
\* the attempt is deleted, although the browser may repeat the callback at any moment, an
\* error may have been reported before, and memory follows the row late.  Only a request
\* that gives the attempt a status of its own takes it back: a PUT, or a callback with
\* ?error= that comes after it (runtime/mcp_oauth.py, app/service.py:910-924, 1104-1115).
SucceededIsFinal ==
  [][\A a \in Attempts \ overruled' :
       /\ known[a] = "succeeded" => known'[a] \in {"succeeded", "none"}
       /\ attemptRow[a] = "succeeded" => attemptRow'[a] \in {"succeeded", "gone"}]_mcpVars
=============================================================================
