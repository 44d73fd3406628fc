-------------------------------- MODULE Shell --------------------------------
(***************************************************************************)
(* Shell tasks: a command in a PTY (runtime/pty_runner.py), its input and  *)
(* output streams (runtime/streams.py), its task (runtime/tasks.py) and    *)
(* the bash tool that waits for it (tools/bash.py).                        *)
(*                                                                         *)
(* Every blocking call on a PTY - wait, read, write, terminate - is handed *)
(* to the default executor of the event loop, whose threads all shells     *)
(* share.  A cancelled await takes its call back while no thread has begun *)
(* it; afterwards the thread goes on and nobody hears its answer.  The     *)
(* order in which the executor begins calls is left open.  ptyprocess and  *)
(* its UTF-8 decoder, the executor and the command are external.           *)
(***************************************************************************)
EXTENDS Naturals, FiniteSets

CONSTANTS
  Shells,      \* tasks of kind "shell"
  MaxThreads,  \* size of the default executor
  MaxOutput,   \* bound: pieces of output a command writes
  MaxInput,    \* bound: texts written to the stdin of a task
  MaxCancels   \* bound: cancellations of a task

ASSUME ShellAssumption ==
  MaxThreads \in Nat \ {0} /\ MaxOutput \in Nat /\ MaxInput \in Nat /\ MaxCancels \in Nat

VARIABLES
  shellTask,  \* where the task is
  command,    \* its command: "left" when only a descendant still holds the terminal
  toBegin,    \* calls no thread has begun
  threads,    \* calls that occupy a thread
  orphaned,   \* those of them nobody waits for
  written,    \* pieces of output the command has written
  unread,     \* those the terminal holds
  stdout,     \* those handed to the stdout stream of the task, which trims old ones
  reader,     \* _read_loop: "broken" by an empty string, "failed" by a decoding error
  writer,     \* _stdin_loop
  input,      \* texts in the stdin stream
  fed,        \* how far the subscriber has got in it
  cancels,    \* cancellations of the task
  caller      \* the bash tool that started it

ptyVars == <<command, written, unread>>
callVars == <<toBegin, threads, orphaned>>
loopVars == <<stdout, reader, writer, fed>>
shellVars == <<shellTask, ptyVars, callVars, loopVars, input, cancels, caller>>

ShellAt == {"none", "created", "waiting", "draining", "terminating", "reaping",
            "done", "failed", "cancelled"}
Ended(s) == shellTask[s] \in {"done", "failed", "cancelled"}

PtyCallsOf(s) == {s} \X {"wait", "read", "write", "terminate", "reap"}
PtyCalls == UNION {PtyCallsOf(s) : s \in Shells}

ShellInit ==
  /\ shellTask = [s \in Shells |-> "none"] /\ command = [s \in Shells |-> "none"]
  /\ toBegin = {} /\ threads = {} /\ orphaned = {}
  /\ written = [s \in Shells |-> 0] /\ unread = [s \in Shells |-> 0]
  /\ stdout = [s \in Shells |-> 0] /\ input = [s \in Shells |-> 0] /\ fed = [s \in Shells |-> 0]
  /\ reader = [s \in Shells |-> "none"] /\ writer = [s \in Shells |-> "none"]
  /\ cancels = [s \in Shells |-> 0] /\ caller = [s \in Shells |-> "none"]

ShellGoes(s, p) == shellTask' = [shellTask EXCEPT ![s] = p]

-----------------------------------------------------------------------------
(* The executor. *)

ThreadTakes(c) ==
  /\ c \in toBegin /\ Cardinality(threads) < MaxThreads
  /\ toBegin' = toBegin \ {c} /\ threads' = threads \cup {c}
  /\ UNCHANGED <<shellTask, ptyVars, orphaned, loopVars, input, cancels, caller>>

Heard(s, call) == <<s, call>> \notin orphaned

\* A thread is done with the call, and whoever heard of it hands over the next.
Returns(s, call, next) ==
  /\ <<s, call>> \in threads
  /\ threads' = threads \ {<<s, call>>} /\ orphaned' = orphaned \ {<<s, call>>}
  /\ toBegin' = IF Heard(s, call) THEN toBegin \cup ({s} \X next) ELSE toBegin

\* Awaits that are cancelled.
Abandon(C, next) ==
  /\ toBegin' = (toBegin \ C) \cup next
  /\ orphaned' = orphaned \cup (threads \cap C)
  /\ UNCHANGED threads

-----------------------------------------------------------------------------
(* The command. *)

CommandWrites(s) ==
  /\ command[s] \in {"alive", "left"} /\ written[s] < MaxOutput
  /\ written' = [written EXCEPT ![s] = @ + 1] /\ unread' = [unread EXCEPT ![s] = @ + 1]
  /\ UNCHANGED <<shellTask, command, callVars, loopVars, input, cancels, caller>>

CommandExits(s) ==
  /\ \/ command[s] = "alive" /\ \E p \in {"left", "dead"} : command' = [command EXCEPT ![s] = p]
     \/ command[s] = "left" /\ command' = [command EXCEPT ![s] = "dead"]
  /\ UNCHANGED <<shellTask, written, unread, callVars, loopVars, input, cancels, caller>>

\* The PtyProcess of an ended task is collected once no thread uses it: it closes the
\* terminal and kills the command.
Collected(s) ==
  /\ Ended(s) /\ command[s] = "alive" /\ PtyCallsOf(s) \cap threads = {}
  /\ command' = [command EXCEPT ![s] = "dead"]
  /\ UNCHANGED <<shellTask, written, unread, callVars, loopVars, input, cancels, caller>>

-----------------------------------------------------------------------------
(* The task. *)

\* register_shell_task, for the bash tool or for a request.
SubmitShell(s) ==
  /\ shellTask[s] = "none"
  /\ ShellGoes(s, "created")
  /\ \E by \in {"waiting", "none"} : caller' = [caller EXCEPT ![s] = by]
  /\ UNCHANGED <<ptyVars, callVars, loopVars, input, cancels>>

\* write_task_stdin.
WriteStdin(s) ==
  /\ shellTask[s] # "none" /\ ~Ended(s) /\ input[s] < MaxInput
  /\ input' = [input EXCEPT ![s] = @ + 1]
  /\ UNCHANGED <<shellTask, ptyVars, callVars, loopVars, cancels, caller>>

\* run_pty_process: the command, its two loops, and the wait for its exit.
SpawnShell(s) ==
  /\ shellTask[s] = "created"
  /\ ShellGoes(s, "waiting")
  /\ command' = [command EXCEPT ![s] = "alive"]
  /\ toBegin' = toBegin \cup {<<s, "wait">>, <<s, "read">>}
  /\ reader' = [reader EXCEPT ![s] = "reading"] /\ writer' = [writer EXCEPT ![s] = "starting"]
  /\ UNCHANGED <<written, unread, threads, orphaned, stdout, fed, input, cancels, caller>>

WaitReturns(s) ==
  /\ command[s] \in {"left", "dead"}
  /\ Returns(s, "wait", {})
  /\ IF Heard(s, "wait") THEN ShellGoes(s, "draining") ELSE UNCHANGED shellTask
  /\ UNCHANGED <<ptyVars, loopVars, input, cancels, caller>>

\* The loops are cancelled on the way out; one that has broken off has nothing to cancel.
Stopped(s) == IF reader[s] \in {"broken", "failed"} THEN reader[s] ELSE "ended"

StopLoops(s) ==
  /\ reader' = [reader EXCEPT ![s] = Stopped(s)] /\ writer' = [writer EXCEPT ![s] = "ended"]
  /\ Abandon(PtyCallsOf(s), {})
  /\ UNCHANGED <<stdout, fed>>

NotAwaited(s) == TRUE   \* mistake: the exit status alone ends the task
Drained(s) == reader[s] \in {"ended", "broken", "failed"}

\* `await read_task` raises what the loop has raised.
Finishes(s) ==
  /\ shellTask[s] = "draining" /\ Drained(s)
  /\ ShellGoes(s, IF reader[s] = "failed" THEN "failed" ELSE "done")
  /\ StopLoops(s)
  /\ UNCHANGED <<ptyVars, input, cancels, caller>>

\* TaskScheduler.cancel, which cancels the coroutine each time it is asked to: before its
\* first step it never runs; from the wait it terminates a command that is alive; a second
\* time it breaks off the termination.
CancelShell(s) ==
  /\ shellTask[s] # "none" /\ ~Ended(s) /\ cancels[s] < MaxCancels
  /\ cancels' = [cancels EXCEPT ![s] = @ + 1]
  /\ \/ /\ shellTask[s] = "waiting" /\ command[s] = "alive"
        /\ ShellGoes(s, "terminating")
        /\ Abandon({<<s, "wait">>}, {<<s, "terminate">>})
        /\ UNCHANGED loopVars
     \/ /\ shellTask[s] # "waiting" \/ command[s] # "alive"
        /\ ShellGoes(s, "cancelled") /\ StopLoops(s)
  /\ UNCHANGED <<ptyVars, input, caller>>

TerminateReturns(s) ==
  /\ Returns(s, "terminate", {"reap"})
  /\ IF command[s] = "alive"
     THEN \E p \in {"left", "dead"} : command' = [command EXCEPT ![s] = p]
     ELSE UNCHANGED command
  /\ IF Heard(s, "terminate") THEN ShellGoes(s, "reaping") ELSE UNCHANGED shellTask
  /\ UNCHANGED <<written, unread, loopVars, input, cancels, caller>>

ReapReturns(s) ==
  /\ command[s] \in {"left", "dead"}
  /\ \/ /\ Heard(s, "reap") /\ <<s, "reap">> \in threads
        /\ ShellGoes(s, "cancelled")
        /\ threads' = threads \ {<<s, "reap">>}
        /\ toBegin' = toBegin \ PtyCallsOf(s)
        /\ orphaned' = orphaned \cup (threads' \cap PtyCallsOf(s))
        /\ reader' = [reader EXCEPT ![s] = Stopped(s)] /\ writer' = [writer EXCEPT ![s] = "ended"]
        /\ UNCHANGED <<stdout, fed>>
     \/ ~Heard(s, "reap") /\ Returns(s, "reap", {}) /\ UNCHANGED <<shellTask, loopVars>>
  /\ UNCHANGED <<ptyVars, input, cancels, caller>>

-----------------------------------------------------------------------------
(* Its two loops. *)

\* A piece of output, which is lost when the loop was cancelled.  The bytes of a character
\* that is cut at its end wait in the decoder for the next piece.
ReadReturns(s) ==
  /\ unread[s] > 0
  /\ Returns(s, "read", {"read"})
  /\ unread' = [unread EXCEPT ![s] = @ - 1]
  /\ stdout' = IF Heard(s, "read") THEN [stdout EXCEPT ![s] = @ + 1] ELSE stdout
  /\ UNCHANGED <<shellTask, command, written, reader, writer, fed, input, cancels, caller>>

\* A piece that holds but a part of one character decodes to the empty string, at which
\* the loop stops as if it were the end; one that is not UTF-8 raises.
ReadBreaks(s) ==
  /\ unread[s] > 0
  /\ Returns(s, "read", {})
  /\ unread' = [unread EXCEPT ![s] = @ - 1]
  /\ IF Heard(s, "read")
     THEN \E how \in {"broken", "failed"} : reader' = [reader EXCEPT ![s] = how]
     ELSE UNCHANGED reader
  /\ UNCHANGED <<shellTask, command, written, stdout, writer, fed, input, cancels, caller>>

\* The end of the output: nobody holds the terminal any more.
ReadEnds(s) ==
  /\ unread[s] = 0 /\ command[s] = "dead"
  /\ Returns(s, "read", {})
  /\ reader' = [reader EXCEPT ![s] = Stopped(s)]
  /\ UNCHANGED <<shellTask, ptyVars, stdout, writer, fed, input, cancels, caller>>

\* _stdin_loop: subscribe(replay=True), then one text after the other.
SubscribeInput(s) ==
  /\ writer[s] = "starting"
  /\ writer' = [writer EXCEPT ![s] = "idle"]
  /\ UNCHANGED <<shellTask, ptyVars, callVars, stdout, reader, fed, input, cancels, caller>>

Feed(s) ==
  /\ writer[s] = "idle" /\ fed[s] < input[s]
  /\ writer' = [writer EXCEPT ![s] = "writing"] /\ fed' = [fed EXCEPT ![s] = @ + 1]
  /\ toBegin' = toBegin \cup {<<s, "write">>}
  /\ UNCHANGED <<shellTask, ptyVars, threads, orphaned, stdout, reader, input, cancels, caller>>

\* A write on a closed terminal raises and ends the loop, or what it writes is gone.
WriteReturns(s) ==
  /\ Returns(s, "write", {})
  /\ IF Heard(s, "write")
     THEN \E w \in {"idle"} \cup (IF command[s] = "dead" THEN {"ended"} ELSE {}) :
            writer' = [writer EXCEPT ![s] = w]
     ELSE UNCHANGED writer
  /\ UNCHANGED <<shellTask, ptyVars, stdout, reader, fed, input, cancels, caller>>

-----------------------------------------------------------------------------
(* BashTool.execute. *)

\* wait_until_terminal_or_idle: the task has ended, or is silent or slow and goes on; an
\* interrupt of the tool leaves it running, too.
Answer(s) ==
  /\ caller[s] = "waiting"
  /\ \/ Ended(s) /\ caller' = [caller EXCEPT ![s] = "told"]
     \/ ~Ended(s) /\ caller' = [caller EXCEPT ![s] = "detached"]
     \/ caller' = [caller EXCEPT ![s] = "interrupted"]
  /\ UNCHANGED <<shellTask, ptyVars, callVars, loopVars, input, cancels>>

CallReturns(s) ==
  \/ WaitReturns(s) \/ TerminateReturns(s) \/ ReapReturns(s)
  \/ ReadReturns(s) \/ ReadBreaks(s) \/ ReadEnds(s) \/ WriteReturns(s)

ShellNext ==
  \/ \E c \in PtyCalls : ThreadTakes(c)
  \/ \E s \in Shells :
       \/ CommandWrites(s) \/ CommandExits(s) \/ Collected(s)
       \/ SubmitShell(s) \/ WriteStdin(s) \/ SpawnShell(s) \/ Finishes(s) \/ CancelShell(s)
       \/ SubscribeInput(s) \/ Feed(s) \/ Answer(s) \/ CallReturns(s)

ShellSpec == ShellInit /\ [][ShellNext]_shellVars

-----------------------------------------------------------------------------

ShellTypeOK ==
  /\ shellTask \in [Shells -> ShellAt]
  /\ command \in [Shells -> {"none", "alive", "left", "dead"}]
  /\ toBegin \subseteq PtyCalls /\ threads \subseteq PtyCalls /\ orphaned \subseteq threads
  /\ Cardinality(threads) <= MaxThreads
  /\ written \in [Shells -> 0..MaxOutput] /\ unread \in [Shells -> 0..MaxOutput]
  /\ stdout \in [Shells -> 0..MaxOutput]
  /\ reader \in [Shells -> {"none", "reading", "broken", "failed", "ended"}]
  /\ writer \in [Shells -> {"none", "starting", "idle", "writing", "ended"}]
  /\ input \in [Shells -> 0..MaxInput] /\ fed \in [Shells -> 0..MaxInput]
  /\ cancels \in [Shells -> 0..MaxCancels]
  /\ caller \in [Shells -> {"none", "waiting", "told", "detached", "interrupted"}]

\* A task that is done has been handed everything its command and the command's
\* descendants have written and will ever write, although output, exit and the end of the
\* terminal reach the loop from different threads: unless its reader was broken off by a
\* read that decodes to nothing, the only way to miss output and still be done.  And one
\* cancellation never ends the task before its command (runtime/pty_runner.py:31-63).
EndIsWhole ==
  \A s \in Shells :
    /\ shellTask[s] = "done" =>
         reader[s] = "broken" \/ (command[s] = "dead" /\ stdout[s] = written[s])
    /\ shellTask[s] = "cancelled" /\ cancels[s] = 1 => command[s] # "alive"
=============================================================================
