------------------------------- MODULE RunGate -------------------------------
(***************************************************************************)
(* What the run gate of a Conversation promises (chat/loop.py), without    *)
(* history, questions, statuses and the phases of a turn: one run at a     *)
(* time per object, and a stop that reaches the run it was meant for: a    *)
(* run that was told to stop begins no further stream, and only its own    *)
(* end takes the word back.                                                *)
(***************************************************************************)
CONSTANTS
  Gates,    \* Conversation objects
  Runners,  \* callers that want to run them
  Nowhere   \* place of a runner past no gate

VARIABLES
  place,  \* the gate each runner is past
  doing,  \* out, working, streaming or ending
  told    \* gates whose run was told to stop

runGate == <<place, doing, told>>

Holders(g) == {r \in Runners : place[r] = g}

GateInit ==
  /\ place = [r \in Runners |-> Nowhere]
  /\ doing = [r \in Runners |-> "out"]
  /\ told = {}

Takes(r, g) ==
  /\ place[r] = Nowhere /\ Holders(g) = {}
  /\ place' = [place EXCEPT ![r] = g]
  /\ doing' = [doing EXCEPT ![r] = "working"]
  /\ UNCHANGED told

Streams(r) ==
  /\ doing[r] = "working" /\ place[r] \notin told
  /\ doing' = [doing EXCEPT ![r] = "streaming"]
  /\ UNCHANGED <<place, told>>

\* A stream ends in tool calls or in the end of the run.
StreamIsOver(r) ==
  /\ doing[r] = "streaming"
  /\ \E next \in {"working", "ending"} : doing' = [doing EXCEPT ![r] = next]
  /\ UNCHANGED <<place, told>>

Ends(r) ==
  /\ doing[r] = "working"
  /\ doing' = [doing EXCEPT ![r] = "ending"]
  /\ UNCHANGED <<place, told>>

Leaves(r) ==
  /\ doing[r] = "ending"
  /\ place' = [place EXCEPT ![r] = Nowhere]
  /\ doing' = [doing EXCEPT ![r] = "out"]
  /\ told' = told \ {place[r]}

IsTold(g) ==
  /\ Holders(g) # {}
  /\ told' = told \cup {g}
  /\ UNCHANGED <<place, doing>>

GateNext ==
  \/ \E r \in Runners, g \in Gates : Takes(r, g)
  \/ \E r \in Runners : Streams(r) \/ StreamIsOver(r) \/ Ends(r) \/ Leaves(r)
  \/ \E g \in Gates : IsTold(g)

GateSpec == GateInit /\ [][GateNext]_runGate
==============================================================================
