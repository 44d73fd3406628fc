------------------------------- MODULE EventBus -------------------------------
(***************************************************************************)
(* The event bus of the daemon and the hub that hands its events to        *)
(* listeners (runtime/events.py): a bounded queue between whoever emits    *)
(* and one task that hands over one event at a time to all listeners at    *)
(* once.  The buffer of recent events for snapshots is left out.           *)
(*                                                                         *)
(* Events are numbered as they enter the queue, which is first in, first   *)
(* out: its content is the events from left + 1 to entered.  Listeners are *)
(* external; one that raises has been handed the event all the same.       *)
(***************************************************************************)
EXTENDS Naturals, FiniteSets

CONSTANTS
  Hearers,     \* possible listeners
  EventQueue,  \* EVENT_QUEUE_SIZE
  MaxEvents    \* bound: events that enter the queue

ASSUME EventAssumption ==
  EventQueue \in Nat \ {0} /\ MaxEvents \in Nat

VARIABLES
  entered,     \* events that have entered the queue
  left,        \* events that have left it
  essential,   \* those of them that are no noisy deltas
  listening,   \* the registered listeners
  hub,         \* the task of the hub, and stop()
  current,     \* the event it hands over
  awaiting,    \* the listeners that have yet to take it
  since,       \* history: events that had entered when a listener was registered
  handed,      \* history: events each registered listener was handed
  brokenOff    \* history: events whose handing over stop() broke off

busVars == <<entered, left, essential>>
hubVars == <<hub, current, awaiting, brokenOff>>
hearerVars == <<listening, since, handed>>
eventVars == <<busVars, hubVars, hearerVars>>

EventInit ==
  /\ entered = 0 /\ left = 0 /\ essential = {}
  /\ hub = "none" /\ current = 0 /\ awaiting = {} /\ brokenOff = {}
  /\ listening = {} /\ since = [h \in Hearers |-> 0] /\ handed = [h \in Hearers |-> {}]

-----------------------------------------------------------------------------

Full == entered - left = EventQueue

\* An event that finds the queue full takes the place of the oldest one.
MakesRoom == left' = IF Full THEN left + 1 ELSE left

\* emit.
Emit ==
  /\ entered < MaxEvents
  /\ entered' = entered + 1 /\ MakesRoom
  /\ essential' = essential \cup {entered + 1}
  /\ UNCHANGED <<hubVars, hearerVars>>

NoisyAlways == TRUE   \* mistake: it takes the place of the oldest, too
\* A noisy delta gives way when the queue is full.
NoisyEnters == ~Full

EmitNoisy ==
  /\ entered < MaxEvents /\ NoisyEnters
  /\ entered' = entered + 1 /\ MakesRoom
  /\ UNCHANGED <<essential, hubVars, hearerVars>>

AddListener(h) ==
  /\ h \notin listening
  /\ listening' = listening \cup {h} /\ since' = [since EXCEPT ![h] = entered]
  /\ UNCHANGED <<handed, busVars, hubVars>>

RemoveListener(h) ==
  /\ h \in listening
  /\ listening' = listening \ {h}
  /\ since' = [since EXCEPT ![h] = 0] /\ handed' = [handed EXCEPT ![h] = {}]
  /\ UNCHANGED <<busVars, hubVars>>

StartHub ==
  /\ hub = "none"
  /\ hub' = "running"
  /\ UNCHANGED <<current, awaiting, brokenOff, busVars, hearerVars>>

\* The next event, for the listeners of this moment: pull() of the task, pull_nowait() of
\* stop().
Dispatch ==
  /\ hub \in {"running", "draining"} /\ current = 0 /\ left < entered
  /\ left' = left + 1 /\ current' = left + 1 /\ awaiting' = listening
  /\ UNCHANGED <<entered, essential, hub, brokenOff, hearerVars>>

Hears(h) ==
  /\ h \in awaiting
  /\ awaiting' = awaiting \ {h}
  /\ handed' = IF h \in listening THEN [handed EXCEPT ![h] = @ \cup {current}] ELSE handed
  /\ UNCHANGED <<busVars, hub, current, brokenOff, listening, since>>

Dispatched ==
  /\ current # 0 /\ awaiting = {}
  /\ current' = 0
  /\ UNCHANGED <<busVars, hub, awaiting, brokenOff, hearerVars>>

\* stop: the task is cancelled with whatever it waits for, then the queue is drained.
StopHub ==
  /\ hub = "running"
  /\ hub' = "draining"
  /\ current' = 0 /\ awaiting' = {}
  /\ brokenOff' = IF awaiting = {} THEN brokenOff ELSE brokenOff \cup {current}
  /\ UNCHANGED <<busVars, hearerVars>>

HubStopped ==
  /\ hub = "draining" /\ current = 0 /\ left = entered
  /\ hub' = "stopped"
  /\ UNCHANGED <<current, awaiting, brokenOff, busVars, hearerVars>>

EventNext ==
  \/ Emit \/ EmitNoisy \/ StartHub \/ Dispatch \/ Dispatched \/ StopHub \/ HubStopped
  \/ \E h \in Hearers : AddListener(h) \/ RemoveListener(h) \/ Hears(h)

EventSpec == EventInit /\ [][EventNext]_eventVars

-----------------------------------------------------------------------------

EventTypeOK ==
  /\ entered \in 0..MaxEvents /\ left \in 0..entered /\ entered - left <= EventQueue
  /\ essential \subseteq 1..entered
  /\ listening \subseteq Hearers /\ awaiting \subseteq Hearers
  /\ hub \in {"none", "running", "draining", "stopped"}
  /\ current \in 0..left /\ brokenOff \subseteq 1..entered
  /\ since \in [Hearers -> 0..entered] /\ handed \in [Hearers -> SUBSET (1..entered)]

\* An event displaced by later ones: a whole queue of them, and not of deltas alone.
Displaced(e) == e + EventQueue <= entered /\ \E later \in essential : e < later

\* A listener misses an event emitted after its registration only if the event was
\* displaced or broken off by stop(): it was handed the event, or the event is queued or
\* on its way, although noisy deltas, essential events, registrations and the end of the
\* hub meet in any order (runtime/events.py emit, stop).
MissedIsDisplaced ==
  \A h \in listening : \A e \in essential :
    e > since[h] =>
      \/ e \in handed[h] \/ e > left \/ (e = current /\ h \in awaiting)
      \/ e \in brokenOff \/ Displaced(e)
=============================================================================
