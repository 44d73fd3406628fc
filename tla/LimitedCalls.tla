---------------------------- MODULE LimitedCalls ----------------------------
(***************************************************************************)
(* What turn limits and the fixer route promise of a call of a limited     *)
(* capability, without counters, tasks and delivery states: a call takes   *)
(* one place of its turn and keeps it exactly if it was of use, and its    *)
(* answer is given once, to the caller that waits or as a follow-up, or    *)
(* waived.                                                                 *)
(***************************************************************************)
EXTENDS Naturals, FiniteSets

CONSTANTS Calls, Turns, Caps, CapOf, Limit, NoTurn

VARIABLES
  turn,    \* unopened, open or closed
  work,    \* of each call: idle, refused, scheduled, running or over
  home,    \* the turn it takes a place of
  place,   \* none, held, committed (kept for good) or released
  answer   \* none, awaited, told, promised, followed (up) or waived

calls == <<turn, work, home, place, answer>>

\* Places of a turn that are taken, for good or for now.
Taken(k, p) ==
  {c \in Calls : home[c] = k /\ CapOf[c] = p /\ place[c] \in {"held", "committed"}}

Room(k, p) == Cardinality(Taken(k, p)) < Limit[p]

CallsInit ==
  /\ turn = [k \in Turns |-> "unopened"]
  /\ work = [c \in Calls |-> "idle"]
  /\ home = [c \in Calls |-> NoTurn]
  /\ place = [c \in Calls |-> "none"]
  /\ answer = [c \in Calls |-> "none"]

Opens(k) ==
  /\ turn[k] = "unopened" /\ \A j \in Turns : turn[j] # "open"
  /\ turn' = [turn EXCEPT ![k] = "open"]
  /\ UNCHANGED <<work, home, place, answer>>

\* Promises that are kept, of work that is over, and promises that are waived.
Promised == {c \in Calls : answer[c] = "promised"}

Settles(kept, waived) ==
  answer' = [c \in Calls |-> IF c \in kept THEN "followed"
                             ELSE IF c \in waived THEN "waived" ELSE answer[c]]

SomeSettled ==
  \E kept \in SUBSET {c \in Promised : work[c] = "over"}, waived \in SUBSET Promised :
    Settles(kept, waived)

\* A turn that closes may settle what waited for its end.
Closes(k) ==
  /\ turn[k] = "open"
  /\ turn' = [turn EXCEPT ![k] = "closed"]
  /\ SomeSettled
  /\ UNCHANGED <<work, home, place>>

\* A call is admitted exactly while its turn is open and has room: a place that was given
\* back is one that can be taken.
Admitted(c, k) ==
  /\ work[c] = "idle" /\ turn[k] = "open" /\ Room(k, CapOf[c])
  /\ work' \in {[work EXCEPT ![c] = w] : w \in {"scheduled", "running"}}
  /\ home' = [home EXCEPT ![c] = k]
  /\ place' = [place EXCEPT ![c] = "held"]
  /\ answer' = [answer EXCEPT ![c] = "awaited"]
  /\ UNCHANGED turn

Refused(c, k) ==
  /\ work[c] = "idle"
  /\ turn[k] = "closed" \/ (turn[k] = "open" /\ ~Room(k, CapOf[c]))
  /\ work' = [work EXCEPT ![c] = "refused"]
  /\ UNCHANGED <<turn, home, place, answer>>

Begins(c) ==
  /\ work[c] = "scheduled"
  /\ work' = [work EXCEPT ![c] = "running"]
  /\ UNCHANGED <<turn, home, place, answer>>

OfUse(c) ==
  /\ work[c] = "running" /\ place[c] = "held"
  /\ place' = [place EXCEPT ![c] = "committed"]
  /\ UNCHANGED <<turn, work, home, answer>>

\* What becomes of the place of a call that ends: one that never ran keeps it.
PlaceAtEnd(c) ==
  IF work[c] = "scheduled" THEN {"held"}
  ELSE IF place[c] = "held" THEN {"released", "committed"} ELSE {place[c]}

\* Its answer may be given, or waived, in the same step.
AnswerAtEnd(c) ==
  {answer[c]} \cup (IF answer[c] = "awaited" THEN {"told"} ELSE {})
              \cup (IF answer[c] = "promised" THEN {"waived"} ELSE {})

IsOver(c) ==
  /\ work[c] \in {"scheduled", "running"}
  /\ work' = [work EXCEPT ![c] = "over"]
  /\ \E s \in PlaceAtEnd(c) : place' = [place EXCEPT ![c] = s]
  /\ \E a \in AnswerAtEnd(c) : answer' = [answer EXCEPT ![c] = a]
  /\ UNCHANGED <<turn, home>>

\* The caller hears the answer, or leaves with the promise of it.
Told(c) ==
  /\ work[c] = "over" /\ answer[c] = "awaited"
  /\ answer' = [answer EXCEPT ![c] = "told"]
  /\ UNCHANGED <<turn, work, home, place>>

Detached(c) ==
  /\ answer[c] = "awaited"
  /\ \E a \in {"promised", "waived"} : answer' = [answer EXCEPT ![c] = a]
  /\ UNCHANGED <<turn, work, home, place>>

\* Follow-ups, and waivers, between the turns.
Settled == UNCHANGED <<turn, work, home, place>> /\ SomeSettled

CallsNext ==
  \/ Settled
  \/ \E k \in Turns : Opens(k) \/ Closes(k)
  \/ \E c \in Calls, k \in Turns : Admitted(c, k) \/ Refused(c, k)
  \/ \E c \in Calls : \/ Begins(c) \/ OfUse(c) \/ IsOver(c)
                      \/ Told(c) \/ Detached(c)

CallsSpec == CallsInit /\ [][CallsNext]_calls
=============================================================================
