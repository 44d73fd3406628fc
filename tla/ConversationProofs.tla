------------------------- MODULE ConversationProofs -------------------------
(***************************************************************************)
(* Proofs about Conversation, for any set of objects and of callers: the   *)
(* gate excludes, an accepted interrupt is not swallowed, an accepted      *)
(* answer keeps its question, nobody leaves the row active, and the runs   *)
(* implement RunGate.                                                      *)
(***************************************************************************)
EXTENDS Conversation, FiniteSetTheorems, TLAPS

\* A caller is on an object exactly while it is past the gate or has claimed a question.
PlaceTellsObject ==
  \A c \in Callers :
    /\ phase[c] = "out" <=> on[c] = NoObject
    /\ phase[c] = "claimed" => c \in Answers

\* The gate is taken exactly while a caller is past it, and by one caller.
GateExcludes ==
  /\ \A c \in Callers : phase[c] \in InLoop => gate[on[c]] # "idle"
  /\ \A o \in Objects : gate[o] # "idle" => \E c \in Callers : phase[c] \in InLoop /\ on[c] = o
  /\ \A c, d \in Callers : phase[c] \in InLoop /\ phase[d] \in InLoop /\ on[c] = on[d] => c = d

\* An answer on an object has claimed its question, alone.
ClaimExcludes ==
  /\ \A c \in Answers : phase[c] # "out" => claimed[on[c]]
  /\ \A c, d \in Answers : phase[c] # "out" /\ phase[d] # "out" /\ on[c] = on[d] => c = d

\* While an answer waits to run, its question pends and no user runs on its object.
ClaimKeepsUsersOut ==
  \A c \in Answers : phase[c] = "claimed" =>
    asked[on[c]] /\ \A d \in Users : on[d] # on[c]

\* The row says active only while somebody is between its two writes.
ActiveIsRun ==
  dbStatus = "active" => \E c \in Callers : phase[c] \in InLoop \ {"starting", "leaving"}

IInv ==
  /\ TypeOK /\ PlaceTellsObject /\ GateExcludes /\ ClaimExcludes
  /\ ClaimKeepsUsersOut /\ ActiveIsRun /\ InterruptKeepsStop

Runs(c) ==
  \/ Begin(c) \/ CommitInput(c) \/ StreamEnds(c) \/ StreamFails(c) \/ ToolsEnd(c)
  \/ CallerCancelled(c) \/ Settle(c)

-----------------------------------------------------------------------------

\* Every initial state satisfies the invariant.
LEMMA InitInv == Init => IInv
  BY ConversationAssumption
  DEF Init, IInv, TypeOK, PlaceTellsObject, GateExcludes, ClaimExcludes, ClaimKeepsUsersOut,
      ActiveIsRun, InterruptKeepsStop, InLoop, Callers

\* An object with a caller past the gate or with a claim is in use.
LEMMA OnObject ==
  ASSUME IInv, NEW c \in Callers, phase[c] # "out"
  PROVE  on[c] \in Objects
  BY DEF IInv, TypeOK, PlaceTellsObject

\* What the steps of a run have in common.
LEMMA RunStep ==
  ASSUME IInv, NEW c \in Callers, Runs(c)
  PROVE  /\ UNCHANGED <<held, stop, claimed, on>>
         /\ on[c] \in Objects
         /\ phase[c] \in InLoop \ {"leaving"} /\ phase'[c] \in InLoop \ {"starting"}
         /\ \A d \in Callers \ {c} : phase'[d] = phase[d]
         /\ gate' = gate \/ gate' = [gate EXCEPT ![on[c]] = "interrupted"]
         /\ dbStatus' = "active" => phase'[c] # "leaving"
         /\ \A o \in Objects : asked[o] /\ ~asked'[o] => o = on[c] /\ c \notin Notices
         /\ TypeOK'
<1>. USE DEF InLoop
<1>1. on[c] \in Objects /\ phase[c] \in InLoop \ {"leaving"}
  BY OnObject DEF Runs, Begin, CommitInput, StreamEnds, StreamFails, ToolsEnd, CallerCancelled, Settle
<1>2. CASE Begin(c)
  BY <1>1, <1>2 DEF IInv, TypeOK, Begin, StopAtBegin
<1>3. CASE CommitInput(c)
  BY <1>1, <1>3, ConversationAssumption DEF IInv, TypeOK, CommitInput, Callers
<1>4. CASE StreamEnds(c)
  <2>1. PICK newOpen \in BOOLEAN, newAsked \in BOOLEAN : Commits(c, newOpen, newAsked)
    BY <1>4 DEF StreamEnds, CommitsAny, Interactive
  <2>2. \A o \in Objects : asked[o] => asked'[o]
    BY <1>1, <2>1 DEF IInv, TypeOK, Commits
  <2>3. open' \in [Callers -> BOOLEAN] /\ asked' \in [Objects -> BOOLEAN] /\ dbAsked' \in BOOLEAN
    BY <1>1, <2>1 DEF IInv, TypeOK, Commits
  <2>4. /\ UNCHANGED <<held, stop, claimed, dbStatus, on>>
        /\ \E p \in {"stopped", "cut", "tools", "pausing", "blocked"} :
             phase' = [phase EXCEPT ![c] = p]
        /\ gate' = gate \/ gate' = [gate EXCEPT ![on[c]] = "interrupted"]
    BY <1>4 DEF StreamEnds
  <2>5. TypeOK'
    BY <1>1, <2>3, <2>4 DEF IInv, TypeOK
  <2>6. /\ phase'[c] \in {"stopped", "cut", "tools", "pausing", "blocked"}
        /\ \A d \in Callers \ {c} : phase'[d] = phase[d]
    BY <2>4 DEF IInv, TypeOK
  <2>. QED BY <1>1, <2>2, <2>4, <2>5, <2>6
<1>5. CASE StreamFails(c)
  BY <1>1, <1>5 DEF IInv, TypeOK, StreamFails, objects, database
<1>6. CASE ToolsEnd(c)
  BY <1>1, <1>6 DEF IInv, TypeOK, ToolsEnd, Interactive, AfterTools
<1>7. CASE CallerCancelled(c)
  BY <1>1, <1>7 DEF IInv, TypeOK, CallerCancelled, CancelledPhase, database
<1>8. CASE Settle(c)
  BY <1>1, <1>8 DEF IInv, TypeOK, Settle, StatusOf, objects
<1>. QED BY <1>2, <1>3, <1>4, <1>5, <1>6, <1>7, <1>8 DEF Runs

\* A run keeps its gate, its claim and its place until it leaves.
LEMMA RunPreserves ==
  ASSUME IInv, NEW c \in Callers, Runs(c)
  PROVE  IInv'
<1>. USE RunStep, ConversationAssumption
<1>1. /\ phase[c] \in InLoop /\ phase'[c] \in InLoop /\ phase[c] # "claimed" /\ phase[c] # "out"
      /\ phase'[c] # "claimed" /\ phase'[c] # "out"
  BY DEF InLoop
<1>2. PlaceTellsObject'
  BY <1>1 DEF IInv, PlaceTellsObject
<1>3. GateExcludes'
  <2>1. \A o \in Objects : gate'[o] = "idle" <=> gate[o] = "idle"
    BY <1>1 DEF IInv, TypeOK, GateExcludes
  <2>2. \A d \in Callers : phase'[d] \in InLoop <=> phase[d] \in InLoop
    BY <1>1
  <2>3. \A d \in Callers : phase[d] \in InLoop => on[d] \in Objects
    BY OnObject DEF InLoop
  <2>. QED BY <2>1, <2>2, <2>3 DEF IInv, GateExcludes
<1>4. ClaimExcludes'
  BY <1>1 DEF IInv, ClaimExcludes, Callers
<1>5. ClaimKeepsUsersOut'
  <2>1. SUFFICES ASSUME NEW d \in Answers, phase'[d] = "claimed"
                 PROVE  asked'[on'[d]] /\ \A u \in Users : on'[u] # on'[d]
    BY DEF ClaimKeepsUsersOut
  <2>2. d # c /\ phase[d] = "claimed" /\ d \in Callers
    BY <1>1, <2>1 DEF Callers
  <2>3. on[d] \in Objects /\ asked[on[d]] /\ \A u \in Users : on[u] # on[d]
    BY <2>2, OnObject DEF IInv, ClaimKeepsUsersOut
  <2>4. ~(on[d] = on[c] /\ c \notin Notices)
    BY <1>1, <2>2, <2>3 DEF IInv, ClaimExcludes, Callers
  <2>. QED BY <2>3, <2>4
<1>6. ActiveIsRun'
  BY <1>1 DEF IInv, TypeOK, ActiveIsRun, Runs, Begin, CommitInput, StreamEnds, StreamFails,
              ToolsEnd, CallerCancelled, Settle, StatusOf, InLoop
<1>7. InterruptKeepsStop'
  BY <1>1 DEF IInv, TypeOK, InterruptKeepsStop
<1>. QED BY <1>2, <1>3, <1>4, <1>5, <1>6, <1>7 DEF IInv

\* A caller takes the gate of an object it may be on.
LEMMA EnterPreserves ==
  ASSUME IInv, NEW c \in Callers, Send(c) \/ Notice(c) \/ RunAnswer(c)
  PROVE  IInv'
<1>. USE ConversationAssumption
<1>1. PICK o \in Objects : /\ Enter(c, o) /\ UNCHANGED <<held, claimed, asked, open, dbStatus, dbAsked>>
                           /\ \/ phase[c] = "out" /\ c \in Users /\ ~asked[o]
                              \/ phase[c] = "out" /\ c \in Notices
                              \/ phase[c] = "claimed" /\ on[c] = o
  BY OnObject DEF Send, Notice, RunAnswer, database, IInv, TypeOK
<1>2. /\ gate[o] = "idle" /\ gate'[o] = "running" /\ phase'[c] = "starting" /\ on'[c] = o
      /\ \A d \in Callers \ {c} : phase'[d] = phase[d] /\ on'[d] = on[d]
      /\ \A x \in Objects \ {o} : gate'[x] = gate[x] /\ stop'[x] = stop[x]
  BY <1>1 DEF Enter, MayEnter, IInv, TypeOK
<1>3. TypeOK'
  BY <1>1 DEF Enter, IInv, TypeOK, InLoop
<1>4. PlaceTellsObject'
  BY <1>2 DEF IInv, PlaceTellsObject
<1>5. \A d \in Callers : phase[d] \in InLoop => on[d] \in Objects \ {o}
  BY <1>2, OnObject DEF IInv, GateExcludes, InLoop
<1>6. GateExcludes'
  <2>1. \A d \in Callers : phase'[d] \in InLoop => gate'[on'[d]] # "idle"
    BY <1>2, <1>5 DEF IInv, GateExcludes
  <2>2. \A x \in Objects : gate'[x] # "idle" =>
          \E d \in Callers : phase'[d] \in InLoop /\ on'[d] = x
    <3>1. SUFFICES ASSUME NEW x \in Objects, gate'[x] # "idle"
                   PROVE  \E d \in Callers : phase'[d] \in InLoop /\ on'[d] = x
      OBVIOUS
    <3>2. CASE x = o
      BY <1>2, <3>2 DEF InLoop
    <3>3. CASE x # o
      <4>1. PICK d \in Callers : phase[d] \in InLoop /\ on[d] = x
        BY <1>2, <3>1, <3>3 DEF IInv, GateExcludes
      <4>2. d # c
        BY <1>1, <3>3, <4>1 DEF InLoop
      <4>. QED BY <1>2, <4>1, <4>2
    <3>. QED BY <3>2, <3>3
  <2>3. \A d, e \in Callers :
          phase'[d] \in InLoop /\ phase'[e] \in InLoop /\ on'[d] = on'[e] => d = e
    BY <1>2, <1>5 DEF IInv, GateExcludes
  <2>. QED BY <2>1, <2>2, <2>3 DEF GateExcludes
<1>7. ClaimExcludes'
  <2>1. \A d \in Answers : /\ d \in Callers
                           /\ phase'[d] # "out" => phase[d] # "out" /\ on'[d] = on[d]
    BY <1>1, <1>2 DEF Callers
  <2>. QED BY <1>1, <2>1 DEF IInv, ClaimExcludes
<1>8. ClaimKeepsUsersOut'
  <2>1. SUFFICES ASSUME NEW d \in Answers, phase'[d] = "claimed"
                 PROVE  asked'[on'[d]] /\ \A u \in Users : on'[u] # on'[d]
    BY DEF ClaimKeepsUsersOut
  <2>2. d # c /\ phase[d] = "claimed" /\ on'[d] = on[d] /\ d \in Callers
    BY <1>2, <2>1 DEF Callers
  <2>3. asked[on[d]] /\ \A u \in Users : on[u] # on[d]
    BY <2>2 DEF IInv, ClaimKeepsUsersOut
  <2>4. c \in Users => o # on[d]
    BY <1>1, <2>3 DEF IInv, PlaceTellsObject
  <2>. QED BY <1>1, <1>2, <2>2, <2>3, <2>4 DEF Callers
<1>9. ActiveIsRun'
  BY <1>1, <1>2 DEF IInv, ActiveIsRun, InLoop
<1>10. InterruptKeepsStop'
  BY <1>2 DEF IInv, InterruptKeepsStop
<1>. QED BY <1>3, <1>4, <1>6, <1>7, <1>8, <1>9, <1>10 DEF IInv

\* An answer claims the pending question.
LEMMA ClaimPreserves ==
  ASSUME IInv, NEW c \in Callers, Claim(c)
  PROVE  IInv'
<1>. USE ConversationAssumption
<1>1. /\ held \in Objects /\ c \in Answers /\ phase[c] = "out"
      /\ gate[held] = "idle" /\ ~claimed[held] /\ asked[held]
      /\ UNCHANGED <<held, gate, stop, asked, open, dbStatus, dbAsked>>
  BY DEF Claim, MayClaim, IInv, TypeOK, database
<1>2. /\ claimed'[held] /\ phase'[c] = "claimed" /\ on'[c] = held
      /\ \A d \in Callers \ {c} : phase'[d] = phase[d] /\ on'[d] = on[d]
      /\ \A x \in Objects \ {held} : claimed'[x] = claimed[x]
  BY <1>1 DEF Claim, IInv, TypeOK
<1>3. TypeOK'
  BY <1>1 DEF Claim, IInv, TypeOK
<1>4. \A d \in Callers : phase'[d] \in InLoop <=> phase[d] \in InLoop
  BY <1>1, <1>2 DEF InLoop
<1>5. \A d \in Callers : phase[d] \in InLoop => d # c /\ on[d] # held
  BY <1>1 DEF IInv, GateExcludes, InLoop
<1>6. PlaceTellsObject'
  BY <1>1, <1>2 DEF IInv, PlaceTellsObject
<1>7. GateExcludes'
  BY <1>1, <1>2, <1>4, <1>5 DEF IInv, GateExcludes
<1>8. ClaimExcludes'
  <2>1. \A d \in Answers : d \in Callers /\ (phase[d] # "out" => on[d] # held /\ on[d] \in Objects)
    BY <1>1, OnObject DEF IInv, ClaimExcludes, Callers
  <2>. QED BY <1>1, <1>2, <2>1 DEF IInv, ClaimExcludes
<1>9. ClaimKeepsUsersOut'
  <2>1. \A u \in Users : u \in Callers /\ u # c /\ on[u] # held
    BY <1>1, <1>5 DEF IInv, TypeOK, PlaceTellsObject, Callers
  <2>2. \A d \in Answers : d \in Callers
    BY DEF Callers
  <2>. QED BY <1>1, <1>2, <2>1, <2>2 DEF IInv, ClaimKeepsUsersOut
<1>10. ActiveIsRun' /\ InterruptKeepsStop'
  BY <1>1, <1>2, <1>4 DEF IInv, ActiveIsRun, InterruptKeepsStop, InLoop
<1>. QED BY <1>3, <1>6, <1>7, <1>8, <1>9, <1>10 DEF IInv

\* A claim is given up, or stays behind when its answer is raced.
LEMMA ClaimEndsPreserves ==
  ASSUME IInv, NEW c \in Callers, GiveUpClaim(c) \/ AnswerIsRaced(c)
  PROVE  IInv'
<1>. USE ConversationAssumption
<1>1. /\ on[c] \in Objects /\ c \in Answers /\ phase[c] = "claimed"
      /\ UNCHANGED <<held, gate, stop, asked, open, dbStatus, dbAsked>>
  BY OnObject DEF GiveUpClaim, AnswerIsRaced, objects, database, IInv, PlaceTellsObject
<1>2. /\ phase'[c] = "out" /\ on'[c] = NoObject
      /\ \A d \in Callers \ {c} : phase'[d] = phase[d] /\ on'[d] = on[d]
      /\ \A x \in Objects \ {on[c]} : claimed'[x] = claimed[x]
  BY <1>1 DEF GiveUpClaim, AnswerIsRaced, objects, IInv, TypeOK
<1>3. TypeOK'
  BY <1>1 DEF GiveUpClaim, AnswerIsRaced, objects, IInv, TypeOK
<1>4. PlaceTellsObject'
  BY <1>2 DEF IInv, PlaceTellsObject
<1>5. GateExcludes'
  BY <1>1, <1>2 DEF IInv, GateExcludes, InLoop
<1>6. ClaimExcludes'
  <2>1. \A d \in Answers \ {c} : /\ d \in Callers
                                 /\ phase[d] # "out" => on[d] # on[c] /\ on[d] \in Objects
    BY <1>1, OnObject DEF IInv, ClaimExcludes, Callers
  <2>. QED BY <1>2, <2>1 DEF IInv, ClaimExcludes
<1>7. ClaimKeepsUsersOut'
  BY <1>1, <1>2 DEF IInv, ClaimKeepsUsersOut, Callers
<1>8. ActiveIsRun' /\ InterruptKeepsStop'
  BY <1>1, <1>2 DEF IInv, ActiveIsRun, InterruptKeepsStop, InLoop
<1>. QED BY <1>3, <1>4, <1>5, <1>6, <1>7, <1>8 DEF IInv

\* A run leaves the gate.
LEMMA LeavePreserves ==
  ASSUME IInv, NEW c \in Callers, Leave(c)
  PROVE  IInv'
<1>. USE ConversationAssumption
<1>1. /\ on[c] \in Objects /\ phase[c] = "leaving"
      /\ UNCHANGED <<held, stop, asked, dbStatus, dbAsked>>
  BY OnObject DEF Leave, database
<1>2. /\ phase'[c] = "out" /\ on'[c] = NoObject /\ gate'[on[c]] = "idle"
      /\ \A d \in Callers \ {c} : phase'[d] = phase[d] /\ on'[d] = on[d]
      /\ \A x \in Objects \ {on[c]} : claimed'[x] = claimed[x] /\ gate'[x] = gate[x]
      /\ c \notin Answers => claimed' = claimed
  BY <1>1 DEF Leave, IInv, TypeOK
<1>3. TypeOK'
  BY <1>1 DEF Leave, IInv, TypeOK
<1>4. PlaceTellsObject'
  BY <1>2 DEF IInv, PlaceTellsObject
<1>5. \A d \in Callers \ {c} : phase[d] \in InLoop => on[d] \in Objects \ {on[c]}
  BY <1>1, OnObject DEF IInv, GateExcludes, InLoop
<1>6. GateExcludes'
  BY <1>1, <1>2, <1>5 DEF IInv, GateExcludes, InLoop
<1>7. ClaimExcludes'
  <2>1. \A d \in Answers \ {c} : /\ d \in Callers
                                 /\ phase[d] # "out" => on[d] \in Objects
                                 /\ phase[d] # "out" /\ c \in Answers => on[d] # on[c]
    BY <1>1, OnObject DEF IInv, ClaimExcludes, Callers
  <2>. QED BY <1>2, <2>1 DEF IInv, ClaimExcludes
<1>8. ClaimKeepsUsersOut'
  <2>1. \A d \in Answers \ {c} : d \in Callers /\ (phase[d] = "claimed" => on[d] \in Objects)
    BY OnObject DEF Callers
  <2>. QED BY <1>1, <1>2, <2>1 DEF IInv, ClaimKeepsUsersOut, Callers
<1>9. ActiveIsRun' /\ InterruptKeepsStop'
  BY <1>1, <1>2 DEF IInv, TypeOK, ActiveIsRun, InterruptKeepsStop
<1>. QED BY <1>3, <1>4, <1>6, <1>7, <1>8, <1>9 DEF IInv

\* The manager loads, discards and interrupts.
LEMMA LoadPreserves ==
  ASSUME IInv, NEW o \in Objects, Load(o)
  PROVE  IInv'
<1>1. \A c \in Callers : on[c] # o
  BY DEF Load, InUse
<1>2. \A c \in Callers : on[c] \in Objects =>
        /\ gate'[on[c]] = gate[on[c]] /\ stop'[on[c]] = stop[on[c]]
        /\ claimed'[on[c]] = claimed[on[c]] /\ asked'[on[c]] = asked[on[c]]
  BY <1>1 DEF Load, InUse, IInv, TypeOK
<1>3. \A x \in Objects : gate'[x] # "idle" =>
        /\ gate'[x] = gate[x] /\ stop'[x] = stop[x] /\ \E c \in Callers : on[c] = x
  BY DEF Load, InUse, IInv, TypeOK
<1>4. UNCHANGED <<phase, on, open, dbStatus, dbAsked>>
  BY DEF Load, callers, database
<1>5. TypeOK'
  BY <1>4 DEF Load, InUse, IInv, TypeOK
<1>6. \A c \in Callers : phase[c] # "out" => on[c] \in Objects
  BY OnObject
<1>7. PlaceTellsObject' /\ ActiveIsRun'
  BY <1>4 DEF IInv, PlaceTellsObject, ActiveIsRun
<1>8. GateExcludes'
  BY <1>2, <1>3, <1>4, <1>6 DEF IInv, GateExcludes, InLoop
<1>9. ClaimExcludes' /\ ClaimKeepsUsersOut'
  BY <1>2, <1>4, <1>6 DEF IInv, ClaimExcludes, ClaimKeepsUsersOut, Callers
<1>10. InterruptKeepsStop'
  BY <1>3 DEF IInv, InterruptKeepsStop
<1>. QED BY <1>5, <1>7, <1>8, <1>9, <1>10 DEF IInv

LEMMA ManagerPreserves ==
  ASSUME IInv, Discard \/ Interrupt
  PROVE  IInv'
<1>1. /\ UNCHANGED <<claimed, asked, dbStatus, dbAsked, phase, on, open>>
      /\ held \in Objects /\ held' \in Objects \cup {NoObject}
      /\ stop' = [stop EXCEPT ![held] = TRUE]
      /\ gate' = gate \/ (gate[held] # "idle" /\ gate' = [gate EXCEPT ![held] = "interrupting"])
  BY DEF Discard, Interrupt, database, callers, IInv, TypeOK
<1>2. TypeOK'
  BY <1>1 DEF IInv, TypeOK
<1>3. \A x \in Objects : gate'[x] = "idle" <=> gate[x] = "idle"
  BY <1>1 DEF IInv, TypeOK
<1>4. PlaceTellsObject' /\ ActiveIsRun' /\ ClaimExcludes' /\ ClaimKeepsUsersOut'
  BY <1>1 DEF IInv, PlaceTellsObject, ActiveIsRun, ClaimExcludes, ClaimKeepsUsersOut
<1>5. GateExcludes'
  <2>1. \A c \in Callers : phase[c] \in InLoop => on[c] \in Objects
    BY OnObject DEF InLoop
  <2>. QED BY <1>1, <1>3, <2>1 DEF IInv, GateExcludes
<1>6. InterruptKeepsStop'
  BY <1>1 DEF IInv, TypeOK, InterruptKeepsStop
<1>. QED BY <1>2, <1>4, <1>5, <1>6 DEF IInv

-----------------------------------------------------------------------------

\* Every step preserves the invariant.
LEMMA InvStep == IInv /\ [Next]_vars => IInv'
<1>. SUFFICES ASSUME IInv, [Next]_vars PROVE IInv'
  OBVIOUS
<1>1. CASE Next
  BY <1>1, RunPreserves, EnterPreserves, ClaimPreserves, ClaimEndsPreserves, LeavePreserves,
     LoadPreserves, ManagerPreserves DEF Next, Runs
<1>2. CASE UNCHANGED vars
  BY <1>2 DEF vars, objects, database, callers, IInv, TypeOK, PlaceTellsObject, GateExcludes,
              ClaimExcludes, ClaimKeepsUsersOut, ActiveIsRun, InterruptKeepsStop
<1>. QED BY <1>1, <1>2

\* The inductive invariant of Conversation (chat/loop.py).
THEOREM ConversationInvariant == Spec => []IInv
  BY InitInv, InvStep, PTL DEF Spec

\* The types hold for any objects and callers.
THEOREM ConversationTypes == Spec => []TypeOK
<1>1. IInv => TypeOK
  BY DEF IInv
<1>. QED BY <1>1, ConversationInvariant, PTL

\* The gate of an object is taken exactly while one caller is past it (_enter_run, _exit_run).
THEOREM OneRunPerObjectAlways == Spec => []OneRunPerObject
<1>1. IInv => OneRunPerObject
  <2>1. SUFFICES ASSUME IInv, NEW o \in Objects
                 PROVE  Cardinality({c \in Callers : phase[c] \in InLoop /\ on[c] = o})
                          = IF gate[o] = "idle" THEN 0 ELSE 1
    BY DEF OneRunPerObject
  <2>2. CASE gate[o] = "idle"
    <3>1. {c \in Callers : phase[c] \in InLoop /\ on[c] = o} = {}
      BY <2>1, <2>2 DEF IInv, GateExcludes
    <3>. QED BY <2>2, <3>1, FS_EmptySet
  <2>3. CASE gate[o] # "idle"
    <3>1. PICK c \in Callers : phase[c] \in InLoop /\ on[c] = o
      BY <2>1, <2>3 DEF IInv, GateExcludes
    <3>2. {d \in Callers : phase[d] \in InLoop /\ on[d] = o} = {c}
      BY <2>1, <3>1 DEF IInv, GateExcludes
    <3>. QED BY <2>3, <3>2, FS_Singleton
  <2>. QED BY <2>2, <2>3
<1>. QED BY <1>1, ConversationInvariant, PTL

\* An accepted interrupt stays set until its run leaves (Conversation.interrupt, _enter_run).
THEOREM InterruptKeepsStopAlways == Spec => []InterruptKeepsStop
<1>1. IInv => InterruptKeepsStop
  BY DEF IInv
<1>. QED BY <1>1, ConversationInvariant, PTL

\* An accepted answer is the only one, and its question still pends (claim_question_answer).
THEOREM ClaimedQuestionPendsAlways == Spec => []ClaimedQuestionPends
<1>1. IInv => ClaimedQuestionPends
  <2>1. SUFFICES ASSUME IInv, NEW c \in Answers, phase[c] = "claimed"
                 PROVE  /\ claimed[on[c]] /\ asked[on[c]]
                        /\ \A d \in Answers \ {c} : on[d] # on[c]
    BY DEF ClaimedQuestionPends
  <2>2. c \in Callers /\ on[c] \in Objects
    BY <2>1, OnObject DEF Callers
  <2>3. \A d \in Answers \ {c} : on[d] = on[c] => phase[d] # "out"
    BY <2>1, <2>2, ConversationAssumption DEF IInv, PlaceTellsObject, Callers
  <2>. QED BY <2>1, <2>3 DEF IInv, ClaimExcludes, ClaimKeepsUsersOut
<1>. QED BY <1>1, ConversationInvariant, PTL

\* A conversation nobody runs is not active in the database (_mark_status).
THEOREM IdleIsSettledAlways == Spec => []IdleIsSettled
<1>1. IInv => IdleIsSettled
  BY DEF IInv, ActiveIsRun, IdleIsSettled
<1>. QED BY <1>1, ConversationInvariant, PTL

-----------------------------------------------------------------------------
(* The run gate.                                                           *)

\* Whoever is past the gate of an object is there as a caller in the loop, and an object is
\* told to stop exactly while its event is set under a run.
LEMMA GateViews ==
  ASSUME IInv
  PROVE  /\ \A o \in Objects :
              Gated!Holders(o) = {c \in Callers : phase[c] \in InLoop /\ on[c] = o}
         /\ Told = {o \in Objects : /\ stop[o]
                                    /\ \E c \in Callers : phase[c] \in InLoop /\ on[c] = o}
         /\ \A c \in Callers : phase[c] \in InLoop => on[c] \in Objects
<1>1. \A c \in Callers : phase[c] \in InLoop => on[c] \in Objects
  BY OnObject DEF InLoop
<1>2. \A o \in Objects : Gated!Holders(o) = {c \in Callers : phase[c] \in InLoop /\ on[c] = o}
  BY ConversationAssumption DEF Gated!Holders, RunPlace
<1>3. Told = {o \in Objects : /\ stop[o]
                              /\ \E c \in Callers : phase[c] \in InLoop /\ on[c] = o}
  BY DEF Told, IInv, InterruptKeepsStop
<1>. QED BY <1>1, <1>2, <1>3

\* Steps that neither take nor leave a gate, nor set the event of a run, are no steps of it.
LEMMA GateStutter ==
  ASSUME IInv, IInv',
         \A c \in Callers : /\ phase'[c] \in InLoop <=> phase[c] \in InLoop
                            /\ phase[c] \in InLoop =>
                                 /\ on'[c] = on[c] /\ stop'[on[c]] = stop[on[c]]
                                 /\ Doing(phase'[c]) = Doing(phase[c])
  PROVE  UNCHANGED Gated!runGate
<1>1. RunPlace' = RunPlace
  BY DEF RunPlace
<1>2. RunDoing' = RunDoing
  <2>1. \A c \in Callers : Doing(phase'[c]) = Doing(phase[c])
    BY DEF Doing
  <2>. QED BY <2>1 DEF RunDoing
<1>3. Told' = Told
  <2>1. Told' = {o \in Objects : /\ stop'[o]
                                 /\ \E c \in Callers : phase'[c] \in InLoop /\ on'[c] = o}
    BY DEF Told, IInv, InterruptKeepsStop
  <2>2. Told = {o \in Objects : /\ stop[o]
                                /\ \E c \in Callers : phase[c] \in InLoop /\ on[c] = o}
    BY GateViews
  <2>3. \A o \in Objects :
          (stop'[o] /\ \E c \in Callers : phase'[c] \in InLoop /\ on'[c] = o)
            <=> (stop[o] /\ \E c \in Callers : phase[c] \in InLoop /\ on[c] = o)
    OBVIOUS
  <2>. QED BY <2>1, <2>2, <2>3
<1>. QED BY <1>1, <1>2, <1>3 DEF Gated!runGate

\* A step of a run moves its own caller only: it keeps the gate and what it was told.
LEMMA RunKeepsGate ==
  ASSUME IInv, IInv', NEW c \in Callers, Runs(c)
  PROVE  /\ RunPlace' = RunPlace /\ Told' = Told
         /\ RunDoing' = [RunDoing EXCEPT ![c] = Doing(phase'[c])]
         /\ RunDoing[c] = Doing(phase[c]) /\ RunPlace[c] = on[c]
         /\ on[c] \in Told <=> stop[on[c]]
<1>1. /\ UNCHANGED <<stop, on>> /\ on[c] \in Objects
      /\ phase[c] \in InLoop /\ phase'[c] \in InLoop
      /\ \A d \in Callers \ {c} : phase'[d] = phase[d]
  BY RunStep
<1>2. RunPlace' = RunPlace
  BY <1>1 DEF RunPlace
<1>3. RunDoing' = [RunDoing EXCEPT ![c] = Doing(phase'[c])]
  BY <1>1 DEF RunDoing
<1>4. Told' = Told
  <2>1. Told' = {o \in Objects : /\ stop'[o]
                                 /\ \E d \in Callers : phase'[d] \in InLoop /\ on'[d] = o}
    BY DEF Told, IInv, InterruptKeepsStop
  <2>2. Told = {o \in Objects : /\ stop[o]
                                /\ \E d \in Callers : phase[d] \in InLoop /\ on[d] = o}
    BY GateViews
  <2>3. \A d \in Callers : phase'[d] \in InLoop <=> phase[d] \in InLoop
    BY <1>1
  <2>. QED BY <1>1, <2>1, <2>2, <2>3
<1>5. on[c] \in Told <=> stop[on[c]]
  BY <1>1, GateViews
<1>. QED BY <1>1, <1>2, <1>3, <1>4, <1>5 DEF RunDoing, RunPlace

\* Each step of a run is the step of a runner past the gate: it begins a stream only when
\* it was not told to stop.
LEMMA RunIsGated ==
  ASSUME IInv, IInv', NEW c \in Callers, Runs(c)
  PROVE  Gated!GateNext \/ UNCHANGED Gated!runGate
<1>1. /\ RunPlace' = RunPlace /\ Told' = Told
      /\ RunDoing' = [RunDoing EXCEPT ![c] = Doing(phase'[c])]
      /\ RunDoing[c] = Doing(phase[c]) /\ RunPlace[c] = on[c]
      /\ on[c] \in Told <=> stop[on[c]]
  BY RunKeepsGate
<1>2. /\ UNCHANGED <<stop, on>> /\ \A d \in Callers \ {c} : phase'[d] = phase[d]
      /\ phase \in [Callers -> InLoop \cup {"out", "claimed"}]
  BY RunStep DEF IInv, TypeOK
<1>3. ASSUME Doing(phase'[c]) = Doing(phase[c]), phase[c] \in InLoop, phase'[c] \in InLoop
      PROVE  UNCHANGED Gated!runGate
  BY <1>2, <1>3, GateStutter
<1>4. ASSUME Doing(phase[c]) = "working", Doing(phase'[c]) = "streaming", ~stop[on[c]]
      PROVE  Gated!GateNext
  BY <1>1, <1>4 DEF Gated!GateNext, Gated!Streams
<1>5. ASSUME Doing(phase[c]) = "working", Doing(phase'[c]) = "ending"
      PROVE  Gated!GateNext
  BY <1>1, <1>5 DEF Gated!GateNext, Gated!Ends
<1>6. ASSUME Doing(phase[c]) = "streaming", Doing(phase'[c]) \in {"working", "ending"}
      PROVE  Gated!GateNext
  BY <1>1, <1>6 DEF Gated!GateNext, Gated!StreamIsOver
<1>7. CASE Begin(c)
  <2>1. phase[c] = "starting" /\ phase'[c] = "committing"
    BY <1>2, <1>7 DEF Begin
  <2>. QED BY <2>1, <1>3 DEF Doing, InLoop
<1>8. CASE CommitInput(c)
  <2>1. phase[c] = "committing" /\ phase'[c] = IF stop[on[c]] THEN "cut" ELSE "streaming"
    BY <1>2, <1>8 DEF CommitInput
  <2>. QED BY <2>1, <1>4, <1>5 DEF Doing, InLoop
<1>9. CASE StreamEnds(c)
  <2>1. /\ phase[c] = "streaming"
        /\ phase'[c] \in {"stopped", "cut", "tools", "pausing", "blocked"}
    BY <1>2, <1>9 DEF StreamEnds
  <2>. QED BY <2>1, <1>6 DEF Doing, InLoop
<1>10. CASE StreamFails(c)
  <2>1. phase[c] \in {"committing", "streaming"} /\ phase'[c] = "failed"
    BY <1>2, <1>10 DEF StreamFails
  <2>. QED BY <2>1, <1>5, <1>6 DEF Doing, InLoop
<1>11. CASE ToolsEnd(c)
  <2>1. phase[c] = "tools" /\ phase'[c] = IF stop[on[c]] THEN "cut" ELSE "streaming"
    BY <1>2, <1>11 DEF ToolsEnd, AfterTools
  <2>. QED BY <2>1, <1>4, <1>5 DEF Doing, InLoop
<1>12. CASE CallerCancelled(c)
  <2>1. phase[c] \in {"committing", "streaming", "tools"} /\ phase'[c] = "cut"
    BY <1>2, <1>12 DEF CallerCancelled, CancelledPhase
  <2>. QED BY <2>1, <1>5, <1>6 DEF Doing, InLoop
<1>13. CASE Settle(c)
  <2>1. /\ phase[c] \in {"stopped", "cut", "pausing", "blocked", "failed"}
        /\ phase'[c] = "leaving"
    BY <1>2, <1>13 DEF Settle
  <2>. QED BY <2>1, <1>3 DEF Doing, InLoop
<1>. QED BY <1>7, <1>8, <1>9, <1>10, <1>11, <1>12, <1>13 DEF Runs

\* _enter_run takes a gate nobody is past, and clears no word that was meant for a run.
LEMMA EnterTakes ==
  ASSUME IInv, IInv', NEW c \in Callers, NEW o \in Objects, Enter(c, o),
         phase[c] \in {"out", "claimed"}
  PROVE  Gated!GateNext
<1>1. /\ gate[o] = "idle" /\ phase'[c] = "starting" /\ on'[c] = o /\ ~stop'[o]
      /\ \A d \in Callers \ {c} : phase'[d] = phase[d] /\ on'[d] = on[d]
      /\ \A x \in Objects \ {o} : stop'[x] = stop[x]
  BY DEF Enter, MayEnter, IInv, TypeOK
<1>2. \A d \in Callers : phase[d] \in InLoop => on[d] # o
  BY <1>1 DEF IInv, GateExcludes
<1>3. Gated!Holders(o) = {}
  BY <1>2, GateViews
<1>4. RunPlace[c] = NoObject /\ RunPlace' = [RunPlace EXCEPT ![c] = o]
  BY <1>1 DEF RunPlace, InLoop
<1>5. RunDoing' = [RunDoing EXCEPT ![c] = "working"]
  <2>1. Doing(phase'[c]) = "working"
    BY <1>1 DEF Doing, InLoop
  <2>. QED BY <1>1, <2>1 DEF RunDoing
<1>6. Told' = Told
  <2>1. Told' = {x \in Objects : /\ stop'[x]
                                 /\ \E d \in Callers : phase'[d] \in InLoop /\ on'[d] = x}
    BY DEF Told, IInv, InterruptKeepsStop
  <2>2. Told = {x \in Objects : /\ stop[x]
                                /\ \E d \in Callers : phase[d] \in InLoop /\ on[d] = x}
    BY GateViews
  <2>3. phase[c] \notin InLoop
    BY DEF InLoop
  <2>4. \A x \in Objects \ {o} :
          (\E d \in Callers : phase'[d] \in InLoop /\ on'[d] = x)
            <=> \E d \in Callers : phase[d] \in InLoop /\ on[d] = x
    BY <1>1, <2>3
  <2>5. o \notin Told /\ o \notin Told'
    BY <1>1, <1>2, <2>1, <2>2
  <2>. QED BY <1>1, <2>1, <2>2, <2>4, <2>5
<1>7. Gated!Takes(c, o)
  BY <1>3, <1>4, <1>5, <1>6 DEF Gated!Takes
<1>. QED BY <1>7 DEF Gated!GateNext

\* _exit_run gives the gate back, and with it the word its run was told.
LEMMA LeaveLeaves ==
  ASSUME IInv, IInv', NEW c \in Callers, Leave(c)
  PROVE  Gated!GateNext
<1>1. /\ phase[c] = "leaving" /\ on[c] \in Objects /\ stop' = stop
      /\ phase'[c] = "out" /\ on'[c] = NoObject
      /\ \A d \in Callers \ {c} : phase'[d] = phase[d] /\ on'[d] = on[d]
  BY OnObject DEF Leave, IInv, TypeOK
<1>2. \A d \in Callers \ {c} : phase[d] \in InLoop => on[d] # on[c]
  BY <1>1 DEF IInv, GateExcludes, InLoop
<1>3. RunPlace[c] = on[c] /\ RunPlace' = [RunPlace EXCEPT ![c] = NoObject]
  BY <1>1 DEF RunPlace, InLoop
<1>4. RunDoing[c] = "ending" /\ RunDoing' = [RunDoing EXCEPT ![c] = "out"]
  <2>1. Doing(phase[c]) = "ending" /\ Doing(phase'[c]) = "out"
    BY <1>1 DEF Doing, InLoop
  <2>. QED BY <1>1, <2>1 DEF RunDoing
<1>5. Told' = Told \ {on[c]}
  <2>1. Told' = {x \in Objects : /\ stop'[x]
                                 /\ \E d \in Callers : phase'[d] \in InLoop /\ on'[d] = x}
    BY DEF Told, IInv, InterruptKeepsStop
  <2>2. Told = {x \in Objects : /\ stop[x]
                                /\ \E d \in Callers : phase[d] \in InLoop /\ on[d] = x}
    BY GateViews
  <2>3. phase'[c] \notin InLoop
    BY <1>1 DEF InLoop
  <2>4. \A x \in Objects \ {on[c]} :
          (\E d \in Callers : phase'[d] \in InLoop /\ on'[d] = x)
            <=> \E d \in Callers : phase[d] \in InLoop /\ on[d] = x
    BY <1>1, <2>3
  <2>5. on[c] \notin Told'
    BY <1>1, <1>2, <2>1, <2>3
  <2>. QED BY <1>1, <2>1, <2>2, <2>4, <2>5
<1>6. Gated!Leaves(c)
  BY <1>3, <1>4, <1>5 DEF Gated!Leaves
<1>. QED BY <1>6 DEF Gated!GateNext

\* An interrupt, and a close, tell the run of the object the manager holds, if there is one.
LEMMA StopIsTold ==
  ASSUME IInv, IInv', Discard \/ Interrupt
  PROVE  Gated!GateNext \/ UNCHANGED Gated!runGate
<1>1. /\ UNCHANGED <<phase, on>> /\ held \in Objects
      /\ stop' = [stop EXCEPT ![held] = TRUE]
  BY DEF Discard, Interrupt, callers, IInv, TypeOK
<1>2. stop'[held] /\ \A x \in Objects \ {held} : stop'[x] = stop[x]
  BY <1>1 DEF IInv, TypeOK
<1>3. RunPlace' = RunPlace /\ RunDoing' = RunDoing
  BY <1>1 DEF RunPlace, RunDoing
<1>4. CASE \E c \in Callers : phase[c] \in InLoop /\ on[c] = held
  <2>1. Told' = {x \in Objects : /\ stop'[x]
                                 /\ \E d \in Callers : phase'[d] \in InLoop /\ on'[d] = x}
    BY DEF Told, IInv, InterruptKeepsStop
  <2>2. Told = {x \in Objects : /\ stop[x]
                                /\ \E d \in Callers : phase[d] \in InLoop /\ on[d] = x}
    BY GateViews
  <2>3. Told' = Told \cup {held}
    BY <1>1, <1>2, <1>4, <2>1, <2>2
  <2>4. Gated!Holders(held) # {}
    BY <1>1, <1>4, GateViews
  <2>5. Gated!IsTold(held)
    BY <1>3, <2>3, <2>4 DEF Gated!IsTold
  <2>. QED BY <1>1, <2>5 DEF Gated!GateNext
<1>5. CASE ~\E c \in Callers : phase[c] \in InLoop /\ on[c] = held
  <2>1. \A c \in Callers : phase[c] \in InLoop => stop'[on[c]] = stop[on[c]]
    BY <1>2, <1>5, GateViews
  <2>. QED BY <1>1, <2>1, GateStutter
<1>. QED BY <1>4, <1>5

\* Every step of Conversation maps to a step of the run gate or to a stutter.
LEMMA GateStep == IInv /\ IInv' /\ [Next]_vars => [Gated!GateNext]_(Gated!runGate)
<1>. SUFFICES ASSUME IInv, IInv', [Next]_vars
              PROVE  Gated!GateNext \/ UNCHANGED Gated!runGate
  OBVIOUS
<1>1. ASSUME NEW o \in Objects, Load(o) PROVE UNCHANGED Gated!runGate
  <2>1. UNCHANGED <<phase, on>>
    BY <1>1 DEF Load, callers
  <2>2. \A c \in Callers : phase[c] \in InLoop => stop'[on[c]] = stop[on[c]]
    BY <1>1, GateViews DEF Load, InUse, IInv, TypeOK
  <2>. QED BY <2>1, <2>2, GateStutter
<1>2. ASSUME NEW c \in Callers, Claim(c) \/ GiveUpClaim(c) \/ AnswerIsRaced(c)
      PROVE  UNCHANGED Gated!runGate
  <2>1. /\ stop' = stop /\ phase[c] \in {"out", "claimed"} /\ phase'[c] \in {"out", "claimed"}
        /\ \A d \in Callers \ {c} : phase'[d] = phase[d] /\ on'[d] = on[d]
    BY <1>2 DEF Claim, GiveUpClaim, AnswerIsRaced, objects, IInv, TypeOK
  <2>2. phase[c] \notin InLoop /\ phase'[c] \notin InLoop
    BY <2>1 DEF InLoop
  <2>. QED BY <2>1, <2>2, GateStutter
<1>3. ASSUME NEW c \in Callers, Send(c) \/ Notice(c) \/ RunAnswer(c) PROVE Gated!GateNext
  <2>1. PICK o \in Objects : Enter(c, o) /\ phase[c] \in {"out", "claimed"}
    BY <1>3, OnObject DEF Send, Notice, RunAnswer, IInv, TypeOK
  <2>. QED BY <2>1, EnterTakes
<1>4. CASE UNCHANGED vars
  BY <1>4, GateStutter DEF vars, objects, callers
<1>. QED
  BY <1>1, <1>2, <1>3, <1>4, RunIsGated, LeaveLeaves, StopIsTold DEF Next, Runs

\* The runs of a conversation implement a run gate, for any objects and callers (_enter_run,
\* Conversation.interrupt, _exit_run): a run that was told to stop begins no further stream.
THEOREM RunsAreGatedAlways == Spec => RunsAreGated
<1>1. Init => Gated!GateInit
  <2>. SUFFICES ASSUME Init PROVE Gated!GateInit
    OBVIOUS
  <2>1. \A c \in Callers : phase[c] \notin InLoop
    BY DEF Init, InLoop
  <2>. QED BY <2>1 DEF Gated!GateInit, RunPlace, RunDoing, Doing, Told
<1>. QED BY <1>1, ConversationInvariant, GateStep, PTL DEF Spec, RunsAreGated, Gated!GateSpec
=============================================================================
