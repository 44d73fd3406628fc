---------------------------- MODULE MessagesProofs ----------------------------
(***************************************************************************)
(* Proofs about the way of a message: from a platform to the Conversation  *)
(* that answers it and its outbox (Turns), from a Conversation to the web  *)
(* client that shows it (Feed), from the history of a Conversation to the  *)
(* request its provider gets (Dialogue), and from whoever emits an event   *)
(* to its listeners (EventBus).  The four share no state; every result is  *)
(* about the specification of one of them.                                 *)
(***************************************************************************)
EXTENDS Turns, Feed, Dialogue, EventBus, SequenceTheorems, FiniteSetTheorems, NaturalsInduction,
        WellFoundedInduction, TLAPS

-----------------------------------------------------------------------------
(* Turns                                                                   *)

\* A target is asked while the turn is open, and nothing is asked between the turns.
TurnIsPlaced ==
  /\ turn \in {"responses", "chat"} => attempt \in DOMAIN route
  /\ turn = "routing" => attempt # 0
  /\ turn \in {"idle", "tools", "record", "lastRecord"} => asked = NothingAsked

\* What an attempt says is its own, and an attempt begins in silence.
VoiceIsOwn ==
  /\ turn = "routing" => living = {}
  /\ turn \in {"responses", "chat"} => living \subseteq {<<attempt, turn>>}
  /\ OneVoice

\* A response state knows the stored response it goes on from: its target, and the inputs it
\* stands for, which are those of the history up to the cursor.
Covers(c) ==
  /\ c.cursor <= Len(messages)
  /\ c.response # 0 =>
       /\ standsFor[c.response].target = c.target
       /\ standsFor[c.response].inputs = {i \in Inputs : i <= c.cursor}

TurnsInv ==
  /\ TurnsTypeOK /\ TurnIsPlaced /\ VoiceIsOwn
  /\ Covers(chain) /\ Covers(chainRow) /\ ChainCoversInputs

-----------------------------------------------------------------------------

\* The target of an attempt is one of the route's, and no attempt has NoTarget.
LEMMA RouteTargets ==
  ASSUME TurnsTypeOK
  PROVE  /\ route \in Seq(Targets) /\ Len(route) \in Nat /\ DOMAIN route = 1..Len(route)
         /\ route # <<>> /\ 1 \in DOMAIN route
         /\ \A i \in DOMAIN route : route[i] \in Targets /\ route[i] # NoTarget
  <1>1. route \in Seq(Targets) /\ route # <<>> /\ NoTarget \notin Targets
    BY TurnsAssumption DEF TurnsTypeOK
  <1> QED
    BY <1>1, LenProperties, EmptySeq

\* The messages of the history.
LEMMA History ==
  ASSUME TurnsTypeOK
  PROVE  /\ Len(messages) \in Nat /\ DOMAIN messages = 1..Len(messages)
         /\ Inputs \subseteq 1..MaxMessages /\ \A i \in Inputs : i \in Nat /\ i <= Len(messages)
         /\ Len(standsFor) \in Nat /\ DOMAIN standsFor = 1..Len(standsFor)
         /\ MaxMessages \in Nat
  BY TurnsAssumption DEF TurnsTypeOK, Inputs

\* Response states stay response states while stored responses are added.
LEMMA ChainTypeGrows ==
  ASSUME Len(standsFor) \in Nat, Len(standsFor') \in Nat, Len(standsFor) <= Len(standsFor'),
         NEW c \in ChainType
  PROVE  c \in ChainType'
  BY DEF ChainType

\* A cleared response state, and one compacted by a target.
LEMMA ClearedType ==
  ASSUME TurnsTypeOK
  PROVE  /\ Cleared \in ChainType /\ Covers(Cleared)
         /\ \A t \in Targets : CompactedBy(t) \in ChainType /\ Covers(CompactedBy(t))
  <1>1. 0 \in 0..Len(standsFor) /\ 0 \in 0..MaxMessages /\ 0 <= Len(messages)
    BY History
  <1> QED
    BY <1>1 DEF Cleared, CompactedBy, ChainType, Covers

\* A message more: the inputs up to a cursor are what they were.
LEMMA HistoryGrows ==
  ASSUME TurnsTypeOK, NEW kind \in {"in", "out"}, messages' = Append(messages, kind),
         Len(messages) < MaxMessages
  PROVE  /\ messages' \in Seq({"in", "out"}) /\ Len(messages') = Len(messages) + 1
         /\ Len(messages') <= MaxMessages
         /\ \A n \in Nat : n <= Len(messages) => {i \in Inputs' : i <= n} = {i \in Inputs : i <= n}
         /\ kind = "out" => Inputs' = Inputs
  <1>1. /\ messages' \in Seq({"in", "out"}) /\ Len(messages') = Len(messages) + 1
        /\ \A i \in 1..Len(messages) : messages'[i] = messages[i]
        /\ messages'[Len(messages) + 1] = kind
    BY DEF TurnsTypeOK
  <1>2. /\ DOMAIN messages' = 1..(Len(messages) + 1) /\ DOMAIN messages = 1..Len(messages)
        /\ Len(messages) \in Nat
    BY <1>1, History DEF TurnsTypeOK
  <1>3. Len(messages') <= MaxMessages
    BY <1>1, <1>2, TurnsAssumption
  <1>4. ASSUME NEW n \in Nat, n <= Len(messages)
        PROVE  {i \in Inputs' : i <= n} = {i \in Inputs : i <= n}
    BY <1>1, <1>2, <1>4 DEF Inputs
  <1>5. ASSUME kind = "out" PROVE Inputs' = Inputs
    BY <1>1, <1>2, <1>5 DEF Inputs
  <1> QED
    BY <1>1, <1>3, <1>4, <1>5

\* What a response state covers it covers as the history grows.
LEMMA CoversGrowing ==
  ASSUME TurnsTypeOK, NEW kind \in {"in", "out"}, messages' = Append(messages, kind),
         Len(messages) < MaxMessages, standsFor' = standsFor, NEW c \in ChainType, Covers(c)
  PROVE  /\ c.cursor <= Len(messages')
         /\ c.response # 0 =>
              /\ standsFor'[c.response].target = c.target
              /\ standsFor'[c.response].inputs = {i \in Inputs' : i <= c.cursor}
  <1>1. c.cursor \in Nat
    BY History DEF ChainType
  <1>2. {i \in Inputs' : i <= c.cursor} = {i \in Inputs : i <= c.cursor}
    BY <1>1, HistoryGrows DEF Covers
  <1>3. c.cursor <= Len(messages')
    BY <1>1, HistoryGrows, History DEF Covers
  <1> QED
    BY <1>2, <1>3 DEF Covers

\* A chain that may be used here covers the inputs, and is this target's.
LEMMA UsableCovers ==
  ASSUME TurnsInv
  PROVE  /\ UsableChain \in ChainType /\ Covers(UsableChain)
         /\ UsableChain.response # 0 /\ attempt \in DOMAIN route =>
              standsFor[UsableChain.response].target = Target
  <1>1. CASE chain.target \in {NoTarget, Target}
    <2>1. UsableChain = chain
      BY <1>1 DEF UsableChain
    <2>2. ASSUME chain.response # 0, attempt \in DOMAIN route
          PROVE  standsFor[chain.response].target = Target
      <3>1. chain.response \in 1..Len(standsFor)
        BY <2>2, History DEF TurnsInv, TurnsTypeOK, ChainType
      <3>2. standsFor[chain.response].target \in Targets
        <4>1. /\ standsFor \in Seq([target : Targets, inputs : SUBSET (1..MaxMessages)])
              /\ chain.response \in 1..Len(standsFor)
          BY <3>1 DEF TurnsInv, TurnsTypeOK
        <4>2. standsFor[chain.response] \in [target : Targets, inputs : SUBSET (1..MaxMessages)]
          BY <4>1, ElementOfSeq
        <4> QED
          BY <4>2
      <3>3. standsFor[chain.response].target = chain.target
        BY <2>2 DEF TurnsInv, Covers
      <3> QED
        BY <1>1, <3>2, <3>3, TurnsAssumption
    <2> QED
      BY <2>1, <2>2 DEF TurnsInv, TurnsTypeOK
  <1>2. CASE chain.target \notin {NoTarget, Target}
    <2>1. UsableChain = Cleared /\ Cleared.response = 0
      BY <1>2 DEF UsableChain, Cleared
    <2> QED
      BY <2>1, ClearedType DEF TurnsInv
  <1> QED
    BY <1>1, <1>2

\* A set with one possible member has one at most.
LEMMA AtMostOne == ASSUME NEW S, NEW v, S \subseteq {v} PROVE Cardinality(S) <= 1
  <1>1. S = {} \/ S = {v}
    OBVIOUS
  <1>2. Cardinality(S) \in {0, 1}
    BY <1>1, FS_EmptySet, FS_Singleton
  <1> QED
    BY <1>2

\* The initial states satisfy the invariant.
LEMMA TurnsInitInv == TurnsInit => TurnsInv
  <1> SUFFICES ASSUME TurnsInit PROVE TurnsInv
    OBVIOUS
  <1>1. /\ Len(messages) = 0 /\ Len(standsFor) = 0 /\ MaxMessages \in Nat
        /\ messages \in Seq({"in", "out"})
        /\ standsFor \in Seq([target : Targets, inputs : SUBSET (1..MaxMessages)])
    BY TurnsAssumption, EmptySeq DEF TurnsInit
  <1>2. chain \in ChainType /\ chainRow \in ChainType
    BY <1>1 DEF TurnsInit, ChainType, Cleared
  <1>3. route \in Routes /\ Len(route) \in Nat
    BY TurnsAssumption, LenProperties DEF TurnsInit
  <1>4. asked \in [previous : 0..Len(standsFor), inputs : SUBSET (1..MaxMessages)]
    BY <1>1 DEF TurnsInit, NothingAsked
  <1>5. TurnsTypeOK
    BY <1>1, <1>2, <1>3, <1>4 DEF TurnsInit, TurnsTypeOK
  <1>6. TurnIsPlaced /\ VoiceIsOwn /\ ChainCoversInputs
    BY DEF TurnsInit, TurnIsPlaced, VoiceIsOwn, OneVoice, ChainCoversInputs
  <1>7. Covers(chain) /\ Covers(chainRow)
    BY <1>1 DEF TurnsInit, Covers, Cleared
  <1> QED
    BY <1>5, <1>6, <1>7 DEF TurnsInv

\* A step that leaves the history, the response states and the stored responses alone.
LEMMA QuietTurn ==
  ASSUME TurnsInv, messages' = messages, standsFor' = standsFor, chain' = chain,
         chainRow' = chainRow
  PROVE  Covers(chain)' /\ Covers(chainRow)' /\ chain' \in ChainType' /\ chainRow' \in ChainType'
         /\ (asked' = asked /\ attempt' = attempt /\ route' = route /\ turn = "responses" => ChainCoversInputs')
  BY DEF TurnsInv, TurnsTypeOK, Covers, Inputs, ChainType, ChainCoversInputs, Behind, Target

\* Every step keeps the types.
LEMMA TurnsTypeStep == TurnsInv /\ [TurnsNext]_turnsVars => TurnsTypeOK'
  <1> SUFFICES ASSUME TurnsInv, TurnsTypeOK, [TurnsNext]_turnsVars PROVE TurnsTypeOK'
    BY DEF TurnsInv
  <1> USE TurnsAssumption DEF NothingAsked, CommitMessage, NextTarget, RunFails
  <1>1. CASE TurnStarts
    <2>1. chain' \in ChainType' /\ chainRow' \in ChainType'
      BY <1>1 DEF TurnStarts, TurnsTypeOK, ChainType
    <2>2. messages' \in Seq({"in", "out"}) /\ Len(messages') <= MaxMessages
      BY <1>1, HistoryGrows DEF TurnStarts
    <2> QED
      BY <1>1, <2>1, <2>2, RouteTargets DEF TurnStarts, TurnsTypeOK
  <1>2. CASE TurnStops
    <2>1. chain' \in ChainType' /\ chainRow' \in ChainType'
      BY <1>2, QuietTurn DEF TurnStops
    <2> QED
      BY <1>2, <2>1, History, RouteTargets DEF TurnStops, TurnsTypeOK
  <1>3. CASE TargetIsMissing
    <2>1. chain' \in ChainType' /\ chainRow' \in ChainType'
      BY <1>3, QuietTurn DEF TargetIsMissing
    <2>2. attempt \in 1..Len(route) /\ Len(route) \in Nat
      BY <1>3, RouteTargets DEF TargetIsMissing
    <2> QED
      BY <1>3, <2>1, <2>2, History DEF TargetIsMissing, TurnsTypeOK
  <1>4. CASE NoTargetLeft
    <2>1. chain' \in ChainType' /\ chainRow' \in ChainType'
      BY <1>4, QuietTurn DEF NoTargetLeft
    <2> QED
      BY <1>4, <2>1, History, RouteTargets DEF NoTargetLeft, TurnsTypeOK
  <1>5. CASE AskResponses
    <2>1. chain' \in ChainType' /\ chainRow' \in ChainType'
      BY <1>5, UsableCovers DEF AskResponses, TurnsTypeOK, ChainType
    <2>2. chain'.response \in 0..Len(standsFor)
      BY <1>5, UsableCovers DEF AskResponses, ChainType
    <2>3. asked' \in [previous : 0..Len(standsFor), inputs : SUBSET (1..MaxMessages)]
      BY <1>5, <2>2, History DEF AskResponses
    <2> QED
      BY <1>5, <2>1, <2>3 DEF AskResponses, TurnsTypeOK
  <1>6. CASE StopIsSeen
    <2>1. chain' \in ChainType' /\ chainRow' \in ChainType'
      BY <1>6, QuietTurn DEF StopIsSeen
    <2> QED
      BY <1>6, <2>1, History, RouteTargets DEF StopIsSeen, TurnsTypeOK
  <1>7. CASE Speaks
    <2>1. chain' \in ChainType' /\ chainRow' \in ChainType'
      BY <1>7, QuietTurn DEF Speaks
    <2>2. <<attempt, turn>> \in (1..Len(route)) \X {"responses", "chat"}
      BY <1>7, RouteTargets DEF Speaks, TurnsInv, TurnIsPlaced
    <2> QED
      BY <1>7, <2>1, <2>2 DEF Speaks, TurnsTypeOK
  <1>8. CASE ResponseCompletes
    <2>1. CASE UNCHANGED <<chain, standsFor>>
      BY <1>8, <2>1, QuietTurn DEF ResponseCompletes, TurnsTypeOK
    <2>2. CASE ~UNCHANGED <<chain, standsFor>>
      <3>1. Behind \cup asked.inputs = Inputs
        BY <1>8 DEF ResponseCompletes, TurnsInv, ChainCoversInputs
      <3>2. Target \in Targets
        BY <1>8, RouteTargets DEF ResponseCompletes, TurnsInv, TurnIsPlaced, Target
      <3>3. /\ standsFor' = Append(standsFor, [target |-> Target, inputs |-> Inputs])
            /\ chain' = [chain EXCEPT !.target = Target, !.response = Len(standsFor) + 1,
                                      !.cursor = Len(messages)]
        BY <1>8, <2>2, <3>1 DEF ResponseCompletes
      <3>4. [target |-> Target, inputs |-> Inputs] \in [target : Targets, inputs : SUBSET (1..MaxMessages)]
        BY <3>2, History
      <3>5. /\ standsFor' \in Seq([target : Targets, inputs : SUBSET (1..MaxMessages)])
            /\ Len(standsFor') = Len(standsFor) + 1
        BY <3>3, <3>4 DEF TurnsTypeOK
      <3>6. chain' \in ChainType'
        <4>1. Len(standsFor) + 1 \in 0..Len(standsFor') /\ Len(messages) \in 0..MaxMessages
          BY <3>5, History DEF TurnsTypeOK
        <4> QED
          BY <3>2, <3>3, <4>1 DEF TurnsTypeOK, ChainType
      <3>7. chainRow' \in ChainType'
        BY <1>8, <3>5, History, ChainTypeGrows DEF ResponseCompletes, TurnsTypeOK
      <3>8. asked' \in [previous : 0..Len(standsFor'), inputs : SUBSET (1..MaxMessages)]
        BY <1>8, <3>5, History DEF ResponseCompletes, TurnsTypeOK
      <3> QED
        BY <1>8, <3>5, <3>6, <3>7, <3>8 DEF ResponseCompletes, TurnsTypeOK
    <2> QED
      BY <2>1, <2>2
  <1>9. CASE ResponsesFail
    <2>1. chain' \in ChainType' /\ chainRow' \in ChainType'
      BY <1>9, ClearedType DEF ResponsesFail, TurnsTypeOK, ChainType
    <2> QED
      BY <1>9, <2>1, History DEF ResponsesFail, TurnsTypeOK
  <1>10. CASE ChatCompletes
    <2>1. chain' \in ChainType' /\ chainRow' \in ChainType'
      BY <1>10, QuietTurn DEF ChatCompletes
    <2> QED
      BY <1>10, <2>1, History, RouteTargets DEF ChatCompletes, TurnsTypeOK
  <1>11. CASE ChatFails
    <2>1. chain' \in ChainType' /\ chainRow' \in ChainType'
      BY <1>11, QuietTurn DEF ChatFails
    <2>2. attempt \in 1..Len(route) /\ Len(route) \in Nat
      BY <1>11, RouteTargets DEF ChatFails, TurnsInv, TurnIsPlaced
    <2> QED
      BY <1>11, <2>1, <2>2, History DEF ChatFails, TurnsTypeOK
  <1>12. CASE Merge
    <2>1. chain' \in ChainType' /\ chainRow' \in ChainType'
      BY <1>12 DEF Merge, TurnsTypeOK, ChainType
    <2>2. messages' \in Seq({"in", "out"}) /\ Len(messages') <= MaxMessages
      BY <1>12, HistoryGrows DEF Merge, TurnsTypeOK
    <2>3. living' = {}
      BY <1>12 DEF Merge
    <2> QED
      BY <1>12, <2>1, <2>2, <2>3, History, RouteTargets DEF Merge, TurnsTypeOK
  <1>13. CASE RecordUsage
    <2>1. chain' \in ChainType' /\ chainRow' \in ChainType'
      BY <1>13 DEF RecordUsage, TurnsTypeOK, ChainType
    <2> QED
      BY <1>13, <2>1 DEF RecordUsage, TurnsTypeOK
  <1>14. CASE CompactChain
    <2>1. messages' \in Seq({"in", "out"}) /\ Len(messages') = 1
      BY <1>14 DEF CompactChain
    <2>2. 1 <= MaxMessages
      BY <1>14, History, EmptySeq DEF CompactChain, TurnsTypeOK
    <2>3. standsFor' = <<>> /\ Len(standsFor') = 0
      BY <1>14 DEF CompactChain
    <2>4. CompactTarget \in Targets
      BY RouteTargets DEF CompactTarget, TurnsTypeOK, ChainType
    <2>5. chain' \in ChainType' /\ chainRow' \in ChainType'
      <3>1. 0 \in 0..Len(standsFor') /\ 0 \in 0..MaxMessages
        BY <2>3, History
      <3>2. Cleared \in ChainType'
        BY <3>1 DEF Cleared, ChainType
      <3>3. CompactedBy(CompactTarget) \in ChainType'
        BY <2>4, <3>1 DEF Cleared, CompactedBy, ChainType
      <3> QED
        BY <1>14, <3>2, <3>3 DEF CompactChain
    <2>6. asked' \in [previous : 0..Len(standsFor'), inputs : SUBSET (1..MaxMessages)]
      BY <1>14, <2>3 DEF CompactChain, TurnsInv, TurnIsPlaced
    <2>7. standsFor' \in Seq([target : Targets, inputs : SUBSET (1..MaxMessages)])
      BY <2>3
    <2> QED
      BY <1>14, <2>1, <2>2, <2>5, <2>6, <2>7 DEF CompactChain, TurnsTypeOK
  <1>15. CASE Respawn
    <2>1. chain' \in ChainType' /\ chainRow' \in ChainType'
      BY <1>15 DEF Respawn, TurnsTypeOK, ChainType
    <2>2. route' \in Routes /\ Len(route') \in Nat
      BY <1>15, LenProperties DEF Respawn
    <2> QED
      BY <1>15, <2>1, <2>2, History DEF Respawn, TurnsTypeOK
  <1>16. CASE Reconfigure
    <2>1. chain' \in ChainType' /\ chainRow' \in ChainType'
      BY <1>16, QuietTurn DEF Reconfigure
    <2> QED
      BY <1>16, <2>1, History, RouteTargets DEF Reconfigure, TurnsTypeOK
  <1>17. CASE UNCHANGED turnsVars
    <2>1. chain' \in ChainType' /\ chainRow' \in ChainType'
      BY <1>17, QuietTurn DEF turnsVars
    <2> QED
      BY <1>17, <2>1, History, RouteTargets DEF turnsVars, TurnsTypeOK
  <1> QED
    BY <1>1, <1>2, <1>3, <1>4, <1>5, <1>6, <1>7, <1>8, <1>9, <1>10, <1>11, <1>12, <1>13,
       <1>14, <1>15, <1>16, <1>17 DEF TurnsNext

\* Every step keeps the places and the one voice.
LEMMA VoiceStep == TurnsInv /\ [TurnsNext]_turnsVars => TurnIsPlaced' /\ VoiceIsOwn'
  <1> SUFFICES ASSUME TurnsInv, TurnsTypeOK, TurnIsPlaced, VoiceIsOwn, [TurnsNext]_turnsVars
               PROVE  TurnIsPlaced' /\ VoiceIsOwn'
    BY DEF TurnsInv
  <1> USE DEF CommitMessage, NextTarget, RunFails
  <1>0. attempt \in Nat /\ attempt + 1 # 0
    BY RouteTargets DEF TurnsTypeOK
  <1>1. CASE TurnStarts
    BY <1>0, <1>1 DEF TurnStarts, TurnIsPlaced, VoiceIsOwn, OneVoice
  <1>2. CASE TurnStops
    BY <1>0, <1>2 DEF TurnStops, TurnIsPlaced, VoiceIsOwn, OneVoice
  <1>3. CASE TargetIsMissing
    BY <1>0, <1>3 DEF TargetIsMissing, TurnIsPlaced, VoiceIsOwn, OneVoice
  <1>4. CASE NoTargetLeft
    BY <1>0, <1>4 DEF NoTargetLeft, TurnIsPlaced, VoiceIsOwn, OneVoice
  <1>5. CASE AskResponses
    BY <1>0, <1>5 DEF AskResponses, TurnIsPlaced, VoiceIsOwn, OneVoice
  <1>6. CASE StopIsSeen
    <2>1. living = {} \/ \E v : living \subseteq {v}
      BY <1>6 DEF StopIsSeen, VoiceIsOwn
    <2>2. Cardinality(living) <= 1
      BY <2>1, AtMostOne
    <2> QED
      BY <1>6, <2>2 DEF StopIsSeen, TurnIsPlaced, VoiceIsOwn, OneVoice
  <1>7. CASE Speaks
    BY <1>0, <1>7 DEF Speaks, TurnIsPlaced, VoiceIsOwn, OneVoice
  <1>8. CASE ResponseCompletes
    <2>1. Cardinality(living) <= 1
      BY <1>8, AtMostOne DEF ResponseCompletes, VoiceIsOwn
    <2> QED
      BY <1>8, <2>1 DEF ResponseCompletes, TurnIsPlaced, VoiceIsOwn, OneVoice
  <1>9. CASE ResponsesFail
    BY <1>0, <1>9 DEF ResponsesFail, MayFallBack, Emitted, TurnIsPlaced, VoiceIsOwn, OneVoice
  <1>10. CASE ChatCompletes
    <2>1. Cardinality(living) <= 1
      BY <1>10, AtMostOne DEF ChatCompletes, VoiceIsOwn
    <2> QED
      BY <1>10, <2>1 DEF ChatCompletes, TurnIsPlaced, VoiceIsOwn, OneVoice
  <1>11. CASE ChatFails
    BY <1>0, <1>11 DEF ChatFails, MayFallBack, Emitted, TurnIsPlaced, VoiceIsOwn, OneVoice
  <1>12. CASE Merge
    BY <1>0, <1>12 DEF Merge, TurnIsPlaced, VoiceIsOwn, OneVoice
  <1>13. CASE RecordUsage
    BY <1>0, <1>13 DEF RecordUsage, TurnIsPlaced, VoiceIsOwn, OneVoice
  <1>14. CASE CompactChain
    BY <1>0, <1>14 DEF CompactChain, TurnIsPlaced, VoiceIsOwn, OneVoice
  <1>15. CASE Respawn
    BY <1>0, <1>15 DEF Respawn, TurnIsPlaced, VoiceIsOwn, OneVoice
  <1>16. CASE Reconfigure
    BY <1>0, <1>16 DEF Reconfigure, TurnIsPlaced, VoiceIsOwn, OneVoice
  <1>17. CASE UNCHANGED turnsVars
    BY <1>0, <1>17 DEF turnsVars, TurnIsPlaced, VoiceIsOwn, OneVoice
  <1> QED
    BY <1>1, <1>2, <1>3, <1>4, <1>5, <1>6, <1>7, <1>8, <1>9, <1>10, <1>11, <1>12, <1>13,
       <1>14, <1>15, <1>16, <1>17 DEF TurnsNext

\* Every step keeps the response states true to the history and to the stored responses.
LEMMA CoversStep ==
  TurnsInv /\ [TurnsNext]_turnsVars => Covers(chain)' /\ Covers(chainRow)' /\ ChainCoversInputs'
  <1> SUFFICES ASSUME TurnsInv, TurnsTypeOK, [TurnsNext]_turnsVars
               PROVE  Covers(chain)' /\ Covers(chainRow)' /\ ChainCoversInputs'
    BY DEF TurnsInv
  <1> USE DEF NextTarget, RunFails
  <1>1. CASE TurnStarts
    <2>1. /\ messages' = Append(messages, "in") /\ Len(messages) < MaxMessages
          /\ chain' = chain /\ chainRow' = chainRow /\ standsFor' = standsFor
      BY <1>1 DEF TurnStarts, CommitMessage
    <2>2. Covers(chain)' /\ Covers(chainRow)'
      BY <2>1, CoversGrowing DEF TurnsInv, TurnsTypeOK, Covers
    <2> QED
      BY <1>1, <2>2 DEF TurnStarts, ChainCoversInputs
  <1>2. CASE TurnStops
    BY <1>2, QuietTurn DEF TurnStops, ChainCoversInputs
  <1>3. CASE TargetIsMissing
    BY <1>3, QuietTurn DEF TargetIsMissing, ChainCoversInputs
  <1>4. CASE NoTargetLeft
    BY <1>4, QuietTurn DEF NoTargetLeft, ChainCoversInputs
  <1>5. CASE AskResponses
    <2> DEFINE c == UsableChain
    <2>1. /\ chain' = c /\ c \in ChainType /\ Covers(c) /\ messages' = messages
          /\ standsFor' = standsFor /\ chainRow' = chainRow /\ route' = route /\ attempt' = attempt
          /\ c.response # 0 => standsFor[c.response].target = Target
      BY <1>5, UsableCovers DEF AskResponses
    <2>2. Covers(chain)' /\ Covers(chainRow)'
      BY <2>1 DEF TurnsInv, Covers, Inputs
    <2>3. asked' = [previous |-> c.response,
                    inputs |-> IF c.response # 0 THEN {i \in Inputs : i > c.cursor} ELSE Inputs]
      BY <1>5, <2>1 DEF AskResponses, Covers
    <2>4. Behind' = IF c.response = 0 THEN {} ELSE standsFor[c.response].inputs
      BY <2>1, <2>3 DEF Behind
    <2>5. Inputs' = Inputs /\ Target' = Target
      BY <2>1 DEF Inputs, Target
    <2>6. CASE c.response = 0
      <3>1. Behind' = {} /\ asked'.inputs = Inputs /\ asked'.previous = 0
        BY <2>3, <2>4, <2>6
      <3> QED
        BY <2>2, <2>5, <3>1 DEF ChainCoversInputs
    <2>7. CASE c.response # 0
      <3>1. Behind' = {i \in Inputs : i <= c.cursor} /\ asked'.inputs = {i \in Inputs : i > c.cursor}
        BY <2>1, <2>3, <2>4, <2>7 DEF Covers
      <3>2. c.cursor \in Nat /\ \A i \in Inputs : i \in Nat
        BY <2>1, History DEF ChainType
      <3>3. Behind' \cup asked'.inputs = Inputs /\ Behind' \cap asked'.inputs = {}
        BY <3>1, <3>2
      <3>4. asked'.previous = c.response /\ standsFor'[c.response].target = Target'
        BY <2>1, <2>3, <2>5, <2>7
      <3> QED
        BY <2>2, <2>5, <3>3, <3>4 DEF ChainCoversInputs
    <2> QED
      BY <2>2, <2>6, <2>7
  <1>6. CASE StopIsSeen
    BY <1>6, QuietTurn DEF StopIsSeen, ChainCoversInputs
  <1>7. CASE Speaks
    BY <1>7, QuietTurn DEF Speaks, ChainCoversInputs
  <1>8. CASE ResponseCompletes
    <2>1. messages' = messages /\ chainRow' = chainRow /\ turn' # "responses"
      BY <1>8 DEF ResponseCompletes
    <2>2. CASE UNCHANGED <<chain, standsFor>>
      BY <2>1, <2>2, QuietTurn DEF ChainCoversInputs
    <2>3. CASE ~UNCHANGED <<chain, standsFor>>
      <3>1. Behind \cup asked.inputs = Inputs
        BY <1>8 DEF ResponseCompletes, TurnsInv, ChainCoversInputs
      <3>2. /\ standsFor' = Append(standsFor, [target |-> Target, inputs |-> Inputs])
            /\ chain' = [chain EXCEPT !.target = Target, !.response = Len(standsFor) + 1,
                                      !.cursor = Len(messages)]
        BY <1>8, <2>3, <3>1 DEF ResponseCompletes
      <3>3. /\ standsFor'[Len(standsFor) + 1] = [target |-> Target, inputs |-> Inputs]
            /\ \A r \in 1..Len(standsFor) : standsFor'[r] = standsFor[r]
        BY <3>2, History DEF TurnsTypeOK
      <3>4. /\ chain'.target = Target /\ chain'.response = Len(standsFor) + 1
            /\ chain'.cursor = Len(messages)
        BY <3>2 DEF TurnsTypeOK, ChainType
      <3>5. Inputs' = Inputs /\ {i \in Inputs : i <= Len(messages)} = Inputs
        BY <2>1, History DEF Inputs
      <3>6. Covers(chain)'
        BY <2>1, <3>3, <3>4, <3>5, History DEF Covers
      <3>7. chainRow.response # 0 => chainRow.response \in 1..Len(standsFor)
        BY History DEF TurnsTypeOK, ChainType
      <3>8. Covers(chainRow)'
        BY <2>1, <3>3, <3>5, <3>7 DEF TurnsInv, Covers
      <3> QED
        BY <2>1, <3>6, <3>8 DEF ChainCoversInputs
    <2> QED
      BY <2>2, <2>3
  <1>9. CASE ResponsesFail
    <2>1. Covers(Cleared)
      BY ClearedType
    <2>2. Covers(chain)' /\ Covers(chainRow)'
      BY <1>9, <2>1 DEF ResponsesFail, TurnsInv, Covers, Inputs
    <2> QED
      BY <1>9, <2>2 DEF ResponsesFail, ChainCoversInputs
  <1>10. CASE ChatCompletes
    BY <1>10, QuietTurn DEF ChatCompletes, ChainCoversInputs
  <1>11. CASE ChatFails
    BY <1>11, QuietTurn DEF ChatFails, ChainCoversInputs
  <1>12. CASE Merge
    <2>1. chain' = chain /\ chainRow' = chainRow /\ standsFor' = standsFor
      BY <1>12 DEF Merge
    <2>2. CASE messages' = messages
      BY <1>12, <2>1, <2>2, QuietTurn DEF Merge, ChainCoversInputs
    <2>3. CASE messages' = Append(messages, "out")
      <3>1. Covers(chain)' /\ Covers(chainRow)'
        BY <1>12, <2>1, <2>3, CoversGrowing DEF Merge, TurnsInv, TurnsTypeOK, Covers
      <3> QED
        BY <1>12, <3>1 DEF Merge, ChainCoversInputs
    <2> QED
      BY <1>12, <2>2, <2>3 DEF Merge, CommitMessage
  <1>13. CASE RecordUsage
    BY <1>13 DEF RecordUsage, TurnsInv, Covers, Inputs, ChainCoversInputs
  <1>14. CASE CompactChain
    <2>0. /\ Cleared.response = 0 /\ Cleared.cursor = 0
          /\ CompactedBy(CompactTarget).response = 0 /\ CompactedBy(CompactTarget).cursor = 0
      BY DEF Cleared, CompactedBy
    <2>1. chain'.response = 0 /\ chain'.cursor = 0 /\ chainRow'.response = 0 /\ chainRow'.cursor = 0
      <3>1. chain' \in {Cleared, CompactedBy(CompactTarget)}
        BY <1>14 DEF CompactChain
      <3>2. chainRow' \in {Cleared, chain'}
        BY <1>14 DEF CompactChain
      <3> QED
        BY <2>0, <3>1, <3>2
    <2>2. Len(messages') = 1
      BY <1>14 DEF CompactChain
    <2> QED
      BY <1>14, <2>1, <2>2 DEF CompactChain, Covers, ChainCoversInputs
  <1>15. CASE Respawn
    BY <1>15 DEF Respawn, TurnsInv, Covers, Inputs, ChainCoversInputs
  <1>16. CASE Reconfigure
    BY <1>16, QuietTurn DEF Reconfigure, ChainCoversInputs
  <1>17. CASE UNCHANGED turnsVars
    BY <1>17, QuietTurn DEF turnsVars, ChainCoversInputs
  <1> QED
    BY <1>1, <1>2, <1>3, <1>4, <1>5, <1>6, <1>7, <1>8, <1>9, <1>10, <1>11, <1>12, <1>13,
       <1>14, <1>15, <1>16, <1>17 DEF TurnsNext

-----------------------------------------------------------------------------

\* The inductive invariant.
THEOREM TurnsInvariant == TurnsSpec => []TurnsInv
  <1>1. TurnsInv /\ [TurnsNext]_turnsVars => TurnsInv'
    BY TurnsTypeStep, VoiceStep, CoversStep DEF TurnsInv
  <1> QED
    BY <1>1, TurnsInitInv, PTL DEF TurnsSpec

\* Every variable of a conversation's turns keeps its type.
THEOREM TurnsTypes == TurnsSpec => []TurnsTypeOK
  <1>1. TurnsInv => TurnsTypeOK
    BY DEF TurnsInv
  <1> QED
    BY <1>1, TurnsInvariant, PTL

\* What a turn merges into one message comes from one attempt over one protocol.
THEOREM OneVoiceAlways == TurnsSpec => []OneVoice
  <1>1. TurnsInv => OneVoice
    BY DEF TurnsInv, VoiceIsOwn
  <1> QED
    BY <1>1, TurnsInvariant, PTL

\* A Responses request and the stored response it goes on from carry every input once.
THEOREM ChainCoversInputsAlways == TurnsSpec => []ChainCoversInputs
  <1>1. TurnsInv => ChainCoversInputs
    BY DEF TurnsInv
  <1> QED
    BY <1>1, TurnsInvariant, PTL

-----------------------------------------------------------------------------
(* Feed                                                                    *)

FrameType == [kind : {"snapshot", "delta", "commit", "error"}, version : 0..MaxVersion]

FrameTypes ==
  /\ FeedTypeOK
  /\ frames \in Seq(FrameType) /\ inHand \in FrameType \cup {NoFrame}

\* Objects that have not been created publish nothing and have no subscriber.
FutureIsBlank ==
  /\ heldObj <= objects /\ subs <= objects
  /\ \A o \in Objs : o > objects => version[o] = 0 /\ run[o] = "idle"

\* While there has been one object at most, nothing on its way to the client and nothing the
\* client shows is newer than the object.
NothingIsNewer ==
  objects <= 1 =>
    /\ view.version <= version[1] /\ inHand.version <= version[1]
    /\ \A i \in DOMAIN frames : frames[i].version <= version[1]

\* The frame that the client takes last.
LastFrame == IF frames # <<>> THEN frames[Len(frames)] ELSE inHand

\* The last frame on its way to a subscribed client has the object's version, unless it
\* reports an error; with no frame on its way the client shows it.
LastIsNewest ==
  subs = 1 /\ objects = 1 =>
    /\ LastFrame.kind \in {"snapshot", "delta", "commit"} => LastFrame.version = version[1]
    /\ LastFrame.kind = "none" /\ view.phase = "synced" /\ ~view.resub /\ ~opening =>
         view.version = version[1]

FeedInv == FrameTypes /\ FutureIsBlank /\ NothingIsNewer /\ LastIsNewest

-----------------------------------------------------------------------------

\* The initial state satisfies the invariant.
LEMMA FeedInitInv == FeedInit => FeedInv
<1> SUFFICES ASSUME FeedInit PROVE FeedInv
  OBVIOUS
<1>1. frames \in Seq(FrameType) /\ Len(frames) = 0 /\ DOMAIN frames = {}
  BY EmptySeq DEF FeedInit
<1>2. opening \in BOOLEAN
  BY Zenon DEF FeedInit
<1>3. ClosedView \in [version : 0..MaxVersion, phase : {"closed", "subscribing", "synced", "error"},
                      resub : BOOLEAN]
  <2>1. FALSE \in BOOLEAN
    BY Zenon
  <2> QED BY <2>1, FeedAssumption DEF ClosedView
<1>4. FrameTypes
  BY <1>1, <1>2, <1>3, FeedAssumption DEF FrameTypes, FeedTypeOK, FeedInit, Objs, NoFrame
<1>5. FutureIsBlank
  BY FeedAssumption DEF FutureIsBlank, FeedInit, Objs
<1>6. 1 \in Objs /\ version[1] = 0
  BY FeedAssumption DEF FeedInit, Objs
<1>7. NothingIsNewer
  BY <1>1, <1>6 DEF NothingIsNewer, FeedInit, NoFrame, ClosedView
<1>8. LastIsNewest
  BY DEF LastIsNewest, FeedInit
<1> QED BY <1>4, <1>5, <1>7, <1>8 DEF FeedInv

\* A queued frame is the last one, and every other frame keeps its place or is dropped.
LEMMA QueueKeeps ==
  ASSUME FrameTypes, NEW f \in FrameType, NEW reset \in BOOLEAN, QueueAfter(f, reset)
  PROVE  /\ frames' \in Seq(FrameType) /\ Len(frames') <= QueueSize
         /\ frames' # <<>> /\ frames'[Len(frames')] = f
         /\ \A i \in DOMAIN frames' :
              frames'[i] = f \/ (i \in DOMAIN frames /\ frames'[i] = frames[i])
<1>0. frames \in Seq(FrameType) /\ Len(frames) \in Nat /\ Len(frames) <= QueueSize
  BY DEF FrameTypes, FeedTypeOK
<1>1. CASE reset \/ Len(frames) = QueueSize
  <2>1. frames' = <<f>>
    BY <1>1 DEF QueueAfter
  <2>2. <<f>> \in Seq(FrameType) /\ Len(<<f>>) = 1 /\ <<f>>[1] = f /\ DOMAIN <<f>> = {1} /\ <<f>> # <<>>
    OBVIOUS
  <2> QED BY <2>1, <2>2, FeedAssumption
<1>2. CASE ~(reset \/ Len(frames) = QueueSize)
  <2>1. frames' = Append(frames, f)
    BY <1>2 DEF QueueAfter
  <2>2. /\ Append(frames, f) \in Seq(FrameType)
        /\ Len(Append(frames, f)) = Len(frames) + 1
        /\ DOMAIN Append(frames, f) = 1..(Len(frames) + 1)
        /\ DOMAIN frames = 1..Len(frames)
        /\ Append(frames, f)[Len(frames) + 1] = f
        /\ \A i \in 1..Len(frames) : Append(frames, f)[i] = frames[i]
    BY <1>0
  <2>3. Len(frames) + 1 <= QueueSize
    BY <1>0, <1>2, FeedAssumption
  <2>4. frames' # <<>>
    BY <2>1, <2>2, <1>0, EmptySeq
  <2>5. \A i \in 1..(Len(frames) + 1) : i \in 1..Len(frames) \/ i = Len(frames) + 1
    BY <1>0
  <2> QED BY <2>1, <2>2, <2>3, <2>4, <2>5, Zenon
<1> QED BY <1>1, <1>2

\* A subscription leaves its snapshot alone in the queue.
LEMMA SnapshotReplaces ==
  ASSUME FrameTypes, NEW o \in Objs, Subscribe(o)
  PROVE  subs' = o /\ frames' = <<Frame("snapshot", version[o])>>
         /\ frames' \in Seq(FrameType) /\ Len(frames') = 1 /\ 1 <= QueueSize
<1>1. version[o] \in 0..MaxVersion
  BY DEF FrameTypes, FeedTypeOK
<1>2. Frame("snapshot", version[o]) \in FrameType
  BY <1>1 DEF Frame, FrameType
<1> QED BY <1>2, FeedAssumption DEF Subscribe, QueueAfter

\* The object of the id is the one held, or the next one.
LEMMA HeldObject ==
  ASSUME FrameTypes, FutureIsBlank, HoldObject
  PROVE  /\ ObjectFor \in Objs /\ heldObj' = ObjectFor
         /\ objects' \in 0..MaxObjects /\ objects' >= objects /\ ObjectFor <= objects'
         /\ objects' = 1 => ObjectFor = 1
         /\ objects' = objects \/ (objects' = objects + 1 /\ ObjectFor = objects + 1)
<1>1. heldObj \in Int /\ objects \in Int /\ heldObj <= objects /\ 0 <= heldObj /\ 0 <= objects
      /\ objects <= MaxObjects /\ MaxObjects \in Nat
  BY FeedAssumption DEF FrameTypes, FeedTypeOK, FutureIsBlank
<1> QED BY <1>1 DEF HoldObject, ObjectFor, Objs


\* What the proofs use of the types.
LEMMA Facts ==
  ASSUME FeedInv
  PROVE  /\ 1 \in Objs /\ version[1] \in 0..MaxVersion
         /\ view.version \in 0..MaxVersion /\ inHand.version \in 0..MaxVersion
         /\ view.resub \in BOOLEAN /\ opening \in BOOLEAN
         /\ heldObj \in 0..MaxObjects /\ objects \in 0..MaxObjects /\ subs \in 0..MaxObjects
         /\ heldObj <= objects /\ subs <= objects
         /\ frames \in Seq(FrameType) /\ Len(frames) \in Nat /\ DOMAIN frames = 1..Len(frames)
         /\ \A i \in DOMAIN frames : frames[i] \in FrameType /\ frames[i].version \in 0..MaxVersion
         /\ (frames # <<>> => Len(frames) \in DOMAIN frames)
         /\ (frames = <<>> <=> Len(frames) = 0)
         /\ MaxObjects \in Nat /\ MaxVersion \in Nat
<1>0. FeedTypeOK /\ frames \in Seq(FrameType) /\ inHand \in FrameType \cup {NoFrame}
  BY DEF FeedInv, FrameTypes
<1>1. 1 \in Objs /\ MaxObjects \in Nat /\ MaxVersion \in Nat /\ 0 \in 0..MaxVersion
  BY FeedAssumption DEF Objs
<1>2. version[1] \in 0..MaxVersion /\ heldObj \in 0..MaxObjects /\ objects \in 0..MaxObjects
      /\ subs \in 0..MaxObjects /\ view.version \in 0..MaxVersion
  BY <1>0, <1>1 DEF FeedTypeOK
<1>3. view.resub \in BOOLEAN /\ opening \in BOOLEAN
  BY <1>0, Zenon DEF FeedTypeOK
<1>4. inHand.version \in 0..MaxVersion
  BY <1>0, <1>1 DEF FrameType, NoFrame
<1>5. heldObj <= objects /\ subs <= objects
  BY DEF FeedInv, FutureIsBlank
<1>6. Len(frames) \in Nat /\ DOMAIN frames = 1..Len(frames) /\ (frames = <<>> <=> Len(frames) = 0)
      /\ \A i \in DOMAIN frames : frames[i] \in FrameType
  BY <1>0, EmptySeq
<1>7. \A i \in DOMAIN frames : frames[i].version \in 0..MaxVersion
  BY <1>6 DEF FrameType
<1>8. frames # <<>> => Len(frames) \in DOMAIN frames
  BY <1>6
<1> QED BY <1>0, <1>1, <1>2, <1>3, <1>4, <1>5, <1>6, <1>7, <1>8, Zenon

\* conversation.open: the snapshot is the last frame and has the object's version.
LEMMA OpenKeeps == ASSUME FeedInv, HandleOpen PROVE FeedInv'
<1>0. FrameTypes /\ FutureIsBlank /\ HoldObject /\ Subscribe(ObjectFor) /\ opening' = FALSE
      /\ UNCHANGED <<version, run, inHand, view, errors>>
  BY DEF FeedInv, HandleOpen
<1> DEFINE o == ObjectFor
<1>1. /\ o \in Objs /\ heldObj' = o /\ objects' \in 0..MaxObjects
      /\ objects' >= objects /\ o <= objects' /\ (objects' = 1 => o = 1)
      /\ (objects' = objects \/ (objects' = objects + 1 /\ o = objects + 1))
  BY <1>0, HeldObject
<1>2. /\ subs' = o /\ frames' = <<Frame("snapshot", version[o])>>
      /\ frames' \in Seq(FrameType) /\ Len(frames') = 1 /\ 1 <= QueueSize
  BY <1>0, <1>1, SnapshotReplaces
<1>3. opening' \in BOOLEAN
  BY <1>0, Zenon
<1>4. FrameTypes'
  <2>1. heldObj' \in 0..MaxObjects /\ subs' \in 0..MaxObjects /\ Len(frames') <= QueueSize
    BY <1>1, <1>2, FeedAssumption DEF Objs
  <2>2. FeedTypeOK'
    BY <2>1, <1>0, <1>1, <1>3 DEF FeedTypeOK, FrameTypes
  <2> QED BY <2>2, <1>0, <1>2 DEF FrameTypes
<1>5. FutureIsBlank'
  <2>1. o \in Int /\ objects \in Int /\ objects' \in Int
    BY <1>1, Facts DEF Objs
  <2>2. \A p \in Objs : p > objects' => p > objects
    BY <1>1, <2>1 DEF Objs
  <2> QED BY <2>1, <2>2, <1>0, <1>1, <1>2 DEF FutureIsBlank
<1>6. NothingIsNewer'
  <2> SUFFICES ASSUME objects' <= 1
               PROVE  /\ view'.version <= version'[1] /\ inHand'.version <= version'[1]
                      /\ \A i \in DOMAIN frames' : frames'[i].version <= version'[1]
    BY DEF NothingIsNewer
  <2>1. objects <= 1 /\ o = 1
    BY <1>1, Facts DEF Objs
  <2>2. DOMAIN frames' = {1} /\ frames'[1].version = version[1]
    BY <1>2, <2>1 DEF Frame
  <2> QED BY <2>1, <2>2, <1>0, Facts DEF NothingIsNewer, FeedInv
<1>7. LastIsNewest'
  <2> SUFFICES ASSUME objects' = 1
               PROVE  /\ LastFrame'.kind \in {"snapshot", "delta", "commit"} =>
                           LastFrame'.version = version'[1]
                      /\ LastFrame'.kind # "none"
    BY DEF LastIsNewest
  <2>1. LastFrame' = Frame("snapshot", version[1])
    BY <1>1, <1>2 DEF LastFrame
  <2> QED BY <2>1, <1>0 DEF Frame
<1> QED BY <1>4, <1>5, <1>6, <1>7 DEF FeedInv

\* The steps that keep what is on its way and what the client shows.
LEMMA SilentKeeps ==
  ASSUME FeedInv,
         UNCHANGED <<objects, version, subs, frames, inHand, opening, view, errors>>,
         heldObj' \in 0..MaxObjects, heldObj' <= objects,
         run' \in [Objs -> {"idle", "streaming", "done"}],
         \A o \in Objs : o > objects => run'[o] = "idle"
  PROVE  FeedInv'
<1>1. FrameTypes'
  BY DEF FeedInv, FrameTypes, FeedTypeOK
<1>2. FutureIsBlank'
  BY DEF FeedInv, FutureIsBlank
<1>3. NothingIsNewer'
  BY DEF FeedInv, NothingIsNewer
<1>4. LastIsNewest'
  BY DEF FeedInv, LastIsNewest, LastFrame
<1> QED BY <1>1, <1>2, <1>3, <1>4 DEF FeedInv

\* conversation.close ends the subscription.
LEMMA CloseKeeps == ASSUME FeedInv, HandleClose PROVE FeedInv'
<1> USE DEF HandleClose
<1>1. FrameTypes'
  <2>1. 0 \in 0..MaxObjects /\ 0 \in 0..MaxVersion
    BY Facts
  <2>2. FALSE \in BOOLEAN
    BY Zenon
  <2>3. view' \in [version : 0..MaxVersion, phase : {"closed", "subscribing", "synced", "error"},
                   resub : BOOLEAN]
    BY <2>1, <2>2 DEF ClosedView
  <2> QED BY <2>1, <2>3 DEF FeedInv, FrameTypes, FeedTypeOK
<1>2. FutureIsBlank'
  BY Facts DEF FeedInv, FutureIsBlank
<1>3. NothingIsNewer'
  BY Facts DEF FeedInv, NothingIsNewer, ClosedView
<1>4. LastIsNewest'
  BY DEF LastIsNewest
<1> QED BY <1>1, <1>2, <1>3, <1>4 DEF FeedInv

\* conversation.send subscribes as conversation.open does, or changes nothing the client sees.
LEMMA SendKeeps == ASSUME FeedInv, HandleSend PROVE FeedInv'
<1>0. FrameTypes /\ FutureIsBlank /\ HoldObject
      /\ (IF subs = 0 THEN Subscribe(ObjectFor) ELSE UNCHANGED <<subs, frames>>)
      /\ UNCHANGED <<version, run, inHand, opening, view, errors>>
  BY DEF FeedInv, HandleSend
<1> DEFINE o == ObjectFor
<1>1. /\ o \in Objs /\ heldObj' = o /\ objects' \in 0..MaxObjects
      /\ objects' >= objects /\ o <= objects' /\ (objects' = 1 => o = 1)
      /\ (objects' = objects \/ (objects' = objects + 1 /\ o = objects + 1))
  BY <1>0, HeldObject
<1>2. subs = 0 => /\ subs' = o /\ frames' = <<Frame("snapshot", version[o])>>
                  /\ frames' \in Seq(FrameType) /\ Len(frames') = 1 /\ 1 <= QueueSize
  BY <1>0, <1>1, SnapshotReplaces
<1>3. subs # 0 => subs' = subs /\ frames' = frames
  BY <1>0
<1>4. FrameTypes'
  <2>1. heldObj' \in 0..MaxObjects /\ subs' \in 0..MaxObjects /\ Len(frames') <= QueueSize
    <3>1. o \in 0..MaxObjects
      BY <1>1, FeedAssumption DEF Objs
    <3>2. subs \in 0..MaxObjects /\ Len(frames) <= QueueSize
      BY <1>0 DEF FrameTypes, FeedTypeOK
    <3>3. CASE subs = 0
      BY <3>1, <3>3, <1>1, <1>2
    <3>4. CASE subs # 0
      BY <3>1, <3>2, <3>4, <1>1, <1>3
    <3> QED BY <3>3, <3>4
  <2>2. FeedTypeOK'
    BY <2>1, <1>0, <1>1 DEF FeedTypeOK, FrameTypes
  <2> QED BY <2>2, <1>0, <1>2, <1>3 DEF FrameTypes
<1>5. FutureIsBlank'
  <2>1. o \in Int /\ objects \in Int /\ objects' \in Int /\ subs \in Int
    BY <1>1, Facts DEF Objs
  <2>2. \A p \in Objs : p > objects' => p > objects
    BY <1>1, <2>1 DEF Objs
  <2>3. subs' <= objects'
    BY <2>1, <1>1, <1>2, <1>3, <1>0 DEF FutureIsBlank
  <2> QED BY <2>1, <2>2, <2>3, <1>0, <1>1 DEF FutureIsBlank
<1>6. NothingIsNewer'
  <2> SUFFICES ASSUME objects' <= 1
               PROVE  /\ view'.version <= version'[1] /\ inHand'.version <= version'[1]
                      /\ \A i \in DOMAIN frames' : frames'[i].version <= version'[1]
    BY DEF NothingIsNewer
  <2>1. objects <= 1 /\ o = 1
    BY <1>1, Facts DEF Objs
  <2>2. subs = 0 => DOMAIN frames' = {1} /\ frames'[1].version = version[1]
    BY <1>2, <2>1 DEF Frame
  <2> QED BY <2>1, <2>2, <1>3, <1>0, Facts DEF NothingIsNewer, FeedInv
<1>7. LastIsNewest'
  <2> SUFFICES ASSUME objects' = 1, subs' = 1
               PROVE  /\ LastFrame'.kind \in {"snapshot", "delta", "commit"} =>
                           LastFrame'.version = version'[1]
                      /\ LastFrame'.kind = "none" /\ view'.phase = "synced" /\ ~view'.resub
                           /\ ~opening' => view'.version = version'[1]
    BY DEF LastIsNewest
  <2>1. CASE subs = 0
    <3>1. o = 1 /\ frames' = <<Frame("snapshot", version[1])>>
      BY <1>1, <1>2, <2>1
    <3>2. LastFrame' = Frame("snapshot", version[1])
      BY <3>1 DEF LastFrame
    <3> QED BY <3>2, <1>0 DEF Frame
  <2>2. CASE subs # 0
    <3>1. subs = 1 /\ objects = 1
      BY <2>2, <1>1, <1>3, Facts DEF Objs
    <3>2. LastFrame' = LastFrame
      BY <2>2, <1>3, <1>0 DEF LastFrame
    <3> QED BY <3>1, <3>2, <1>0 DEF FeedInv, LastIsNewest
  <2> QED BY <2>1, <2>2
<1> QED BY <1>4, <1>5, <1>6, <1>7 DEF FeedInv

\* A discarded object leaves its subscriber what it had.
LEMMA DiscardKeeps == ASSUME FeedInv, DiscardObject PROVE FeedInv'
<1>1. heldObj' \in 0..MaxObjects /\ heldObj' <= objects
  BY Facts DEF DiscardObject
<1>2. run \in [Objs -> {"idle", "streaming", "done"}] /\ \A o \in Objs : o > objects => run[o] = "idle"
  BY DEF FeedInv, FrameTypes, FeedTypeOK, FutureIsBlank
<1> QED BY <1>1, <1>2, SilentKeeps DEF DiscardObject

\* A run of a new object makes it the second of the id, or the first without a version.
LEMMA StartKeeps == ASSUME FeedInv, RunStarts PROVE FeedInv'
<1>0. FrameTypes /\ FutureIsBlank /\ HoldObject
      /\ run' = [run EXCEPT ![ObjectFor] = "streaming"]
      /\ UNCHANGED <<version, subs, frames, inHand, opening, view, errors>>
  BY DEF FeedInv, RunStarts
<1> DEFINE o == ObjectFor
<1>1. /\ o \in Objs /\ heldObj' = o /\ objects' \in 0..MaxObjects
      /\ objects' >= objects /\ o <= objects' /\ (objects' = 1 => o = 1)
      /\ (objects' = objects \/ (objects' = objects + 1 /\ o = objects + 1))
  BY <1>0, HeldObject
<1>4. FrameTypes'
  <2>1. heldObj' \in 0..MaxObjects
    BY <1>1, FeedAssumption DEF Objs
  <2>2. run' \in [Objs -> {"idle", "streaming", "done"}]
    BY <1>0, <1>1 DEF FeedTypeOK, FrameTypes
  <2>3. FeedTypeOK'
    BY <2>1, <2>2, <1>0, <1>1 DEF FeedTypeOK, FrameTypes
  <2> QED BY <2>3, <1>0 DEF FrameTypes
<1>5. FutureIsBlank'
  <2>1. o \in Int /\ objects \in Int /\ objects' \in Int /\ subs \in Int
    BY <1>1, Facts DEF Objs
  <2>2. \A p \in Objs : p > objects' => p > objects /\ p # o
    BY <1>1, <2>1 DEF Objs
  <2>3. \A p \in Objs : p # o => run'[p] = run[p]
    BY <1>0 DEF FeedTypeOK, FrameTypes
  <2>4. subs' <= objects' /\ heldObj' <= objects'
    BY <2>1, <1>1, <1>0 DEF FutureIsBlank
  <2> QED BY <2>2, <2>3, <2>4, <1>0 DEF FutureIsBlank
<1>6. NothingIsNewer'
  <2>1. objects' <= 1 => objects <= 1
    BY <1>1, Facts
  <2> QED BY <2>1, <1>0 DEF NothingIsNewer, FeedInv
<1>7. LastIsNewest'
  <2>1. subs' = 1 /\ objects' = 1 => subs = 1 /\ objects = 1
    BY <1>0, <1>1, Facts
  <2>2. LastFrame' = LastFrame
    BY <1>0 DEF LastFrame
  <2> QED BY <2>1, <2>2, <1>0 DEF FeedInv, LastIsNewest
<1> QED BY <1>4, <1>5, <1>6, <1>7 DEF FeedInv

\* What a publication to the subscribers of an object leaves of the queue.
LEMMA Published ==
  ASSUME FeedInv, NEW o \in Objs, NEW f \in FrameType,
         IF subs = o THEN QueueAfter(f, FALSE) ELSE UNCHANGED frames
  PROVE  /\ frames' \in Seq(FrameType) /\ Len(frames') <= QueueSize
         /\ subs = o => frames' # <<>> /\ frames'[Len(frames')] = f
         /\ subs # o => frames' = frames
         /\ \A i \in DOMAIN frames' :
              frames'[i] = f \/ (i \in DOMAIN frames /\ frames'[i] = frames[i])
<1>1. FALSE \in BOOLEAN
  BY Zenon
<1>2. FrameTypes /\ frames \in Seq(FrameType) /\ Len(frames) <= QueueSize
  BY DEF FeedInv, FrameTypes, FeedTypeOK
<1>3. CASE subs = o
  BY <1>1, <1>2, <1>3, QueueKeeps
<1>4. CASE subs # o
  BY <1>2, <1>4
<1> QED BY <1>3, <1>4

\* A delta or a commit is the newest version, and the last frame of its subscriber.
LEMMA VersionKeeps ==
  ASSUME FeedInv, NEW o \in Objs, NEW kind \in {"delta", "commit"}, PublishVersion(o, kind),
         run[o] = "streaming", run' \in [Objs -> {"idle", "streaming", "done"}],
         \A p \in Objs : p # o => run'[p] = run[p],
         UNCHANGED errors
  PROVE  FeedInv'
<1> DEFINE f == Frame(kind, version[o] + 1)
<1>0. /\ version[o] < MaxVersion /\ version' = [version EXCEPT ![o] = @ + 1]
      /\ (IF subs = o THEN QueueAfter(f, FALSE) ELSE UNCHANGED frames)
      /\ UNCHANGED <<heldObj, objects, subs, inHand, opening, view>>
  BY DEF PublishVersion
<1>1. version \in [Objs -> 0..MaxVersion] /\ FeedTypeOK /\ FrameTypes /\ FutureIsBlank
  BY DEF FeedInv, FrameTypes, FeedTypeOK
<1>2. /\ version' \in [Objs -> 0..MaxVersion] /\ version'[o] = version[o] + 1
      /\ \A p \in Objs : p # o => version'[p] = version[p]
      /\ version[o] + 1 \in 0..MaxVersion
  BY <1>0, <1>1, Facts
<1>3. f \in FrameType /\ f.version = version'[o] /\ f.kind \in {"delta", "commit"}
  BY <1>2 DEF Frame, FrameType
<1>4. /\ frames' \in Seq(FrameType) /\ Len(frames') <= QueueSize
      /\ subs = o => frames' # <<>> /\ frames'[Len(frames')] = f
      /\ subs # o => frames' = frames
      /\ \A i \in DOMAIN frames' :
           frames'[i] = f \/ (i \in DOMAIN frames /\ frames'[i] = frames[i])
  BY <1>0, <1>3, Published
<1>5. ~(o > objects)
  BY <1>1 DEF FutureIsBlank
<1>6. FrameTypes'
  BY <1>0, <1>1, <1>2, <1>4 DEF FrameTypes, FeedTypeOK
<1>7. FutureIsBlank'
  BY <1>0, <1>1, <1>2, <1>5 DEF FutureIsBlank
<1>8. objects <= 1 => o = 1
  BY <1>5, Facts DEF Objs
<1>9. NothingIsNewer'
  <2> SUFFICES ASSUME objects <= 1
               PROVE  /\ view.version <= version'[1] /\ inHand.version <= version'[1]
                      /\ \A i \in DOMAIN frames' : frames'[i].version <= version'[1]
    BY <1>0 DEF NothingIsNewer
  <2>1. o = 1 /\ version'[1] = version[1] + 1 /\ f.version = version[1] + 1
    BY <1>8, <1>2, <1>3
  <2>2. view.version <= version[1] /\ inHand.version <= version[1]
        /\ \A i \in DOMAIN frames : frames[i].version <= version[1]
    BY DEF FeedInv, NothingIsNewer
  <2>3. view.version <= version'[1] /\ inHand.version <= version'[1]
    BY <2>1, <2>2, Facts
  <2>4. ASSUME NEW i \in DOMAIN frames' PROVE frames'[i].version <= version'[1]
    <3>1. CASE frames'[i] = f
      BY <3>1, <2>1, Facts
    <3>2. CASE i \in DOMAIN frames /\ frames'[i] = frames[i]
      BY <3>2, <2>1, <2>2, Facts
    <3> QED BY <3>1, <3>2, <1>4
  <2> QED BY <2>3, <2>4
<1>10. LastIsNewest'
  <2> SUFFICES ASSUME objects = 1, subs = 1
               PROVE  /\ LastFrame'.kind \in {"snapshot", "delta", "commit"} =>
                           LastFrame'.version = version'[1]
                      /\ LastFrame'.kind # "none"
    BY <1>0 DEF LastIsNewest
  <2>1. o = 1
    BY <1>8, Facts
  <2>2. LastFrame' = f
    BY <2>1, <1>4 DEF LastFrame
  <2> QED BY <2>1, <2>2, <1>3
<1> QED BY <1>6, <1>7, <1>9, <1>10 DEF FeedInv

\* Deltas.
LEMMA DeltaKeeps == ASSUME FeedInv, NEW o \in Objs, EmitDelta(o) PROVE FeedInv'
<1>1. PublishVersion(o, "delta") /\ run[o] = "streaming" /\ run' = run /\ UNCHANGED errors
  BY DEF EmitDelta
<1>2. run \in [Objs -> {"idle", "streaming", "done"}]
  BY DEF FeedInv, FrameTypes, FeedTypeOK
<1> QED BY <1>1, <1>2, VersionKeeps

\* Commits.
LEMMA CommitKeeps == ASSUME FeedInv, NEW o \in Objs, EmitCommit(o) PROVE FeedInv'
<1>1. PublishVersion(o, "commit") /\ run[o] = "streaming"
      /\ run' = [run EXCEPT ![o] = "done"] /\ UNCHANGED errors
  BY DEF EmitCommit
<1>2. run \in [Objs -> {"idle", "streaming", "done"}]
  BY DEF FeedInv, FrameTypes, FeedTypeOK
<1>3. run' \in [Objs -> {"idle", "streaming", "done"}] /\ \A p \in Objs : p # o => run'[p] = run[p]
  BY <1>1, <1>2
<1> QED BY <1>1, <1>3, VersionKeeps

\* An error takes the last place; what is lost with a full queue stays lost.
LEMMA ErrorKeeps == ASSUME FeedInv, NEW o \in Objs, EmitError(o) PROVE FeedInv'
<1> DEFINE f == Frame("error", 0)
<1>0. /\ run[o] = "streaming" /\ errors < MaxErrors
      /\ run' = [run EXCEPT ![o] = "done"] /\ errors' = errors + 1
      /\ (IF subs = o THEN QueueAfter(f, FALSE) ELSE UNCHANGED frames)
      /\ UNCHANGED <<heldObj, objects, version, subs, inHand, opening, view>>
  BY DEF EmitError
<1>1. FeedTypeOK /\ FrameTypes /\ FutureIsBlank
  BY DEF FeedInv, FrameTypes
<1>2. run' \in [Objs -> {"idle", "streaming", "done"}] /\ \A p \in Objs : p # o => run'[p] = run[p]
  BY <1>0, <1>1 DEF FeedTypeOK
<1>3. f \in FrameType /\ f.version = 0 /\ f.kind = "error"
  BY Facts DEF Frame, FrameType
<1>4. /\ frames' \in Seq(FrameType) /\ Len(frames') <= QueueSize
      /\ subs = o => frames' # <<>> /\ frames'[Len(frames')] = f
      /\ subs # o => frames' = frames
      /\ \A i \in DOMAIN frames' :
           frames'[i] = f \/ (i \in DOMAIN frames /\ frames'[i] = frames[i])
  BY <1>0, <1>3, Published
<1>5. ~(o > objects)
  BY <1>0, <1>1 DEF FutureIsBlank
<1>6. FrameTypes'
  <2>1. errors' \in 0..MaxErrors
    BY <1>0, <1>1, FeedAssumption DEF FeedTypeOK
  <2> QED BY <2>1, <1>0, <1>1, <1>2, <1>4 DEF FrameTypes, FeedTypeOK
<1>7. FutureIsBlank'
  BY <1>0, <1>1, <1>2, <1>5 DEF FutureIsBlank
<1>8. NothingIsNewer'
  <2> SUFFICES ASSUME objects <= 1
               PROVE  \A i \in DOMAIN frames' : frames'[i].version <= version[1]
    BY <1>0 DEF NothingIsNewer, FeedInv
  <2>1. \A i \in DOMAIN frames : frames[i].version <= version[1]
    BY DEF FeedInv, NothingIsNewer
  <2> QED BY <2>1, <1>3, <1>4, Facts
<1>9. LastIsNewest'
  <2> SUFFICES ASSUME objects = 1, subs = 1
               PROVE  LastFrame'.kind = "error"
    BY <1>0 DEF LastIsNewest
  <2>1. o = 1
    BY <1>5, Facts DEF Objs
  <2>2. LastFrame' = f
    BY <2>1, <1>4 DEF LastFrame
  <2> QED BY <2>2, <1>3
<1> QED BY <1>6, <1>7, <1>8, <1>9 DEF FeedInv

\* The end of a run publishes nothing.
LEMMA LeaveKeeps == ASSUME FeedInv, NEW o \in Objs, RunLeaves(o) PROVE FeedInv'
<1>1. run \in [Objs -> {"idle", "streaming", "done"}] /\ \A p \in Objs : p > objects => run[p] = "idle"
  BY DEF FeedInv, FrameTypes, FeedTypeOK, FutureIsBlank
<1>2. run' \in [Objs -> {"idle", "streaming", "done"}] /\ \A p \in Objs : p > objects => run'[p] = "idle"
  BY <1>1 DEF RunLeaves
<1>3. heldObj' \in 0..MaxObjects /\ heldObj' <= objects
  BY Facts DEF RunLeaves
<1> QED BY <1>2, <1>3, SilentKeeps DEF RunLeaves

-----------------------------------------------------------------------------

\* The frame in the worker's hand is the last one when it was alone in the queue.
LEMMA TakeKeeps == ASSUME FeedInv, TakeFrame PROVE FeedInv'
<1>0. /\ inHand = NoFrame /\ frames # <<>> /\ inHand' = Head(frames) /\ frames' = Tail(frames)
      /\ UNCHANGED <<heldObj, objects, version, run, subs, opening, view, errors>>
  BY DEF TakeFrame
<1>1. frames \in Seq(FrameType) /\ Len(frames) \in Nat /\ Len(frames) > 0 /\ Len(frames) <= QueueSize
  BY <1>0, EmptySeq, Facts DEF FeedInv, FrameTypes, FeedTypeOK
<1>2. /\ Head(frames) = frames[1] /\ frames[1] \in FrameType /\ 1 \in DOMAIN frames
      /\ Tail(frames) \in Seq(FrameType) /\ Len(Tail(frames)) = Len(frames) - 1
      /\ DOMAIN Tail(frames) = 1..(Len(frames) - 1)
      /\ \A i \in 1..(Len(frames) - 1) : Tail(frames)[i] = frames[i + 1] /\ i + 1 \in DOMAIN frames
  BY <1>0, <1>1, HeadTailProperties
<1>3. FrameTypes'
  <2>1. Len(frames') <= QueueSize
    BY <1>0, <1>1, <1>2, FeedAssumption
  <2> QED BY <2>1, <1>0, <1>2 DEF FeedInv, FrameTypes, FeedTypeOK
<1>4. FutureIsBlank'
  BY <1>0 DEF FeedInv, FutureIsBlank
<1>5. NothingIsNewer'
  BY <1>0, <1>2 DEF FeedInv, NothingIsNewer
<1>6. LastIsNewest'
  <2>1. LastFrame' = LastFrame
    <3>1. LastFrame = frames[Len(frames)]
      BY <1>0 DEF LastFrame
    <3>2. CASE Len(frames) = 1
      <4>1. frames' = <<>>
        BY <3>2, <1>0, <1>2, EmptySeq
      <4> QED BY <4>1, <3>1, <3>2, <1>0, <1>2 DEF LastFrame
    <3>3. CASE Len(frames) # 1
      <4>0. Len(frames) \in Nat /\ Len(frames) > 1
        <5>1. \A n \in Nat : n > 0 /\ n # 1 => n > 1
          OBVIOUS
        <5> QED BY <5>1, <3>3, <1>1, Zenon
      <4>1. Len(frames) - 1 \in 1..(Len(frames) - 1) /\ (Len(frames) - 1) + 1 = Len(frames)
        BY <4>0
      <4>2. frames' # <<>> /\ Len(frames') = Len(frames) - 1
        <5>1. Len(frames') = Len(frames) - 1 /\ Len(frames') # 0
          BY <4>0, <1>0, <1>2
        <5> QED BY <5>1, EmptySeq
      <4>3. frames'[Len(frames')] = frames[Len(frames)]
        BY <4>1, <4>2, <1>0, <1>2
      <4> QED BY <4>2, <4>3, <3>1 DEF LastFrame
    <3> QED BY <3>2, <3>3
  <2> QED BY <2>1, <1>0 DEF FeedInv, LastIsNewest
<1> QED BY <1>3, <1>4, <1>5, <1>6 DEF FeedInv

\* The views the client may have.
View == [version : 0..MaxVersion, phase : {"closed", "subscribing", "synced", "error"},
         resub : BOOLEAN]

\* What the client does with a frame: it keeps its view, asks for a snapshot, applies the
\* frame, or reports the error.
LEMMA ClientMoves ==
  ASSUME FeedInv, NEW f \in FrameType, ClientTakes(f)
  PROVE  /\ view' \in View /\ opening' \in BOOLEAN
         /\ \/ /\ view' = view /\ opening' = opening
               /\ \/ view.phase = "closed" \/ view.resub
                  \/ f.kind \in {"delta", "commit"} /\ f.version <= view.version
            \/ /\ view'.version = view.version /\ view'.resub
            \/ /\ view'.version = f.version /\ f.kind # "error"
            \/ /\ view'.version = view.version /\ view'.phase = "error"
<1>0. view \in View /\ opening \in BOOLEAN /\ TRUE \in BOOLEAN /\ FALSE \in BOOLEAN
  BY Zenon DEF FeedInv, FrameTypes, FeedTypeOK, View
<1>1. f.version \in 0..MaxVersion /\ f.kind \in {"snapshot", "delta", "commit", "error"}
  BY DEF FrameType
<1>2. CASE view.phase = "closed"
  <2>1. view' = view /\ opening' = opening
    BY <1>2 DEF ClientTakes
  <2> QED BY <2>1, <1>0, <1>2
<1>3. CASE view.phase # "closed" /\ f.kind = "snapshot"
  <2>1. view' = [version |-> f.version, phase |-> "synced", resub |-> FALSE] /\ opening' = opening
    BY <1>3 DEF ClientTakes
  <2>2. view' \in View /\ view'.version = f.version
    BY <2>1, <1>0, <1>1 DEF View
  <2> QED BY <2>1, <2>2, <1>0, <1>3
<1>4. CASE view.phase # "closed" /\ f.kind = "error"
  <2>1. view' = [view EXCEPT !.phase = "error"] /\ opening' = opening
    BY <1>4 DEF ClientTakes
  <2>2. view' \in View /\ view'.version = view.version /\ view'.phase = "error"
    BY <2>1, <1>0 DEF View
  <2> QED BY <2>1, <2>2, <1>0
<1>5. CASE view.phase # "closed" /\ f.kind \in {"delta", "commit"}
  <2>0. ClientFollows(f.version)
    BY <1>5 DEF ClientTakes
  <2>1. view.version \in Int /\ f.version \in Int
    BY <1>0, <1>1 DEF View
  <2>2. CASE f.version <= view.version
    <3>0. ~(f.version > view.version + 1)
      BY <2>1, <2>2
    <3>1. view' = view /\ opening' = opening
      BY <2>0, <2>2, <3>0 DEF ClientFollows
    <3> QED BY <3>1, <1>0, <1>5, <2>2
  <2>3. CASE f.version > view.version + 1
    <3>0. ~(f.version <= view.version)
      BY <2>1, <2>3
    <3>1. RequestSnapshot
      BY <2>0, <2>3, <3>0 DEF ClientFollows
    <3>2. CASE view.resub
      BY <3>1, <3>2, <1>0 DEF RequestSnapshot
    <3>3. CASE ~view.resub
      <4>1. opening' = TRUE /\ view' = [view EXCEPT !.resub = TRUE, !.phase = "subscribing"]
        BY <3>1, <3>3 DEF RequestSnapshot
      <4>2. opening' \in BOOLEAN
        BY <4>1, Zenon
      <4>3. view' \in View /\ view'.version = view.version /\ view'.resub
        BY <4>1, <1>0 DEF View
      <4> QED BY <4>2, <4>3
    <3> QED BY <3>2, <3>3
  <2>4. CASE ~(f.version <= view.version) /\ ~(f.version > view.version + 1)
    <3>1. view' = [view EXCEPT !.version = f.version, !.phase = "synced"] /\ opening' = opening
      BY <2>0, <2>4 DEF ClientFollows
    <3>2. view' \in View /\ view'.version = f.version
      BY <3>1, <1>0, <1>1 DEF View
    <3> QED BY <3>1, <3>2, <1>0, <1>5
  <2> QED BY <2>2, <2>3, <2>4
<1> QED BY <1>1, <1>2, <1>3, <1>4, <1>5

\* The last frame brings the client to the object's version, or leaves it asking or failed.
LEMMA ArriveKeeps == ASSUME FeedInv, FrameArrives PROVE FeedInv'
<1>0. /\ inHand # NoFrame /\ inHand' = NoFrame /\ ClientTakes(inHand)
      /\ UNCHANGED <<heldObj, objects, version, run, subs, frames, errors>>
  BY DEF FrameArrives
<1>1. inHand \in FrameType /\ inHand.kind \in {"snapshot", "delta", "commit", "error"}
  BY <1>0 DEF FeedInv, FrameTypes, FrameType
<1>2. /\ view' \in View /\ opening' \in BOOLEAN
      /\ \/ /\ view' = view /\ opening' = opening
            /\ \/ view.phase = "closed" \/ view.resub
               \/ inHand.kind \in {"delta", "commit"} /\ inHand.version <= view.version
         \/ /\ view'.version = view.version /\ view'.resub
         \/ /\ view'.version = inHand.version /\ inHand.kind # "error"
         \/ /\ view'.version = view.version /\ view'.phase = "error"
  BY <1>0, <1>1, ClientMoves
<1>3. FrameTypes'
  BY <1>0, <1>2 DEF FeedInv, FrameTypes, FeedTypeOK, View
<1>4. FutureIsBlank'
  BY <1>0 DEF FeedInv, FutureIsBlank
<1>5. NothingIsNewer'
  <2> SUFFICES ASSUME objects <= 1
               PROVE  /\ view'.version <= version[1] /\ inHand'.version <= version[1]
                      /\ \A i \in DOMAIN frames : frames[i].version <= version[1]
    BY <1>0 DEF NothingIsNewer
  <2>1. view.version <= version[1] /\ inHand.version <= version[1]
        /\ \A i \in DOMAIN frames : frames[i].version <= version[1]
    BY DEF FeedInv, NothingIsNewer
  <2>2. view'.version \in {view.version, inHand.version}
    BY <1>2
  <2>3. inHand'.version = 0
    BY <1>0 DEF NoFrame
  <2> QED BY <2>1, <2>2, <2>3, Facts
<1>6. LastIsNewest'
  <2> SUFFICES ASSUME objects = 1, subs = 1
               PROVE  /\ LastFrame'.kind \in {"snapshot", "delta", "commit"} =>
                           LastFrame'.version = version[1]
                      /\ LastFrame'.kind = "none" /\ view'.phase = "synced" /\ ~view'.resub
                           /\ ~opening' => view'.version = version[1]
    BY <1>0 DEF LastIsNewest
  <2>1. CASE frames # <<>>
    <3>1. LastFrame' = LastFrame /\ LastFrame = frames[Len(frames)]
      BY <2>1, <1>0 DEF LastFrame
    <3>2. LastFrame.kind # "none"
      BY <3>1, <2>1, Facts DEF FrameType
    <3> QED BY <3>1, <3>2 DEF FeedInv, LastIsNewest
  <2>2. CASE frames = <<>>
    <3>1. LastFrame' = NoFrame /\ LastFrame = inHand
      BY <2>2, <1>0 DEF LastFrame
    <3>2. inHand.kind # "error" => inHand.version = version[1]
      BY <3>1, <1>1 DEF FeedInv, LastIsNewest
    <3>3. view.version <= version[1]
      BY DEF FeedInv, NothingIsNewer
    <3>4. inHand.kind # "error" /\ inHand.version <= view.version => view.version = version[1]
      BY <3>2, <3>3, Facts
    <3>5. view'.phase = "synced" /\ ~view'.resub => view'.version = version[1]
      BY <3>2, <3>4, <1>2
    <3> QED BY <3>1, <3>5 DEF NoFrame
  <2> QED BY <2>1, <2>2
<1> QED BY <1>3, <1>4, <1>5, <1>6 DEF FeedInv

\* A client that opens the conversation waits for its snapshot.
LEMMA ClientOpenKeeps == ASSUME FeedInv, ClientOpens PROVE FeedInv'
<1>0. /\ view.phase = "closed" /\ RequestSnapshot
      /\ UNCHANGED <<heldObj, objects, version, run, subs, frames, inHand, errors>>
  BY DEF ClientOpens
<1>1. view \in View /\ opening \in BOOLEAN /\ TRUE \in BOOLEAN
  BY Zenon DEF FeedInv, FrameTypes, FeedTypeOK, View
<1>2. view' \in View /\ opening' \in BOOLEAN /\ view'.version = view.version /\ view'.resub
  <2>1. CASE view.resub
    BY <2>1, <1>0, <1>1 DEF RequestSnapshot
  <2>2. CASE ~view.resub
    <3>1. opening' = TRUE /\ view' = [view EXCEPT !.resub = TRUE, !.phase = "subscribing"]
      BY <2>2, <1>0 DEF RequestSnapshot
    <3>2. opening' \in BOOLEAN
      BY <3>1, Zenon
    <3>3. view' \in View /\ view'.version = view.version /\ view'.resub
      BY <3>1, <1>1 DEF View
    <3> QED BY <3>2, <3>3
  <2> QED BY <2>1, <2>2
<1>3. FrameTypes'
  BY <1>0, <1>2 DEF FeedInv, FrameTypes, FeedTypeOK, View
<1>4. FutureIsBlank'
  BY <1>0 DEF FeedInv, FutureIsBlank
<1>5. NothingIsNewer'
  BY <1>0, <1>2 DEF FeedInv, NothingIsNewer
<1>6. LastIsNewest'
  BY <1>0, <1>2 DEF FeedInv, LastIsNewest, LastFrame
<1> QED BY <1>3, <1>4, <1>5, <1>6 DEF FeedInv

\* A new socket begins without a subscription.
LEMMA ReconnectKeeps == ASSUME FeedInv, Reconnect PROVE FeedInv'
<1>0. /\ subs' = 0 /\ frames' = <<>> /\ inHand' = NoFrame /\ opening' = TRUE
      /\ view' = [view EXCEPT !.resub = TRUE, !.phase = "subscribing"]
      /\ UNCHANGED <<heldObj, objects, version, run, errors>>
  BY DEF Reconnect
<1>1. view \in View /\ TRUE \in BOOLEAN
  BY Zenon DEF FeedInv, FrameTypes, FeedTypeOK, View
<1>2. view' \in View /\ view'.version = view.version
  BY <1>0, <1>1 DEF View
<1>3. opening' \in BOOLEAN
  BY <1>0, Zenon
<1>4. frames' \in Seq(FrameType) /\ Len(frames') = 0 /\ DOMAIN frames' = {}
  BY <1>0, EmptySeq
<1>5. FrameTypes'
  <2>1. subs' \in 0..MaxObjects /\ Len(frames') <= QueueSize
    BY <1>0, <1>4, FeedAssumption
  <2> QED BY <2>1, <1>0, <1>2, <1>3, <1>4 DEF FeedInv, FrameTypes, FeedTypeOK, View
<1>6. FutureIsBlank'
  BY <1>0, Facts DEF FeedInv, FutureIsBlank
<1>7. NothingIsNewer'
  BY <1>0, <1>2, <1>4, Facts DEF FeedInv, NothingIsNewer, NoFrame
<1>8. LastIsNewest'
  BY <1>0 DEF LastIsNewest
<1> QED BY <1>5, <1>6, <1>7, <1>8 DEF FeedInv

-----------------------------------------------------------------------------

\* Every step keeps the invariant.
LEMMA FeedStep == FeedInv /\ [FeedNext]_feedVars => FeedInv'
<1> SUFFICES ASSUME FeedInv, [FeedNext]_feedVars PROVE FeedInv'
  OBVIOUS
<1>1. CASE UNCHANGED feedVars
  <2>1. UNCHANGED <<objects, version, subs, frames, inHand, opening, view, errors, heldObj, run>>
    BY <1>1 DEF feedVars
  <2>2. run \in [Objs -> {"idle", "streaming", "done"}] /\ \A p \in Objs : p > objects => run[p] = "idle"
    BY DEF FeedInv, FrameTypes, FeedTypeOK, FutureIsBlank
  <2> QED BY <2>1, <2>2, Facts, SilentKeeps
<1>2. CASE HandleOpen
  BY <1>2, OpenKeeps
<1>3. CASE HandleClose
  BY <1>3, CloseKeeps
<1>4. CASE HandleSend
  BY <1>4, SendKeeps
<1>5. CASE RunStarts
  BY <1>5, StartKeeps
<1>6. CASE DiscardObject
  BY <1>6, DiscardKeeps
<1>7. CASE \E o \in Objs : EmitDelta(o) \/ EmitCommit(o) \/ EmitError(o) \/ RunLeaves(o)
  BY <1>7, DeltaKeeps, CommitKeeps, ErrorKeeps, LeaveKeeps
<1>8. CASE TakeFrame
  BY <1>8, TakeKeeps
<1>9. CASE FrameArrives
  BY <1>9, ArriveKeeps
<1>10. CASE ClientOpens
  BY <1>10, ClientOpenKeeps
<1>11. CASE Reconnect
  BY <1>11, ReconnectKeeps
<1> QED BY <1>1, <1>2, <1>3, <1>4, <1>5, <1>6, <1>7, <1>8, <1>9, <1>10, <1>11 DEF FeedNext

\* The invariant holds in every state of every behaviour of the feed.
THEOREM FeedInvariant == FeedSpec => []FeedInv
BY FeedInitInv, FeedStep, PTL DEF FeedSpec

\* Every variable keeps its type, the frames in the queue and in the worker's hand included
\* (chat/listener.py, use-conversation-session.ts).
THEOREM FeedTypes == FeedSpec => []FeedTypeOK
<1>1. FeedInv => FeedTypeOK
  BY DEF FeedInv, FrameTypes
<1> QED BY <1>1, FeedInvariant, PTL

\* "Retain the newest version.  The resulting client-side gap triggers a snapshot."
\* (listener.py): for every size of the queue and every number of versions, failed runs and
\* broken sockets, a synced client of the id's first object to which nothing more is coming
\* shows the object's version.
THEOREM ClientCatchesUpAlways == FeedSpec => []ClientCatchesUp
<1>1. FeedInv => ClientCatchesUp
  BY DEF FeedInv, LastIsNewest, LastFrame, ClientCatchesUp, Quiet, NoFrame
<1> QED BY <1>1, FeedInvariant, PTL

-----------------------------------------------------------------------------
(* Dialogue: the messages of a history                                     *)

EntryType ==
  [kind : {"input"}, id : {0}, name : {"user", "developer"}]
    \cup [kind : {"text"}, id : {0}, name : {""}]
    \cup [kind : {"call"}, id : 1..MaxDialogueCalls, name : ToolNames]
    \cup [kind : {"result"}, id : 1..MaxDialogueCalls, name : {""}]

MessageType == [role : {"user", "developer", "tool", "assistant"}, calls : Seq(Nat)]

\* A set of natural numbers has a least one.
LEMMA LeastNat ==
  ASSUME NEW S, S \subseteq Nat, S # {}
  PROVE  \E n \in S : \A m \in S : n <= m
<1>1. \E n \in S : \A m \in S : <<m, n>> \notin OpToRel(<, Nat)
  BY NatLessThanWellFounded, WFMin
<1>2. \A m, n \in Nat : m < n => <<m, n>> \in OpToRel(<, Nat)
  BY DEF OpToRel
<1>3. \A m, n \in Nat : m < n \/ n <= m
  OBVIOUS
<1> QED BY <1>1, <1>2, <1>3

\* A set of numbers up to n that has 0 and the successor of each member below n has them all.
LEMMA CountUp ==
  ASSUME NEW n \in Nat, NEW P, 0 \in P, \A k \in 1..n : k - 1 \in P => k \in P
  PROVE  \A k \in 0..n : k \in P
<1> DEFINE Bad == {k \in 0..n : k \notin P}
<1> SUFFICES ASSUME Bad # {} PROVE FALSE
  OBVIOUS
<1>1. PICK k \in Bad : \A m \in Bad : k <= m
  <2>1. Bad \subseteq Nat
    OBVIOUS
  <2> HIDE DEF Bad
  <2> QED BY <2>1, LeastNat
<1>2. k # 0 /\ k \in Nat /\ k <= n
  BY <1>1
<1>3. k \in 1..n /\ k - 1 \in 0..n /\ k - 1 \notin Bad
  BY <1>1, <1>2
<1> QED BY <1>1, <1>3

\* What an entry adds to the messages.
LEMMA AddMessageAdds ==
  ASSUME NEW m \in Seq(MessageType), NEW e \in EntryType
  PROVE  /\ AddMessage(m, e) \in Seq(MessageType)
         /\ e.kind = "input" => AddMessage(m, e) = Append(m, Message(e.name, <<>>))
         /\ e.kind = "result" => AddMessage(m, e) = Append(m, Message("tool", <<e.id>>))
         /\ e.kind \in {"text", "call"} =>
              LET call == IF e.kind = "call" THEN <<e.id>> ELSE <<>> IN
              AddMessage(m, e) =
                IF Len(m) > 0 /\ m[Len(m)].role = "assistant"
                THEN [m EXCEPT ![Len(m)].calls = @ \o call]
                ELSE Append(m, Message("assistant", call))
<1> DEFINE call == IF e.kind = "call" THEN <<e.id>> ELSE <<>>
<1>1. e.id \in Nat /\ call \in Seq(Nat)
  <2>1. MaxDialogueCalls \in Nat
    BY DialogueAssumption
  <2>2. e.id \in {0} \cup (1..MaxDialogueCalls)
    BY DEF EntryType
  <2>3. e.id \in Nat
    BY <2>1, <2>2
  <2> QED BY <2>3
<1>2. CASE e.kind = "input"
  <2>1. AddMessage(m, e) = Append(m, Message(e.name, <<>>))
    BY <1>2 DEF AddMessage
  <2>2. Message(e.name, <<>>) \in MessageType
    <3>1. e.name \in {"user", "developer"}
      BY <1>2 DEF EntryType
    <3>2. <<>> \in Seq(Nat)
      OBVIOUS
    <3> QED BY <3>1, <3>2 DEF Message, MessageType
  <2> QED BY <1>2, <2>1, <2>2
<1>3. CASE e.kind = "result"
  <2>1. AddMessage(m, e) = Append(m, Message("tool", <<e.id>>))
    BY <1>3 DEF AddMessage
  <2>2. Message("tool", <<e.id>>) \in MessageType
    BY <1>1 DEF Message, MessageType
  <2> QED BY <1>3, <2>1, <2>2
<1>4. CASE e.kind \in {"text", "call"}
  <2>1. AddMessage(m, e) =
          IF Len(m) > 0 /\ m[Len(m)].role = "assistant"
          THEN [m EXCEPT ![Len(m)].calls = @ \o call]
          ELSE Append(m, Message("assistant", call))
    BY <1>4 DEF AddMessage
  <2>2. Message("assistant", call) \in MessageType
    BY <1>1 DEF Message, MessageType
  <2> HIDE DEF call
  <2>3. ASSUME Len(m) > 0 PROVE [m EXCEPT ![Len(m)].calls = @ \o call] \in Seq(MessageType)
    <3> DEFINE new == [m[Len(m)] EXCEPT !.calls = @ \o call]
    <3>1. Len(m) \in 1..Len(m) /\ m[Len(m)] \in MessageType
      BY <2>3
    <3>2. m[Len(m)].calls \o call \in Seq(Nat)
      BY <1>1, <3>1 DEF MessageType
    <3>3. new \in MessageType
      BY <3>1, <3>2 DEF MessageType
    <3>4. [m EXCEPT ![Len(m)].calls = @ \o call] = [m EXCEPT ![Len(m)] = new]
      OBVIOUS
    <3> HIDE DEF new
    <3> QED BY <3>1, <3>3, <3>4, ExceptSeq
  <2>4. AddMessage(m, e) \in Seq(MessageType)
    BY <2>1, <2>2, <2>3
  <2> QED BY <1>4, <2>1, <2>4 DEF call
<1>5. e.kind \in {"input", "text", "call", "result"}
  BY DEF EntryType
<1> QED BY <1>2, <1>3, <1>4, <1>5

\* f has the messages of every beginning of a history, up to its n-th entry.
Encodes(f, history, n) ==
  /\ f \in [0..n -> Seq(MessageType)] /\ f[0] = <<>>
  /\ \A k \in 1..n : f[k] = AddMessage(f[k - 1], history[k])

\* Any two such functions agree on what they have in common.
LEMMA EncodesOnce ==
  ASSUME NEW d, NEW e, NEW f, NEW g, NEW m \in Nat, NEW n \in Nat, m <= n,
         Encodes(f, d, m), Encodes(g, e, n), \A k \in 1..m : d[k] = e[k]
  PROVE  \A k \in 0..m : f[k] = g[k]
<1> DEFINE P == {k \in 0..m : f[k] = g[k]}
<1>1. 0 \in P
  BY DEF Encodes
<1>2. ASSUME NEW k \in 1..m, k - 1 \in P PROVE k \in P
  <2>1. k \in 1..n
    OBVIOUS
  <2> QED BY <1>2, <2>1 DEF Encodes
<1>3. \A k \in 0..m : k \in P
  <2> HIDE DEF P
  <2> QED BY <1>1, <1>2, CountUp
<1> QED BY <1>3

\* There is such a function for every history.
LEMMA EncodesExists ==
  ASSUME NEW d \in Seq(EntryType)
  PROVE  \E f : Encodes(f, d, Len(d))
<1> DEFINE P == {n \in 0..Len(d) : \E f : Encodes(f, d, n)}
<1>0. Len(d) \in Nat
  OBVIOUS
<1>1. 0 \in P
  <2>1. <<>> \in Seq(MessageType)
    OBVIOUS
  <2>2. Encodes([k \in 0..0 |-> <<>>], d, 0)
    BY <2>1 DEF Encodes
  <2> QED BY <1>0, <2>2
<1>2. ASSUME NEW n \in 1..Len(d), n - 1 \in P PROVE n \in P
  <2>1. PICK f : Encodes(f, d, n - 1)
    BY <1>2
  <2> DEFINE new == AddMessage(f[n - 1], d[n])
             g == [k \in 0..n |-> IF k = n THEN new ELSE f[k]]
  <2>2. f[n - 1] \in Seq(MessageType) /\ d[n] \in EntryType
    BY <2>1, <1>0 DEF Encodes
  <2>3. new \in Seq(MessageType)
    BY <2>2, AddMessageAdds
  <2> HIDE DEF new
  <2>4. g \in [0..n -> Seq(MessageType)] /\ g[0] = <<>>
    BY <1>0, <2>1, <2>3 DEF Encodes
  <2>5. ASSUME NEW k \in 1..n PROVE g[k] = AddMessage(g[k - 1], d[k])
    <3>1. k - 1 \in 0..n /\ k - 1 # n /\ g[k - 1] = f[k - 1]
      BY <1>0
    <3>2. CASE k = n
      BY <3>1, <3>2 DEF new
    <3>3. CASE k # n
      <4>1. k \in 1..(n - 1) /\ g[k] = f[k]
        BY <1>0, <3>3
      <4> QED BY <2>1, <3>1, <4>1 DEF Encodes
    <3> QED BY <3>2, <3>3
  <2>6. Encodes(g, d, n)
    BY <2>4, <2>5 DEF Encodes
  <2> QED BY <2>6
<1>3. Len(d) \in P
  <2> HIDE DEF P
  <2>1. \A k \in 0..Len(d) : k \in P
    BY <1>0, <1>1, <1>2, CountUp
  <2> QED BY <1>0, <2>1
<1> QED BY <1>3

\* MessagesUpTo is that function.
LEMMA UpToEncodes ==
  ASSUME NEW d \in Seq(EntryType)
  PROVE  Encodes(MessagesUpTo(d), d, Len(d))
<1> DEFINE Def(f) == [n \in 0..Len(d) |-> IF n = 0 THEN <<>> ELSE AddMessage(f[n - 1], d[n])]
           upTo == CHOOSE f : f = Def(f)
<1>0. Len(d) \in Nat
  OBVIOUS
<1>1. PICK f : Encodes(f, d, Len(d))
  BY EncodesExists
<1>2. ASSUME NEW n \in 0..Len(d) PROVE f[n] = Def(f)[n]
  <2>1. CASE n = 0
    BY <1>1, <2>1 DEF Encodes
  <2>2. CASE n # 0
    <3>1. n \in 1..Len(d)
      BY <1>0, <2>2
    <3> QED BY <1>1, <2>2, <3>1 DEF Encodes
  <2> QED BY <2>1, <2>2
<1>3. f = Def(f)
  BY <1>0, <1>1, <1>2 DEF Encodes
<1>4. upTo = Def(upTo)
  BY <1>3
<1>5. MessagesUpTo(d) = upTo
  BY DEF MessagesUpTo
<1> HIDE DEF upTo
<1>6. /\ DOMAIN upTo = 0..Len(d) /\ upTo = [n \in 0..Len(d) |-> upTo[n]]
      /\ upTo[0] = <<>>
      /\ \A n \in 1..Len(d) : upTo[n] = AddMessage(upTo[n - 1], d[n])
  <2>1. DOMAIN upTo = 0..Len(d) /\ upTo = [n \in 0..Len(d) |-> upTo[n]]
    BY <1>4
  <2>2. 0 \in 0..Len(d) /\ \A n \in 1..Len(d) : n \in 0..Len(d) /\ n # 0
    BY <1>0
  <2>3. \A n \in 0..Len(d) : upTo[n] = Def(upTo)[n]
    BY <1>4
  <2> QED BY <2>1, <2>2, <2>3
<1>7. \A n \in 0..Len(d) : upTo[n] = f[n]
  <2> DEFINE P == {n \in 0..Len(d) : upTo[n] = f[n]}
  <2>1. 0 \in P
    BY <1>0, <1>1, <1>6 DEF Encodes
  <2>2. ASSUME NEW n \in 1..Len(d), n - 1 \in P PROVE n \in P
    <3>1. upTo[n] = AddMessage(upTo[n - 1], d[n]) /\ f[n] = AddMessage(f[n - 1], d[n])
      BY <1>1, <1>6 DEF Encodes
    <3>2. upTo[n - 1] = f[n - 1]
      BY <2>2
    <3>3. n \in 0..Len(d)
      BY <1>0
    <3> QED BY <3>1, <3>2, <3>3
  <2>3. \A n \in 0..Len(d) : n \in P
    <3> HIDE DEF P
    <3> QED BY <1>0, <2>1, <2>2, CountUp
  <2> QED BY <2>3
<1>8. upTo \in [0..Len(d) -> Seq(MessageType)]
  BY <1>1, <1>6, <1>7 DEF Encodes
<1> QED BY <1>5, <1>6, <1>8 DEF Encodes
-----------------------------------------------------------------------------
(* Dialogue: what a commit adds to the messages                            *)

MessagesOf(history) == MessagesUpTo(history)[Len(history)]

\* The messages of a longer history come about from those of its beginning.
LEMMA MessagesGrow ==
  ASSUME NEW d \in Seq(EntryType), NEW x \in Seq(EntryType)
  PROVE  \E f \in [0..Len(x) -> Seq(MessageType)] :
           /\ f[0] = MessagesOf(d) /\ f[Len(x)] = MessagesOf(d \o x)
           /\ \A k \in 1..Len(x) : f[k] = AddMessage(f[k - 1], x[k])
<1> DEFINE y == d \o x
           u == MessagesUpTo(y)
           v == MessagesUpTo(d)
           f == [k \in 0..Len(x) |-> u[Len(d) + k]]
<1>1. /\ y \in Seq(EntryType) /\ Len(y) = Len(d) + Len(x)
      /\ Len(d) \in Nat /\ Len(x) \in Nat /\ Len(d) <= Len(d) + Len(x)
      /\ \A k \in 1..Len(d) : d[k] = y[k]
      /\ \A k \in 1..Len(x) : y[Len(d) + k] = x[k]
  OBVIOUS
<1>2. Encodes(u, y, Len(d) + Len(x)) /\ Encodes(v, d, Len(d))
  <2> HIDE DEF y
  <2> QED BY <1>1, UpToEncodes
<1> HIDE DEF u, v, y
<1>3. \A k \in 0..Len(d) : v[k] = u[k]
  <2> DEFINE m == Len(d)
             n == Len(d) + Len(x)
  <2>1. m \in Nat /\ n \in Nat /\ m <= n /\ Encodes(v, d, m) /\ Encodes(u, y, n)
        /\ \A k \in 1..m : d[k] = y[k]
    BY <1>1, <1>2
  <2> HIDE DEF m, n
  <2>2. \A k \in 0..m : v[k] = u[k]
    BY <2>1, EncodesOnce
  <2> QED BY <2>2 DEF m
<1>4. f \in [0..Len(x) -> Seq(MessageType)]
  BY <1>1, <1>2 DEF Encodes
<1>5. f[0] = MessagesOf(d) /\ f[Len(x)] = MessagesOf(d \o x)
  BY <1>1, <1>3 DEF MessagesOf, u, v, y
<1>6. ASSUME NEW k \in 1..Len(x) PROVE f[k] = AddMessage(f[k - 1], x[k])
  <2> DEFINE p == Len(d) + k
  <2>1. p \in 1..(Len(d) + Len(x)) /\ p - 1 = Len(d) + (k - 1)
        /\ k \in 0..Len(x) /\ k - 1 \in 0..Len(x)
    BY <1>1
  <2>2. y[p] = x[k] /\ f[k] = u[p] /\ f[k - 1] = u[p - 1]
    BY <1>1, <2>1
  <2> HIDE DEF p, f
  <2>3. u[p] = AddMessage(u[p - 1], y[p])
    BY <1>2, <2>1 DEF Encodes
  <2> QED BY <2>2, <2>3
<1> HIDE DEF f
<1> QED BY <1>4, <1>5, <1>6 DEF y

\* An input and a result are a message of their own.
Alone(e) == IF e.kind = "input" THEN Message(e.name, <<>>) ELSE Message("tool", <<e.id>>)

\* Inputs and results become one message each.
LEMMA AddAlone ==
  ASSUME NEW d \in Seq(EntryType), NEW x \in Seq(EntryType),
         \A k \in 1..Len(x) : x[k].kind \in {"input", "result"}
  PROVE  LET m == MessagesOf(d)
             n == MessagesOf(d \o x)
         IN /\ m \in Seq(MessageType) /\ n \in Seq(MessageType) /\ Len(n) = Len(m) + Len(x)
            /\ \A k \in 1..Len(m) : n[k] = m[k]
            /\ \A k \in 1..Len(x) : n[Len(m) + k] = Alone(x[k])
<1> DEFINE m == MessagesOf(d)
           n == MessagesOf(d \o x)
<1>1. PICK f \in [0..Len(x) -> Seq(MessageType)] :
           /\ f[0] = m /\ f[Len(x)] = n
           /\ \A k \in 1..Len(x) : f[k] = AddMessage(f[k - 1], x[k])
  BY MessagesGrow
<1>0. Len(x) \in Nat /\ m \in Seq(MessageType) /\ n \in Seq(MessageType)
  <2>1. Len(x) \in Nat
    OBVIOUS
  <2>2. 0 \in 0..Len(x) /\ Len(x) \in 0..Len(x)
    BY <2>1
  <2> HIDE DEF m, n
  <2> QED BY <1>1, <2>1, <2>2
<1> DEFINE Grown(k) == /\ Len(f[k]) = Len(m) + k
                       /\ \A i \in 1..Len(m) : f[k][i] = m[i]
                       /\ \A i \in 1..k : f[k][Len(m) + i] = Alone(x[i])
           P == {k \in 0..Len(x) : Grown(k)}
<1>2. 0 \in P
  BY <1>0, <1>1
<1>3. ASSUME NEW k \in 1..Len(x), k - 1 \in P PROVE k \in P
  <2>1. k \in Nat /\ k \in 0..Len(x) /\ k - 1 \in 0..Len(x) /\ Grown(k - 1)
    BY <1>0, <1>3
  <2>2. x[k] \in EntryType /\ f[k - 1] \in Seq(MessageType)
    BY <2>1
  <2>3. f[k] = Append(f[k - 1], Alone(x[k]))
    BY <1>1, <2>2, AddMessageAdds DEF Alone
  <2>4. /\ Len(f[k]) = Len(f[k - 1]) + 1
        /\ f[k][Len(f[k - 1]) + 1] = Alone(x[k])
        /\ \A i \in 1..Len(f[k - 1]) : f[k][i] = f[k - 1][i]
    BY <2>2, <2>3
  <2>5. Len(m) \in Nat
    BY <1>0
  <2>6. Len(f[k]) = Len(m) + k
    BY <2>1, <2>4, <2>5
  <2>7. ASSUME NEW i \in 1..Len(m) PROVE f[k][i] = m[i]
    <3>1. i \in 1..Len(f[k - 1])
      BY <2>1, <2>5
    <3> QED BY <2>1, <2>4, <3>1
  <2>8. ASSUME NEW i \in 1..k PROVE f[k][Len(m) + i] = Alone(x[i])
    <3>1. CASE i = k
      BY <2>1, <2>4, <2>5, <3>1
    <3>2. CASE i # k
      <4>1. i \in 1..(k - 1) /\ Len(m) + i \in 1..Len(f[k - 1])
        BY <2>1, <2>5, <3>2
      <4> QED BY <2>1, <2>4, <4>1
    <3> QED BY <3>1, <3>2
  <2> QED BY <2>1, <2>6, <2>7, <2>8
<1>4. Grown(Len(x))
  <2>1. \A k \in 0..Len(x) : k \in P
    <3> HIDE DEF P
    <3> QED BY <1>0, <1>2, <1>3, CountUp
  <2>2. Len(x) \in P
    BY <1>0, <2>1
  <2> QED BY <2>2
<1> QED BY <1>0, <1>1, <1>4

\* Calls behind a message that is not the assistant's are one message.
LEMMA AddCalls ==
  ASSUME NEW d \in Seq(EntryType), NEW x \in Seq(EntryType), x # <<>>,
         \A k \in 1..Len(x) : x[k].kind = "call",
         MessagesOf(d) # <<>>, MessagesOf(d)[Len(MessagesOf(d))].role # "assistant"
  PROVE  MessagesOf(d \o x) =
           Append(MessagesOf(d), Message("assistant", [k \in 1..Len(x) |-> x[k].id]))
<1> DEFINE m == MessagesOf(d)
           n == MessagesOf(d \o x)
           Ends(k) == Message("assistant", [i \in 1..k |-> x[i].id])
<1>1. PICK f \in [0..Len(x) -> Seq(MessageType)] :
           /\ f[0] = m /\ f[Len(x)] = n
           /\ \A k \in 1..Len(x) : f[k] = AddMessage(f[k - 1], x[k])
  BY MessagesGrow
<1>0. Len(x) \in Nat /\ Len(x) > 0 /\ m \in Seq(MessageType) /\ n \in Seq(MessageType)
      /\ Len(m) \in Nat /\ Len(m) > 0
  <2>1. Len(x) \in Nat /\ Len(x) > 0 /\ m # <<>>
    OBVIOUS
  <2>2. 0 \in 0..Len(x) /\ Len(x) \in 0..Len(x)
    BY <2>1
  <2> HIDE DEF m, n
  <2>3. m \in Seq(MessageType) /\ n \in Seq(MessageType)
    BY <1>1, <2>2
  <2> QED BY <2>1, <2>3, EmptySeq
<1>2. m[Len(m)].role # "assistant"
  OBVIOUS
<1> HIDE DEF m, n
<1>a. \A k \in 1..Len(x) : x[k].id \in Nat
  <2>1. MaxDialogueCalls \in Nat
    BY DialogueAssumption
  <2>2. \A k \in 1..Len(x) : x[k] \in EntryType
    OBVIOUS
  <2>3. \A e \in EntryType : e.id \in {0} \cup (1..MaxDialogueCalls)
    BY DEF EntryType
  <2> QED BY <2>1, <2>2, <2>3
<1>b. \A k \in 0..Len(x) : /\ [i \in 1..k |-> x[i].id] \in Seq(Nat) /\ Ends(k) \in MessageType
                          /\ Len([i \in 1..k |-> x[i].id]) = k
  <2> SUFFICES ASSUME NEW k \in 0..Len(x)
               PROVE  [i \in 1..k |-> x[i].id] \in Seq(Nat) /\ Ends(k) \in MessageType
                      /\ Len([i \in 1..k |-> x[i].id]) = k
    OBVIOUS
  <2>1. \A i \in 1..k : x[i].id \in Nat
    BY <1>0, <1>a
  <2>2. [i \in 1..k |-> x[i].id] \in Seq(Nat) /\ Len([i \in 1..k |-> x[i].id]) = k
    BY <1>0, <2>1
  <2> QED BY <2>2 DEF Message, MessageType
<1> DEFINE P == {k \in 0..Len(x) : k # 0 => f[k] = Append(m, Ends(k))}
<1>3. 0 \in P
  BY <1>0
<1>4. ASSUME NEW k \in 1..Len(x), k - 1 \in P PROVE k \in P
  <2>1. k \in Nat /\ k \in 0..Len(x) /\ k - 1 \in 0..Len(x) /\ x[k] \in EntryType
        /\ f[k - 1] \in Seq(MessageType) /\ x[k].kind = "call"
    <3>1. k \in Nat /\ k \in 0..Len(x) /\ k - 1 \in 0..Len(x)
      BY <1>0
    <3>2. x[k] \in EntryType
      OBVIOUS
    <3> HIDE DEF P
    <3> QED BY <3>1, <3>2
  <2>2. f[k] = IF Len(f[k - 1]) > 0 /\ f[k - 1][Len(f[k - 1])].role = "assistant"
               THEN [f[k - 1] EXCEPT ![Len(f[k - 1])].calls = @ \o <<x[k].id>>]
               ELSE Append(f[k - 1], Message("assistant", <<x[k].id>>))
    BY <1>1, <2>1, AddMessageAdds
  <2>3. CASE k = 1
    <3>1. f[1] = Append(m, Message("assistant", <<x[1].id>>))
      BY <1>0, <1>1, <1>2, <2>2, <2>3
    <3>2. <<x[1].id>> = [i \in 1..1 |-> x[i].id]
      OBVIOUS
    <3> QED BY <2>1, <2>3, <3>1, <3>2
  <2>4. CASE k # 1
    <3>1. k - 1 \in Nat /\ k - 1 # 0 /\ f[k - 1] = Append(m, Ends(k - 1))
      BY <1>4, <2>1, <2>4
    <3>2. /\ Len(f[k - 1]) = Len(m) + 1 /\ f[k - 1][Len(m) + 1] = Ends(k - 1)
          /\ \A i \in 1..Len(m) : f[k - 1][i] = m[i]
      BY <1>0, <1>b, <2>1, <3>1
    <3>3. Ends(k - 1).role = "assistant" /\ Ends(k - 1).calls = [i \in 1..(k - 1) |-> x[i].id]
      BY DEF Message
    <3>4. f[k] = [f[k - 1] EXCEPT ![Len(m) + 1].calls = @ \o <<x[k].id>>]
      BY <1>0, <2>2, <3>2, <3>3
    <3>5. [i \in 1..(k - 1) |-> x[i].id] \o <<x[k].id>> = [i \in 1..k |-> x[i].id]
      <4> DEFINE s == [i \in 1..(k - 1) |-> x[i].id]
                 t == [i \in 1..k |-> x[i].id]
      <4>1. s \in Seq(Nat) /\ t \in Seq(Nat) /\ Len(s) = k - 1 /\ Len(t) = k /\ x[k].id \in Nat
        BY <1>a, <1>b, <2>1
      <4>2. /\ s \o <<x[k].id>> \in Seq(Nat) /\ Len(s \o <<x[k].id>>) = k
            /\ \A i \in 1..k : (s \o <<x[k].id>>)[i] = IF i <= k - 1 THEN s[i] ELSE x[k].id
        <5> HIDE DEF s, t
        <5>1. <<x[k].id>> \in Seq(Nat) /\ Len(<<x[k].id>>) = 1 /\ <<x[k].id>>[1] = x[k].id
          BY <4>1
        <5>2. \A i \in 1..k : i <= k - 1 \/ i - (k - 1) = 1
          BY <2>1
        <5> QED BY <2>1, <4>1, <5>1, <5>2, ConcatProperties
      <4>3. \A i \in 1..k : (s \o <<x[k].id>>)[i] = t[i]
        <5>1. \A i \in 1..k : i \in 1..(k - 1) \/ (i = k /\ ~(i <= k - 1))
          BY <2>1
        <5>2. \A i \in 1..(k - 1) : s[i] = x[i].id /\ i <= k - 1 /\ i \in 1..k
          BY <2>1
        <5>3. \A i \in 1..k : t[i] = x[i].id
          OBVIOUS
        <5> HIDE DEF s, t
        <5> QED BY <4>2, <5>1, <5>2, <5>3
      <4> HIDE DEF s, t
      <4>4. s \o <<x[k].id>> = t
        BY <4>1, <4>2, <4>3, SeqEqual
      <4> QED BY <4>4 DEF s, t
    <3>6. [Ends(k - 1) EXCEPT !.calls = @ \o <<x[k].id>>] = Ends(k)
      <4> DEFINE s == [i \in 1..(k - 1) |-> x[i].id]
                 t == [i \in 1..k |-> x[i].id]
      <4>1. s \o <<x[k].id>> = t
        BY <3>5
      <4> HIDE DEF s, t
      <4>2. [Message("assistant", s) EXCEPT !.calls = @ \o <<x[k].id>>] = Message("assistant", t)
        <5>1. ASSUME NEW a, NEW b
              PROVE  [Message("assistant", a) EXCEPT !.calls = b] = Message("assistant", b)
          BY DEF Message
        <5>2. [Message("assistant", s) EXCEPT !.calls = @ \o <<x[k].id>>]
                = [Message("assistant", s) EXCEPT !.calls = s \o <<x[k].id>>]
          BY DEF Message
        <5> QED BY <4>1, <5>1, <5>2
      <4> QED BY <4>2 DEF s, t
    <3>7. f[k] = [f[k - 1] EXCEPT ![Len(m) + 1] = Ends(k)]
      BY <1>0, <2>1, <3>2, <3>4, <3>6
    <3>8. Ends(k) \in MessageType /\ Len(m) + 1 \in 1..Len(f[k - 1])
      BY <1>0, <1>b, <2>1, <3>2
    <3> HIDE DEF Ends
    <3>9. /\ f[k] \in Seq(MessageType) /\ Len(f[k]) = Len(m) + 1
          /\ \A i \in 1..(Len(m) + 1) : f[k][i] = IF i = Len(m) + 1 THEN Ends(k) ELSE f[k - 1][i]
      BY <2>1, <3>2, <3>7, <3>8, ExceptSeq
    <3>10. /\ Append(m, Ends(k)) \in Seq(MessageType) /\ Len(Append(m, Ends(k))) = Len(m) + 1
           /\ \A i \in 1..(Len(m) + 1) :
                Append(m, Ends(k))[i] = IF i = Len(m) + 1 THEN Ends(k) ELSE m[i]
      BY <1>0, <3>8
    <3>11. \A i \in 1..Len(f[k]) : f[k][i] = Append(m, Ends(k))[i]
      <4>1. \A i \in 1..(Len(m) + 1) : i = Len(m) + 1 \/ i \in 1..Len(m)
        BY <1>0
      <4> QED BY <3>2, <3>9, <3>10, <4>1
    <3>12. f[k] = Append(m, Ends(k))
      BY <3>9, <3>10, <3>11, SeqEqual
    <3> QED BY <2>1, <3>12
  <2> QED BY <2>3, <2>4
<1>5. Len(x) \in P
  <2>1. \A k \in 0..Len(x) : k \in P
    <3> HIDE DEF P
    <3> QED BY <1>0, <1>3, <1>4, CountUp
  <2> HIDE DEF P
  <2> QED BY <1>0, <2>1
<1>6. n = Append(m, Ends(Len(x)))
  BY <1>0, <1>1, <1>5
<1> QED BY <1>6 DEF m, n

\* A text behind a message that is not the assistant's is a message without calls.
LEMMA AddText ==
  ASSUME NEW d \in Seq(EntryType), NEW x \in EntryType, x.kind = "text",
         MessagesOf(d) # <<>>, MessagesOf(d)[Len(MessagesOf(d))].role # "assistant"
  PROVE  MessagesOf(d \o <<x>>) = Append(MessagesOf(d), Message("assistant", <<>>))
<1>0. <<x>> \in Seq(EntryType) /\ Len(<<x>>) = 1 /\ <<x>>[1] = x
  OBVIOUS
<1>1. PICK f \in [0..1 -> Seq(MessageType)] :
           /\ f[0] = MessagesOf(d) /\ f[1] = MessagesOf(d \o <<x>>)
           /\ f[1] = AddMessage(f[0], x)
  <2>1. PICK f \in [0..Len(<<x>>) -> Seq(MessageType)] :
           /\ f[0] = MessagesOf(d) /\ f[Len(<<x>>)] = MessagesOf(d \o <<x>>)
           /\ \A k \in 1..Len(<<x>>) : f[k] = AddMessage(f[k - 1], <<x>>[k])
    BY <1>0, MessagesGrow
  <2>2. f[1] = AddMessage(f[0], <<x>>[1])
    BY <1>0, <2>1
  <2> QED BY <1>0, <2>1, <2>2
<1>2. f[0] \in Seq(MessageType)
  BY <1>1
<1> QED BY <1>1, <1>2, AddMessageAdds
-----------------------------------------------------------------------------
(* Dialogue: the invariant                                                 *)

CallType == [id : 1..MaxDialogueCalls, name : ToolNames]

DialogueTypes ==
  /\ DialogueTypeOK
  /\ dialogue \in Seq(EntryType) /\ group \in Seq(CallType)

\* Calls are numbered in the order of their steps, and only calls have results.
CallsAreNumbered ==
  /\ Cardinality(Called) \in Nat /\ Called = 1..Cardinality(Called)
  /\ Answered \subseteq Called

\* The calls of a group are distinct and have no result before the group's commit, which
\* closes the group.
GroupIsOpen ==
  /\ \A i, j \in DOMAIN group : group[i].id = group[j].id => i = j
  /\ \A i \in DOMAIN group : group[i].id \in Called \ Answered
  /\ group = <<>> <=> step \in {"idle", "llm"}

\* A message of a tool is a result of the history, and one of the assistant has its calls.
MessagesTell ==
  /\ \A k \in DOMAIN Messages : Messages[k].role = "tool" =>
       \E c \in Answered : Messages[k].calls = <<c>>
  /\ \A k \in DOMAIN Messages : Messages[k].role = "assistant" =>
       \A j \in DOMAIN Messages[k].calls : Messages[k].calls[j] \in Called

\* A request ends with an input or a result; while a group is under way it is the last message.
LastMessage ==
  /\ step = "llm" => Messages # <<>> /\ Messages[Len(Messages)].role # "assistant"
  /\ step \in {"tools", "rejected"} =>
       /\ Messages # <<>>
       /\ Messages[Len(Messages)] = Message("assistant", [k \in 1..Len(group) |-> group[k].id])

\* The j-th call of message i has its result j messages later, and once.
AnsweredBehind(m, i, j) ==
  /\ i + j <= Len(m)
  /\ m[i + j] = Message("tool", <<m[i].calls[j]>>)
  /\ \A k \in DOMAIN m : m[k] = m[i + j] => k = i + j

\* The calls of the last message whose results are still to come: those of the group under
\* way, or the one question that pends.
Due(m, i, j) ==
  /\ i = Len(m)
  /\ \/ step \in {"tools", "rejected"}
     \/ step = "idle" /\ m[i].calls = <<Pending>>

Paired ==
  \A i \in DOMAIN Messages : \A j \in DOMAIN Messages[i].calls :
    Messages[i].role = "assistant" /\ Messages[i].calls[j] \notin unsettled =>
      AnsweredBehind(Messages, i, j) \/ Due(Messages, i, j)

DialogueInv ==
  DialogueTypes /\ CallsAreNumbered /\ GroupIsOpen /\ MessagesTell /\ LastMessage /\ Paired

-----------------------------------------------------------------------------

\* What the proofs use of the messages.
LEMMA MessagesAre ==
  ASSUME DialogueTypes
  PROVE  /\ Messages = MessagesOf(dialogue) /\ Messages \in Seq(MessageType)
         /\ Len(Messages) \in Nat /\ DOMAIN Messages = 1..Len(Messages)
         /\ \A i \in DOMAIN Messages : Messages[i] \in MessageType
<1>1. dialogue \in Seq(EntryType)
  BY DEF DialogueTypes
<1>2. Encodes(MessagesUpTo(dialogue), dialogue, Len(dialogue))
  BY <1>1, UpToEncodes
<1>3. Len(dialogue) \in 0..Len(dialogue)
  BY <1>1
<1>4. Messages = MessagesOf(dialogue)
  BY DEF Messages, MessagesOf
<1>5. Messages \in Seq(MessageType)
  BY <1>2, <1>3, <1>4 DEF Encodes, MessagesOf
<1> QED BY <1>4, <1>5

\* The greatest of a set of numbers up to n is in it; when n is one of them, it is n.
LEMMA MaxIs ==
  ASSUME NEW n \in Nat, NEW S \in SUBSET (1..n), S # {}
  PROVE  Max(S) \in S /\ (n \in S => Max(S) = n)
<1> DEFINE Above == {m \in Nat : \A y \in S : y <= m}
<1>1. n \in Above /\ Above \subseteq Nat
  OBVIOUS
<1>2. PICK m \in Above : \A k \in Above : m <= k
  <2> HIDE DEF Above
  <2> QED BY <1>1, LeastNat
<1>3. m \in S
  <2> SUFFICES ASSUME m \notin S PROVE FALSE
    OBVIOUS
  <2>1. m \in Nat /\ \A y \in S : y \in Nat /\ y <= m /\ y # m
    BY <1>2
  <2>2. m # 0
    <3>1. PICK y \in S : TRUE
      OBVIOUS
    <3>2. y \in 1..n /\ y <= m
      BY <2>1
    <3> QED BY <2>1, <3>2
  <2>3. m - 1 \in Above
    BY <2>1, <2>2
  <2> QED BY <1>2, <2>1, <2>3
<1>4. \A y \in S : m >= y
  BY <1>2
<1>5. Max(S) \in S /\ \A y \in S : Max(S) >= y
  BY <1>3, <1>4 DEF Max
<1>6. ASSUME n \in S PROVE Max(S) = n
  <2>1. Max(S) \in 1..n /\ Max(S) >= n
    BY <1>5, <1>6
  <2> QED BY <2>1
<1> QED BY <1>5, <1>6

\* A pending question is a call without a result.
LEMMA PendingIsOpen ==
  ASSUME DialogueTypes
  PROVE  /\ Pending = 0 \/ Pending \in Called \ Answered
         /\ OpenQuestions # {} => Pending \in Called \ Answered
         /\ Len(dialogue) \in OpenQuestions => Pending = dialogue[Len(dialogue)].id
<1>1. Len(dialogue) \in Nat /\ DOMAIN dialogue = 1..Len(dialogue)
  BY DEF DialogueTypes
<1>2. OpenQuestions \in SUBSET (1..Len(dialogue))
  BY <1>1 DEF OpenQuestions, Entries
<1>3. ASSUME OpenQuestions # {}
      PROVE  /\ Max(OpenQuestions) \in OpenQuestions
             /\ Len(dialogue) \in OpenQuestions => Max(OpenQuestions) = Len(dialogue)
  BY <1>1, <1>2, <1>3, MaxIs
<1>4. ASSUME NEW q \in OpenQuestions PROVE dialogue[q].id \in Called \ Answered
  BY DEF OpenQuestions, Called
<1>5. Pending = IF OpenQuestions = {} THEN 0 ELSE dialogue[Max(OpenQuestions)].id
  BY DEF Pending
<1> QED BY <1>3, <1>4, <1>5

\* The numbers of calls are positive, and those of a history within the bound.
LEMMA CalledAre ==
  ASSUME DialogueTypes
  PROVE  Called \subseteq 1..MaxDialogueCalls /\ 0 \notin Called /\ Called \subseteq Nat
<1>1. MaxDialogueCalls \in Nat
  BY DialogueAssumption
<1>2. \A i \in DOMAIN dialogue : dialogue[i] \in EntryType
  BY DEF DialogueTypes
<1>3. \A e \in EntryType : e.kind = "call" => e.id \in 1..MaxDialogueCalls
  BY DEF EntryType
<1>4. Called \subseteq 1..MaxDialogueCalls
  BY <1>2, <1>3 DEF Called, Entries
<1> QED BY <1>1, <1>4

\* Appended entries add their calls and results.
LEMMA EntriesGrow ==
  ASSUME DialogueTypes, NEW x \in Seq(EntryType), dialogue' = dialogue \o x
  PROVE  /\ dialogue' \in Seq(EntryType) /\ Len(dialogue') = Len(dialogue) + Len(x)
         /\ \A k \in 1..Len(x) : dialogue'[Len(dialogue) + k] = x[k]
         /\ \A k \in 1..Len(dialogue) : dialogue'[k] = dialogue[k]
         /\ Called' = Called \cup {x[k].id : k \in {j \in 1..Len(x) : x[j].kind = "call"}}
         /\ Answered' = Answered \cup {x[k].id : k \in {j \in 1..Len(x) : x[j].kind = "result"}}
<1> DEFINE d == dialogue
           e == dialogue'
<1>1. /\ d \in Seq(EntryType) /\ e \in Seq(EntryType) /\ Len(d) \in Nat /\ Len(x) \in Nat
      /\ Len(e) = Len(d) + Len(x)
      /\ \A i \in 1..(Len(d) + Len(x)) : e[i] = IF i <= Len(d) THEN d[i] ELSE x[i - Len(d)]
  <2>1. d \in Seq(EntryType)
    BY DEF DialogueTypes
  <2>2. e = d \o x
    OBVIOUS
  <2> HIDE DEF d, e
  <2> QED BY <2>1, <2>2, ConcatProperties
<1>2. DOMAIN d = 1..Len(d) /\ DOMAIN e = 1..(Len(d) + Len(x))
  BY <1>1
<1> HIDE DEF d, e
<1>3. \A k \in 1..Len(x) : Len(d) + k \in DOMAIN e /\ e[Len(d) + k] = x[k]
  <2> SUFFICES ASSUME NEW k \in 1..Len(x) PROVE Len(d) + k \in DOMAIN e /\ e[Len(d) + k] = x[k]
    OBVIOUS
  <2>1. Len(d) + k \in 1..(Len(d) + Len(x)) /\ ~(Len(d) + k <= Len(d)) /\ Len(d) + k - Len(d) = k
    BY <1>1
  <2> QED BY <1>1, <1>2, <2>1
<1>4. \A k \in DOMAIN d : k \in DOMAIN e /\ e[k] = d[k]
  <2> SUFFICES ASSUME NEW k \in DOMAIN d PROVE k \in DOMAIN e /\ e[k] = d[k]
    OBVIOUS
  <2>1. k \in 1..(Len(d) + Len(x)) /\ k <= Len(d)
    BY <1>1, <1>2
  <2> QED BY <1>1, <1>2, <2>1
<1>5. \A i \in DOMAIN e : i \in DOMAIN d \/ \E k \in 1..Len(x) : i = Len(d) + k
  <2> SUFFICES ASSUME NEW i \in DOMAIN e, i \notin DOMAIN d PROVE \E k \in 1..Len(x) : i = Len(d) + k
    OBVIOUS
  <2>a. i \in 1..(Len(d) + Len(x)) /\ i \notin 1..Len(d)
    BY <1>2
  <2>b. Len(d) \in Nat /\ Len(x) \in Nat
    BY <1>1
  <2>1. i - Len(d) \in 1..Len(x) /\ i = Len(d) + (i - Len(d))
    BY <2>a, <2>b
  <2> QED BY <2>1
<1>6. ASSUME NEW kind
      PROVE  {e[i].id : i \in {j \in DOMAIN e : e[j].kind = kind}}
               = {d[i].id : i \in {j \in DOMAIN d : d[j].kind = kind}}
                   \cup {x[k].id : k \in {j \in 1..Len(x) : x[j].kind = kind}}
  <2> DEFINE E == {e[i].id : i \in {j \in DOMAIN e : e[j].kind = kind}}
             D == {d[i].id : i \in {j \in DOMAIN d : d[j].kind = kind}}
             X == {x[k].id : k \in {j \in 1..Len(x) : x[j].kind = kind}}
  <2>1. D \subseteq E
    BY <1>4
  <2>2. X \subseteq E
    BY <1>3
  <2>3. ASSUME NEW c \in E PROVE c \in D \/ c \in X
    <3>1. PICK i \in DOMAIN e : e[i].kind = kind /\ e[i].id = c
      OBVIOUS
    <3>2. CASE i \in DOMAIN d
      BY <1>4, <3>1, <3>2
    <3>3. CASE i \notin DOMAIN d
      <4>1. PICK k \in 1..Len(x) : i = Len(d) + k
        BY <1>5, <3>3
      <4>2. x[k].kind = kind /\ x[k].id = c
        BY <1>3, <3>1, <4>1
      <4> QED BY <4>2
    <3> QED BY <3>2, <3>3
  <2> HIDE DEF D, E, X
  <2>4. E = D \cup X
    BY <2>1, <2>2, <2>3
  <2> QED BY <2>4 DEF D, E, X
<1>7. /\ Called = {d[i].id : i \in {j \in DOMAIN d : d[j].kind = "call"}}
      /\ Answered = {d[i].id : i \in {j \in DOMAIN d : d[j].kind = "result"}}
      /\ Called' = {e[i].id : i \in {j \in DOMAIN e : e[j].kind = "call"}}
      /\ Answered' = {e[i].id : i \in {j \in DOMAIN e : e[j].kind = "result"}}
  BY DEF Called, Answered, Entries, d, e
<1>8. /\ Called' = Called \cup {x[k].id : k \in {j \in 1..Len(x) : x[j].kind = "call"}}
      /\ Answered' = Answered \cup {x[k].id : k \in {j \in 1..Len(x) : x[j].kind = "result"}}
  BY <1>6, <1>7
<1> QED BY <1>1, <1>2, <1>3, <1>4, <1>8 DEF d, e

\* A pair of call and result stays one behind messages of other results.
LEMMA BehindKept ==
  ASSUME NEW m \in Seq(MessageType), NEW n \in Seq(MessageType), Len(m) <= Len(n),
         \A k \in 1..Len(m) : n[k] = m[k],
         NEW i \in 1..Len(m), NEW j \in Nat, AnsweredBehind(m, i, j),
         \A k \in (Len(m) + 1)..Len(n) : n[k] # Message("tool", <<m[i].calls[j]>>)
  PROVE  AnsweredBehind(n, i, j)
<1>1. Len(m) \in Nat /\ Len(n) \in Nat /\ DOMAIN m = 1..Len(m) /\ DOMAIN n = 1..Len(n)
  OBVIOUS
<1>2. i + j \in 1..Len(m) /\ n[i + j] = m[i + j] /\ n[i] = m[i] /\ i + j <= Len(n)
  BY <1>1 DEF AnsweredBehind
<1>3. n[i + j] = Message("tool", <<n[i].calls[j]>>)
  BY <1>2 DEF AnsweredBehind
<1>4. ASSUME NEW k \in DOMAIN n, n[k] = n[i + j] PROVE k = i + j
  <2>1. k \notin (Len(m) + 1)..Len(n)
    BY <1>2, <1>3, <1>4
  <2>2. k \in 1..Len(m)
    BY <1>1, <2>1
  <2> QED BY <1>1, <1>2, <1>4, <2>2 DEF AnsweredBehind
<1> QED BY <1>2, <1>3, <1>4 DEF AnsweredBehind

\* The invariant as the proofs of the steps use it.
LEMMA InvGives ==
  ASSUME DialogueInv
  PROVE  /\ DialogueTypes /\ CallsAreNumbered /\ GroupIsOpen /\ MessagesTell /\ LastMessage /\ Paired
         /\ dialogue \in Seq(EntryType)
  BY DEF DialogueInv, DialogueTypes

\* A commit of inputs and of results: each is a message, the last one too.
LEMMA AloneStep ==
  ASSUME DialogueInv, NEW x \in Seq(EntryType), x # <<>>, dialogue' = dialogue \o x,
         \A k \in 1..Len(x) : x[k].kind \in {"input", "result"},
         \A k \in 1..Len(x) : x[k].kind = "result" => x[k].id \in Called \ Answered
  PROVE  /\ dialogue' \in Seq(EntryType) /\ CallsAreNumbered' /\ MessagesTell'
         /\ Called' = Called
         /\ Answered' = Answered \cup {x[k].id : k \in {j \in 1..Len(x) : x[j].kind = "result"}}
         /\ Messages' \in Seq(MessageType) /\ Len(Messages') = Len(Messages) + Len(x)
         /\ \A k \in 1..Len(Messages) : Messages'[k] = Messages[k]
         /\ \A k \in 1..Len(x) : Messages'[Len(Messages) + k] = Alone(x[k])
         /\ Messages' # <<>> /\ Messages'[Len(Messages')].role # "assistant"
         /\ \A i \in 1..Len(Messages) : \A j \in DOMAIN Messages[i].calls :
              AnsweredBehind(Messages, i, j) /\ Messages[i].role = "assistant"
                => AnsweredBehind(Messages', i, j)
<1> DEFINE m == Messages
           n == Messages'
<1>1. /\ DialogueTypes /\ CallsAreNumbered /\ MessagesTell /\ dialogue \in Seq(EntryType)
      /\ m = MessagesOf(dialogue) /\ m \in Seq(MessageType) /\ Len(m) \in Nat
      /\ DOMAIN m = 1..Len(m) /\ Len(x) \in Nat /\ Len(x) > 0
  BY InvGives, MessagesAre, EmptySeq
<1>2. /\ dialogue' \in Seq(EntryType)
      /\ Called' = Called \cup {x[k].id : k \in {j \in 1..Len(x) : x[j].kind = "call"}}
      /\ Answered' = Answered \cup {x[k].id : k \in {j \in 1..Len(x) : x[j].kind = "result"}}
  BY <1>1, EntriesGrow
<1>3. Called' = Called
  BY <1>2
<1>4. Answered' \subseteq Called
  BY <1>1, <1>2 DEF CallsAreNumbered
<1>5. CallsAreNumbered'
  BY <1>1, <1>3, <1>4 DEF CallsAreNumbered
<1>6. n = MessagesOf(dialogue \o x)
  BY DEF Messages, MessagesOf
<1>7. /\ n \in Seq(MessageType) /\ Len(n) = Len(m) + Len(x)
      /\ \A k \in 1..Len(m) : n[k] = m[k]
      /\ \A k \in 1..Len(x) : n[Len(m) + k] = Alone(x[k])
  BY <1>1, <1>6, AddAlone
<1> HIDE DEF m, n
<1>8. DOMAIN n = 1..(Len(m) + Len(x)) /\ Len(m) <= Len(n) /\ Len(n) \in Nat /\ Len(n) > 0
  BY <1>1, <1>7
<1>9. \A i \in 1..Len(n) : i \in 1..Len(m) \/ \E k \in 1..Len(x) : i = Len(m) + k
  <2> SUFFICES ASSUME NEW i \in 1..Len(n), i \notin 1..Len(m)
               PROVE  \E k \in 1..Len(x) : i = Len(m) + k
    OBVIOUS
  <2>1. i - Len(m) \in 1..Len(x) /\ i = Len(m) + (i - Len(m))
    BY <1>1, <1>7
  <2> QED BY <2>1
<1>10. \A k \in 1..Len(x) :
         /\ Alone(x[k]).role # "assistant"
         /\ Alone(x[k]).role = "tool" => x[k].kind = "result" /\ Alone(x[k]).calls = <<x[k].id>>
  <2> SUFFICES ASSUME NEW k \in 1..Len(x)
               PROVE  /\ Alone(x[k]).role # "assistant"
                      /\ Alone(x[k]).role = "tool" =>
                           x[k].kind = "result" /\ Alone(x[k]).calls = <<x[k].id>>
    OBVIOUS
  <2>1. x[k] \in EntryType
    OBVIOUS
  <2>2. CASE x[k].kind = "input"
    <3>1. x[k].name \in {"user", "developer"}
      BY <2>1, <2>2 DEF EntryType
    <3> QED BY <2>2, <3>1 DEF Alone, Message
  <2>3. CASE x[k].kind = "result"
    BY <2>3 DEF Alone, Message
  <2> QED BY <2>2, <2>3
<1>11. MessagesTell'
  <2>1. ASSUME NEW k \in DOMAIN n, n[k].role = "tool" PROVE \E c \in Answered' : n[k].calls = <<c>>
    <3>1. CASE k \in 1..Len(m)
      <4>1. n[k] = m[k] /\ k \in DOMAIN m
        BY <1>1, <1>7, <3>1
      <4>2. PICK c \in Answered : m[k].calls = <<c>>
        BY <1>1, <2>1, <4>1 DEF MessagesTell, m
      <4> QED BY <1>2, <4>1, <4>2
    <3>2. CASE k \notin 1..Len(m)
      <4>1. PICK i \in 1..Len(x) : k = Len(m) + i
        BY <1>7, <1>8, <1>9, <3>2
      <4>2. n[k] = Alone(x[i])
        BY <1>7, <4>1
      <4>3. x[i].kind = "result" /\ n[k].calls = <<x[i].id>>
        BY <1>10, <2>1, <4>2
      <4>4. x[i].id \in Answered'
        BY <1>2, <4>3
      <4> QED BY <4>3, <4>4
    <3> QED BY <3>1, <3>2
  <2>2. ASSUME NEW k \in DOMAIN n, n[k].role = "assistant", NEW j \in DOMAIN n[k].calls
        PROVE  n[k].calls[j] \in Called'
    <3>1. k \in 1..Len(m)
      <4> SUFFICES ASSUME k \notin 1..Len(m) PROVE FALSE
        OBVIOUS
      <4>1. PICK i \in 1..Len(x) : k = Len(m) + i
        BY <1>7, <1>8, <1>9
      <4> QED BY <1>7, <1>10, <2>2, <4>1
    <3>2. n[k] = m[k] /\ k \in DOMAIN m
      BY <1>1, <1>7, <3>1
    <3> QED BY <1>1, <1>3, <2>2, <3>2 DEF MessagesTell, m
  <2> QED BY <2>1, <2>2 DEF MessagesTell, n
<1>12. n # <<>> /\ n[Len(n)].role # "assistant"
  <2>1. n # <<>>
    BY <1>8
  <2>2. Len(n) = Len(m) + Len(x) /\ Len(x) \in 1..Len(x)
    BY <1>1, <1>7
  <2> QED BY <1>7, <1>10, <2>1, <2>2
<1>13. ASSUME NEW i \in 1..Len(m), NEW j \in DOMAIN m[i].calls,
              AnsweredBehind(m, i, j), m[i].role = "assistant"
       PROVE  AnsweredBehind(n, i, j)
  <2>0. j \in Nat /\ i \in DOMAIN m
    <3>1. m[i] \in MessageType
      BY <1>1
    <3>2. m[i].calls \in Seq(Nat)
      BY <3>1 DEF MessageType
    <3> QED BY <1>1, <3>2
  <2>1. i + j \in DOMAIN m /\ m[i + j] = Message("tool", <<m[i].calls[j]>>)
    BY <1>1, <1>13, <2>0 DEF AnsweredBehind
  <2>2. m[i].calls[j] \in Answered
    <3>1. m[i + j].role = "tool" /\ m[i + j].calls = <<m[i].calls[j]>>
      BY <2>1 DEF Message
    <3>2. PICK c \in Answered : m[i + j].calls = <<c>>
      BY <1>1, <2>1, <3>1 DEF MessagesTell, m
    <3>3. c = m[i].calls[j]
      BY <3>1, <3>2
    <3> QED BY <3>2, <3>3
  <2>3. \A k \in (Len(m) + 1)..Len(n) : n[k] # Message("tool", <<m[i].calls[j]>>)
    <3> SUFFICES ASSUME NEW k \in (Len(m) + 1)..Len(n), n[k] = Message("tool", <<m[i].calls[j]>>)
                 PROVE  FALSE
      OBVIOUS
    <3>1. k \in 1..Len(n) /\ k \notin 1..Len(m)
      BY <1>1, <1>8
    <3>2. PICK h \in 1..Len(x) : k = Len(m) + h
      BY <1>9, <3>1
    <3>3. n[k] = Alone(x[h])
      BY <1>7, <3>2
    <3>4. n[k].role = "tool" /\ n[k].calls = <<m[i].calls[j]>>
      BY DEF Message
    <3>5. x[h].kind = "result" /\ <<x[h].id>> = <<m[i].calls[j]>>
      BY <1>10, <3>3, <3>4
    <3>6. x[h].id = m[i].calls[j]
      BY <3>5
    <3> QED BY <2>2, <3>5, <3>6
  <2> QED BY <1>1, <1>7, <1>8, <1>13, <2>0, <2>3, BehindKept
<1> QED BY <1>2, <1>3, <1>5, <1>7, <1>11, <1>12, <1>13 DEF m, n

\* The complete calls of a step have the next numbers.
LEMMA NewCallsAre ==
  ASSUME DialogueInv, NEW calls \in NewCalls
  PROVE  /\ calls \in Seq(CallType) /\ Len(calls) \in Nat /\ DOMAIN calls = 1..Len(calls)
         /\ \A i \in 1..Len(calls) : calls[i].id = Cardinality(Called) + i
         /\ \A i \in 1..Len(calls) : calls[i].id \notin Called
<1> DEFINE used == Cardinality(Called)
<1>1. used \in Nat /\ Called = 1..used /\ MaxDialogueCalls \in Nat
  BY InvGives, DialogueAssumption DEF CallsAreNumbered
<1> HIDE DEF used
<1>2. PICK n \in 0..(MaxDialogueCalls - used) : \E names \in [1..n -> ToolNames] :
        calls = [i \in 1..n |-> [id |-> used + i, name |-> names[i]]]
  BY DEF NewCalls, used
<1>3. PICK names \in [1..n -> ToolNames] :
        calls = [i \in 1..n |-> [id |-> used + i, name |-> names[i]]]
  BY <1>2
<1>4. n \in Nat /\ \A i \in 1..n : used + i \in 1..MaxDialogueCalls /\ used + i \notin 1..used
  BY <1>1
<1>5. \A i \in 1..n : calls[i].id = used + i /\ calls[i] \in CallType
  BY <1>3, <1>4 DEF CallType
<1>6. Len(calls) = n /\ calls \in Seq(CallType) /\ DOMAIN calls = 1..n
  <2>1. DOMAIN calls = 1..n /\ calls = [i \in 1..n |-> calls[i]]
    BY <1>3
  <2>2. calls \in [1..n -> CallType]
    BY <1>5, <2>1
  <2> QED BY <1>4, <2>1, <2>2
<1> QED BY <1>1, <1>4, <1>5, <1>6 DEF used

\* What a commit of outputs appends.
LEMMA CommitAppends ==
  ASSUME DialogueInv, NEW calls \in NewCalls, CommitOutputs(calls)
  PROVE  \E x \in Seq(EntryType) :
           /\ dialogue' = dialogue \o x /\ x # <<>>
           /\ calls = <<>> => x = <<Entry("text", 0, "")>>
           /\ calls # <<>> => /\ Len(x) = Len(calls)
                              /\ \A k \in 1..Len(calls) : x[k] = CallEntry(calls[k])
<1> DEFINE text == IF calls = <<>> THEN <<Entry("text", 0, "")>> ELSE <<>>
           entries == [i \in DOMAIN calls |-> CallEntry(calls[i])]
<1>1. dialogue' = dialogue \o text \o entries
  BY DEF CommitOutputs
<1>2. /\ dialogue \in Seq(EntryType) /\ calls \in Seq(CallType) /\ Len(calls) \in Nat
      /\ DOMAIN calls = 1..Len(calls)
  BY InvGives, NewCallsAre
<1>3. CASE calls = <<>>
  <2> DEFINE x == <<Entry("text", 0, "")>>
  <2>1. text = x /\ entries = <<>>
    BY <1>3
  <2>2. Entry("text", 0, "") \in EntryType
    BY DEF Entry, EntryType
  <2>3. x \in Seq(EntryType) /\ x # <<>>
    <3>1. ASSUME NEW e \in EntryType PROVE <<e>> \in Seq(EntryType) /\ <<e>> # <<>>
      OBVIOUS
    <3> QED BY <2>2, <3>1
  <2>4. dialogue \o x \in Seq(EntryType)
    <3>1. ASSUME NEW d \in Seq(EntryType), NEW e \in Seq(EntryType) PROVE d \o e \in Seq(EntryType)
      OBVIOUS
    <3> HIDE DEF x
    <3> QED BY <1>2, <2>3, <3>1
  <2>5. dialogue' = (dialogue \o x) \o <<>>
    BY <1>1, <2>1
  <2> HIDE DEF x
  <2>6. (dialogue \o x) \o <<>> = dialogue \o x
    BY <2>4
  <2> QED BY <1>3, <2>3, <2>5, <2>6 DEF x
<1>4. CASE calls # <<>>
  <2>1. text = <<>>
    BY <1>4
  <2>2. \A c \in CallType : CallEntry(c) \in EntryType
    BY DEF CallType, CallEntry, Entry, EntryType
  <2>3. \A i \in 1..Len(calls) : calls[i] \in CallType
    BY <1>2
  <2>4. /\ entries \in [1..Len(calls) -> EntryType]
        /\ \A k \in 1..Len(calls) : entries[k] = CallEntry(calls[k])
    BY <1>2, <2>2, <2>3
  <2> HIDE DEF entries
  <2>5. entries \in Seq(EntryType) /\ Len(entries) = Len(calls)
    BY <1>2, <2>4
  <2>6. entries # <<>>
    <3>1. Len(calls) > 0
      BY <1>2, <1>4, EmptySeq
    <3> QED BY <2>5, <3>1
  <2>7. dialogue \o <<>> = dialogue
    BY <1>2
  <2>8. dialogue' = dialogue \o entries
    BY <1>1, <2>1, <2>7
  <2> QED BY <1>4, <2>4, <2>5, <2>6, <2>8
<1> QED BY <1>3, <1>4

\* A commit of outputs behind an input or a result: the calls are one message, the last one.
LEMMA CommitStep ==
  ASSUME DialogueInv, step = "llm", NEW calls \in NewCalls, CommitOutputs(calls)
  PROVE  /\ dialogue' \in Seq(EntryType) /\ CallsAreNumbered' /\ MessagesTell'
         /\ \A i \in 1..Len(calls) : calls[i].id \in Called' \ Answered'
         /\ Messages \in Seq(MessageType) /\ Messages' \in Seq(MessageType)
         /\ Len(Messages') = Len(Messages) + 1
         /\ Messages'[Len(Messages) + 1]
              = Message("assistant", [k \in 1..Len(calls) |-> calls[k].id])
         /\ \A i \in 1..Len(Messages) :
              /\ Messages'[i] = Messages[i]
              /\ \A j \in DOMAIN Messages[i].calls :
                   Messages[i].role = "assistant" /\ Messages[i].calls[j] \notin unsettled
                     => AnsweredBehind(Messages', i, j)
<1> DEFINE m == Messages
           n == Messages'
           ids == [k \in 1..Len(calls) |-> calls[k].id]
           last == Message("assistant", ids)
           used == Cardinality(Called)
<1>1. /\ DialogueTypes /\ CallsAreNumbered /\ MessagesTell /\ LastMessage /\ Paired
      /\ dialogue \in Seq(EntryType)
      /\ m = MessagesOf(dialogue) /\ m \in Seq(MessageType) /\ Len(m) \in Nat
      /\ DOMAIN m = 1..Len(m)
  BY InvGives, MessagesAre
<1>2. /\ calls \in Seq(CallType) /\ Len(calls) \in Nat /\ DOMAIN calls = 1..Len(calls)
      /\ \A i \in 1..Len(calls) : calls[i].id = used + i /\ calls[i].id \notin Called
  BY NewCallsAre
<1>3. PICK x \in Seq(EntryType) :
        /\ dialogue' = dialogue \o x /\ x # <<>>
        /\ calls = <<>> => x = <<Entry("text", 0, "")>>
        /\ calls # <<>> => /\ Len(x) = Len(calls)
                           /\ \A k \in 1..Len(calls) : x[k] = CallEntry(calls[k])
  BY CommitAppends
<1>4. /\ dialogue' \in Seq(EntryType)
      /\ Called' = Called \cup {x[k].id : k \in {j \in 1..Len(x) : x[j].kind = "call"}}
      /\ Answered' = Answered \cup {x[k].id : k \in {j \in 1..Len(x) : x[j].kind = "result"}}
  BY <1>1, <1>3, EntriesGrow
<1>5. \A k \in 1..Len(calls) :
        calls # <<>> /\ x[k].kind = "call" /\ x[k].id = calls[k].id
  <2>1. ASSUME NEW k \in 1..Len(calls) PROVE calls # <<>>
    BY <1>2
  <2>2. \A c : CallEntry(c).kind = "call" /\ CallEntry(c).id = c.id
    BY DEF CallEntry, Entry
  <2> QED BY <1>3, <2>1, <2>2
<1>6. calls = <<>> => Len(x) = 1 /\ x[1].kind = "text" /\ x[1] \in EntryType /\ x = <<x[1]>>
  <2> SUFFICES ASSUME calls = <<>>
               PROVE  Len(x) = 1 /\ x[1].kind = "text" /\ x[1] \in EntryType /\ x = <<x[1]>>
    OBVIOUS
  <2>1. x = <<Entry("text", 0, "")>>
    BY <1>3
  <2>2. Len(x) = 1 /\ x[1] = Entry("text", 0, "")
    BY <2>1
  <2>3. Entry("text", 0, "").kind = "text" /\ Entry("text", 0, "") \in EntryType
    BY DEF Entry, EntryType
  <2> QED BY <2>1, <2>2, <2>3
<1>7. /\ {x[k].id : k \in {j \in 1..Len(x) : x[j].kind = "call"}} = {calls[k].id : k \in 1..Len(calls)}
      /\ {x[k].id : k \in {j \in 1..Len(x) : x[j].kind = "result"}} = {}
  <2>1. CASE calls = <<>>
    <3>1. \A j \in 1..Len(x) : x[j].kind = "text"
      <4>1. Len(x) = 1 /\ x[1].kind = "text"
        BY <1>6, <2>1
      <4>2. \A j \in 1..Len(x) : j = 1
        BY <4>1
      <4> QED BY <4>1, <4>2
    <3>2. Len(calls) = 0
      BY <2>1
    <3> QED BY <3>1, <3>2
  <2>2. CASE calls # <<>>
    BY <1>3, <1>5, <2>2
  <2> QED BY <2>1, <2>2
<1>8. Called' = Called \cup {calls[k].id : k \in 1..Len(calls)} /\ Answered' = Answered
  BY <1>4, <1>7
<1>9. CallsAreNumbered'
  <2>1. used \in Nat /\ Called = 1..used /\ Answered \subseteq Called
    BY <1>1 DEF CallsAreNumbered
  <2> DEFINE all == used + Len(calls)
  <2>2. all \in Nat /\ Called' = 1..all
    <3> HIDE DEF used
    <3>1. all \in Nat
      BY <1>2, <2>1
    <3>2. ASSUME NEW c \in Called' PROVE c \in 1..all
      <4>1. CASE c \in Called
        BY <1>2, <2>1, <4>1
      <4>2. CASE c \notin Called
        <5>1. PICK k \in 1..Len(calls) : c = used + k
          BY <1>2, <1>8, <4>2
        <5> QED BY <1>2, <2>1, <5>1
      <4> QED BY <4>1, <4>2
    <3>3. ASSUME NEW c \in 1..all PROVE c \in Called'
      <4>1. CASE c <= used
        BY <1>8, <2>1, <3>1, <4>1
      <4>2. CASE ~(c <= used)
        <5>1. c - used \in 1..Len(calls) /\ c = used + (c - used)
          BY <1>2, <2>1, <4>2
        <5>2. c = calls[c - used].id
          BY <1>2, <5>1
        <5> QED BY <1>8, <5>1, <5>2
      <4> QED BY <4>1, <4>2
    <3> HIDE DEF all
    <3> QED BY <3>1, <3>2, <3>3
  <2> HIDE DEF all
  <2>3. Cardinality(1..all) = all
    <3>1. 1 \in Int /\ all \in Int /\ (1 > all => all = 0) /\ all - 1 + 1 = all
      BY <2>2
    <3> QED BY <3>1, FS_Interval
  <2>4. Cardinality(Called') = all
    BY <2>2, <2>3
  <2> QED BY <1>8, <2>1, <2>2, <2>4 DEF CallsAreNumbered
<1>10. \A i \in 1..Len(calls) : calls[i].id \in Called' \ Answered'
  BY <1>1, <1>2, <1>8 DEF CallsAreNumbered
<1>11. n = Append(m, last)
  <2>1. n = MessagesOf(dialogue \o x)
    BY <1>3 DEF Messages, MessagesOf
  <2>2. MessagesOf(dialogue) # <<>> /\ MessagesOf(dialogue)[Len(MessagesOf(dialogue))].role # "assistant"
    BY <1>1 DEF LastMessage
  <2>3. CASE calls = <<>>
    <3>1. n = Append(MessagesOf(dialogue), Message("assistant", <<>>))
      <4>1. x[1] \in EntryType /\ x[1].kind = "text" /\ x = <<x[1]>>
        BY <1>6, <2>3
      <4>2. MessagesOf(dialogue \o <<x[1]>>) = Append(MessagesOf(dialogue), Message("assistant", <<>>))
        BY <1>1, <2>2, <4>1, AddText
      <4> QED BY <2>1, <4>1, <4>2
    <3>2. ids = <<>>
      BY <2>3
    <3> QED BY <1>1, <3>1, <3>2
  <2>4. CASE calls # <<>>
    <3>1. \A k \in 1..Len(x) : x[k].kind = "call"
      BY <1>3, <1>5, <2>4
    <3>2. n = Append(MessagesOf(dialogue), Message("assistant", [k \in 1..Len(x) |-> x[k].id]))
      BY <1>1, <1>3, <2>1, <2>2, <3>1, AddCalls
    <3>3. [k \in 1..Len(x) |-> x[k].id] = ids
      BY <1>3, <1>5, <2>4
    <3> QED BY <1>1, <3>2, <3>3
  <2> QED BY <2>3, <2>4
<1>12. last \in MessageType /\ last.role = "assistant" /\ last.calls = ids
       /\ \A c : last # Message("tool", c)
  <2>1. \A k \in 1..Len(calls) : calls[k].id \in Nat
    <3>1. used \in Nat
      BY <1>1 DEF CallsAreNumbered
    <3> HIDE DEF used
    <3> QED BY <1>2, <3>1
  <2>2. ids \in Seq(Nat)
    BY <1>2, <2>1
  <2> HIDE DEF ids
  <2> QED BY <2>2 DEF Message, MessageType
<1> HIDE DEF m, n, last, used
<1>13. /\ n \in Seq(MessageType) /\ Len(n) = Len(m) + 1 /\ n[Len(m) + 1] = last
       /\ \A i \in 1..Len(m) : n[i] = m[i]
       /\ DOMAIN n = 1..(Len(m) + 1)
  BY <1>1, <1>11, <1>12
<1>14. ASSUME NEW i \in 1..Len(m), NEW j \in DOMAIN m[i].calls,
              m[i].role = "assistant", m[i].calls[j] \notin unsettled
       PROVE  AnsweredBehind(n, i, j)
  <2>1. j \in Nat
    <3>1. m[i] \in MessageType
      BY <1>1
    <3>2. m[i].calls \in Seq(Nat)
      BY <3>1 DEF MessageType
    <3> QED BY <3>2
  <2>2. AnsweredBehind(m, i, j)
    <3>1. ~Due(m, i, j)
      BY DEF Due
    <3> QED BY <1>1, <1>14, <3>1 DEF Paired, m
  <2>3. \A k \in (Len(m) + 1)..Len(n) : n[k] # Message("tool", <<m[i].calls[j]>>)
    <3>1. \A k \in (Len(m) + 1)..Len(n) : k = Len(m) + 1
      BY <1>1, <1>13
    <3> QED BY <1>12, <1>13, <3>1
  <2>4. Len(m) <= Len(n)
    BY <1>1, <1>13
  <2> QED BY <1>1, <1>13, <2>1, <2>2, <2>3, <2>4, BehindKept
<1>15. MessagesTell'
  <2>1. \A k \in DOMAIN n : k \in DOMAIN m \/ k = Len(m) + 1
    BY <1>1, <1>13
  <2>2. ASSUME NEW k \in DOMAIN n, n[k].role = "tool" PROVE \E c \in Answered' : n[k].calls = <<c>>
    <3>1. k \in DOMAIN m /\ n[k] = m[k]
      BY <1>1, <1>12, <1>13, <2>1, <2>2
    <3> QED BY <1>1, <1>8, <2>2, <3>1 DEF MessagesTell, m
  <2>3. ASSUME NEW k \in DOMAIN n, n[k].role = "assistant", NEW j \in DOMAIN n[k].calls
        PROVE  n[k].calls[j] \in Called'
    <3>1. CASE k \in DOMAIN m
      <4>1. n[k] = m[k]
        BY <1>1, <1>13, <3>1
      <4> QED BY <1>1, <1>8, <2>3, <3>1, <4>1 DEF MessagesTell, m
    <3>2. CASE k = Len(m) + 1
      <4>1. n[k].calls = ids
        BY <1>12, <1>13, <3>2
      <4>2. j \in 1..Len(calls) /\ n[k].calls[j] = calls[j].id
        BY <2>3, <4>1
      <4> QED BY <1>8, <4>2
    <3> QED BY <2>1, <3>1, <3>2
  <2> QED BY <2>2, <2>3 DEF MessagesTell, n
<1> QED BY <1>1, <1>4, <1>9, <1>10, <1>13, <1>14, <1>15 DEF m, n, last

\* A commit of inputs and results keeps the pairs when it answers what is due.
LEMMA PairedAlone ==
  ASSUME DialogueInv, NEW x \in Seq(EntryType), x # <<>>, dialogue' = dialogue \o x,
         \A k \in 1..Len(x) : x[k].kind \in {"input", "result"},
         \A k \in 1..Len(x) : x[k].kind = "result" => x[k].id \in Called \ Answered,
         unsettled \subseteq unsettled',
         \A i \in 1..Len(Messages) : \A j \in DOMAIN Messages[i].calls :
           Messages[i].role = "assistant" /\ Due(Messages, i, j)
             /\ Messages[i].calls[j] \notin unsettled' => AnsweredBehind(Messages', i, j)
  PROVE  Paired'
<1> DEFINE m == Messages
           n == Messages'
<1>1. /\ n \in Seq(MessageType) /\ Len(n) = Len(m) + Len(x) /\ Len(m) \in Nat
      /\ DOMAIN m = 1..Len(m) /\ Len(x) \in Nat
      /\ \A k \in 1..Len(m) : n[k] = m[k]
      /\ \A k \in 1..Len(x) : n[Len(m) + k] = Alone(x[k])
      /\ \A i \in 1..Len(m) : \A j \in DOMAIN m[i].calls :
           AnsweredBehind(m, i, j) /\ m[i].role = "assistant" => AnsweredBehind(n, i, j)
  <2>1. Len(m) \in Nat /\ DOMAIN m = 1..Len(m)
    BY InvGives, MessagesAre
  <2>2. Len(x) \in Nat
    OBVIOUS
  <2> QED BY <2>1, <2>2, AloneStep
<1> HIDE DEF m, n
<1>2. \A i \in DOMAIN n : i \in DOMAIN m \/ n[i].role # "assistant"
  <2> SUFFICES ASSUME NEW i \in DOMAIN n, i \notin DOMAIN m PROVE n[i].role # "assistant"
    OBVIOUS
  <2>1. i \in 1..(Len(m) + Len(x)) /\ i \notin 1..Len(m)
    BY <1>1
  <2>2. i - Len(m) \in 1..Len(x) /\ i = Len(m) + (i - Len(m))
    BY <1>1, <2>1
  <2>3. n[i] = Alone(x[i - Len(m)]) /\ x[i - Len(m)] \in EntryType
        /\ x[i - Len(m)].kind \in {"input", "result"}
    BY <1>1, <2>2
  <2>4. \A e \in EntryType : e.kind \in {"input", "result"} => Alone(e).role # "assistant"
    <3>1. ASSUME NEW e \in EntryType, e.kind = "input" PROVE Alone(e).role # "assistant"
      <4>1. e.name \in {"user", "developer"}
        BY <3>1 DEF EntryType
      <4> QED BY <3>1, <4>1 DEF Alone, Message
    <3>2. ASSUME NEW e \in EntryType, e.kind = "result" PROVE Alone(e).role # "assistant"
      BY <3>2 DEF Alone, Message
    <3> QED BY <3>1, <3>2
  <2> QED BY <2>3, <2>4
<1>3. ASSUME NEW i \in DOMAIN n, NEW j \in DOMAIN n[i].calls,
             n[i].role = "assistant", n[i].calls[j] \notin unsettled'
      PROVE  AnsweredBehind(n, i, j)
  <2>1. i \in 1..Len(m) /\ i \in DOMAIN m /\ n[i] = m[i]
    BY <1>1, <1>2, <1>3
  <2>2. j \in DOMAIN m[i].calls /\ m[i].role = "assistant" /\ m[i].calls[j] \notin unsettled'
        /\ m[i].calls[j] \notin unsettled
    BY <1>3, <2>1
  <2>3. AnsweredBehind(m, i, j) \/ Due(m, i, j)
    BY <2>1, <2>2, InvGives DEF Paired, m
  <2>4. CASE AnsweredBehind(m, i, j)
    BY <1>1, <2>1, <2>2, <2>4
  <2>5. CASE Due(m, i, j)
    BY <2>1, <2>2, <2>5 DEF m, n
  <2> QED BY <2>3, <2>4, <2>5
<1> QED BY <1>3 DEF Paired, n

\* The results of the calls of the last message are behind it.
LEMMA ResultsAnswer ==
  ASSUME DialogueInv, NEW x \in Seq(EntryType), x # <<>>, dialogue' = dialogue \o x,
         \A k \in 1..Len(x) : x[k].kind = "result" /\ x[k].id \in Called \ Answered,
         \A h, k \in 1..Len(x) : x[h].id = x[k].id => h = k,
         NEW i \in 1..Len(Messages), i = Len(Messages), Messages[i].role = "assistant",
         Messages[i].calls = [k \in 1..Len(x) |-> x[k].id], NEW j \in 1..Len(x)
  PROVE  AnsweredBehind(Messages', i, j)
<1> DEFINE m == Messages
           n == Messages'
<1>1. /\ n \in Seq(MessageType) /\ Len(n) = Len(m) + Len(x) /\ Len(m) \in Nat
      /\ DOMAIN m = 1..Len(m) /\ Len(x) \in Nat
      /\ \A k \in 1..Len(m) : n[k] = m[k]
      /\ \A k \in 1..Len(x) : n[Len(m) + k] = Alone(x[k])
  <2>1. Len(m) \in Nat /\ DOMAIN m = 1..Len(m)
    BY InvGives, MessagesAre
  <2>2. Len(x) \in Nat
    OBVIOUS
  <2>3. /\ \A k \in 1..Len(x) : x[k].kind \in {"input", "result"}
        /\ \A k \in 1..Len(x) : x[k].kind = "result" => x[k].id \in Called \ Answered
    OBVIOUS
  <2> QED BY <2>1, <2>2, <2>3, AloneStep
<1>2. i = Len(m) /\ m[i].calls[j] = x[j].id
  OBVIOUS
<1>3. MessagesTell
  BY InvGives
<1> HIDE DEF m, n
<1>4. \A k \in 1..Len(x) : Alone(x[k]) = Message("tool", <<x[k].id>>)
  BY DEF Alone
<1>5. i + j <= Len(n) /\ n[i + j] = Message("tool", <<m[i].calls[j]>>)
  <2>1. i + j <= Len(n)
    BY <1>1, <1>2
  <2>2. n[i + j] = Alone(x[j])
    BY <1>1, <1>2
  <2>3. n[i + j] = Message("tool", <<x[j].id>>)
    BY <1>4, <2>2
  <2> QED BY <1>2, <2>1, <2>3
<1>6. \A c, d : Message("tool", <<c>>) = Message("tool", <<d>>) => c = d
  <2> SUFFICES ASSUME NEW c, NEW d, Message("tool", <<c>>) = Message("tool", <<d>>) PROVE c = d
    OBVIOUS
  <2>1. <<c>> = <<d>>
    BY DEF Message
  <2> QED BY <2>1
<1>7. ASSUME NEW k \in DOMAIN n, n[k] = n[i + j] PROVE k = i + j
  <2>1. n[k] = Message("tool", <<x[j].id>>)
    BY <1>2, <1>5, <1>7
  <2>2. CASE k \in 1..Len(m)
    <3>1. m[k] = Message("tool", <<x[j].id>>) /\ k \in DOMAIN m
      BY <1>1, <2>1, <2>2
    <3>2. m[k].role = "tool" /\ m[k].calls = <<x[j].id>>
      BY <3>1 DEF Message
    <3>3. PICK c \in Answered : m[k].calls = <<c>>
      BY <1>3, <3>1, <3>2 DEF MessagesTell, m
    <3>4. c = x[j].id
      BY <3>2, <3>3
    <3> QED BY <3>3, <3>4
  <2>3. CASE k \notin 1..Len(m)
    <3>1. k \in 1..(Len(m) + Len(x))
      BY <1>1
    <3>2. k - Len(m) \in 1..Len(x) /\ k = Len(m) + (k - Len(m))
      BY <1>1, <2>3, <3>1
    <3>3. n[k] = Message("tool", <<x[k - Len(m)].id>>)
      BY <1>1, <1>4, <3>2
    <3>4. k - Len(m) = j
      BY <1>6, <2>1, <3>2, <3>3
    <3> QED BY <1>2, <3>2, <3>4
  <2> QED BY <2>2, <2>3
<1> QED BY <1>1, <1>2, <1>5, <1>7 DEF AnsweredBehind, m, n

\* The types, when the history has its own.
LEMMA TypesStep ==
  ASSUME DialogueInv, DialogueNext, dialogue' \in Seq(EntryType)
  PROVE  DialogueTypes'
<1>1. /\ step \in {"idle", "llm", "tools", "rejected"} /\ stopping \in BOOLEAN
      /\ inputs \in 0..MaxInputs /\ unsettled \subseteq 1..MaxDialogueCalls
      /\ group \in Seq(CallType) /\ finished \subseteq {c.id : c \in ToSet(group)}
      /\ \A i \in DOMAIN group : group[i].name \in ToolNames
      /\ MaxInputs \in Nat /\ Pending \in {0} \cup 1..MaxDialogueCalls
  <2>1. DialogueTypes /\ MaxInputs \in Nat
    BY InvGives, DialogueAssumption
  <2>2. Pending \in {0} \cup 1..MaxDialogueCalls
    BY <2>1, PendingIsOpen, CalledAre
  <2> QED BY <2>1, <2>2 DEF DialogueTypes, DialogueTypeOK
<1>2. \A g \in Seq(CallType) : /\ \A i \in DOMAIN g : g[i] \in CallType
                               /\ {c.id : c \in ToSet(g)} \subseteq 1..MaxDialogueCalls
  <2> SUFFICES ASSUME NEW g \in Seq(CallType)
               PROVE  /\ \A i \in DOMAIN g : g[i] \in CallType
                      /\ {c.id : c \in ToSet(g)} \subseteq 1..MaxDialogueCalls
    OBVIOUS
  <2>1. \A i \in DOMAIN g : g[i] \in CallType
    OBVIOUS
  <2>2. \A c \in ToSet(g) : c \in CallType
    BY <2>1 DEF ToSet
  <2> QED BY <2>1, <2>2 DEF CallType
<1>3. \A c \in CallType : c.name \in ToolNames
  BY DEF CallType
<1> DEFINE Typed == /\ step' \in {"idle", "llm", "tools", "rejected"}
                    /\ inputs' \in 0..MaxInputs /\ unsettled' \subseteq 1..MaxDialogueCalls
                    /\ group' \in Seq(CallType) /\ finished' \subseteq {c.id : c \in ToSet(group')}
<1>4. ASSUME Enters /\ (UserMessage \/ DeveloperNotice \/ AnswerQuestion) PROVE Typed
  <2>1. step' = "llm" /\ group' = group /\ finished' = finished
        /\ inputs' = inputs + 1 /\ inputs < MaxInputs
    BY <1>4 DEF Enters
  <2>2. unsettled' \subseteq 1..MaxDialogueCalls
    BY <1>1, <1>4 DEF UserMessage, DeveloperNotice, AnswerQuestion
  <2>3. inputs' \in 0..MaxInputs
    BY <1>1, <2>1
  <2>4. group' \in Seq(CallType) /\ finished' \subseteq {c.id : c \in ToSet(group')}
    BY <1>1, <2>1
  <2> QED BY <2>1, <2>2, <2>3, <2>4
<1>5. ASSUME Stop PROVE Typed
  BY <1>1, <1>5 DEF Stop
<1>6. ASSUME NEW calls \in NewCalls, StreamPauses(calls) PROVE Typed
  BY <1>1, <1>6 DEF StreamPauses
<1>7. ASSUME NEW calls \in NewCalls, StreamCalls(calls) PROVE Typed
  <2>1. calls \in Seq(CallType)
    BY NewCallsAre
  <2> QED BY <1>1, <1>7, <2>1 DEF StreamCalls
<1>8. ASSUME NEW calls \in NewCalls, StreamEnds(calls) PROVE Typed
  <2>1. calls \in Seq(CallType)
    BY NewCallsAre
  <2>2. Ids(calls) \subseteq 1..MaxDialogueCalls
    BY <1>2, <2>1 DEF Ids
  <2> QED BY <1>1, <1>8, <2>2 DEF StreamEnds
<1>9. ASSUME NEW id \in 1..MaxDialogueCalls, ToolFinishes(id) PROVE Typed
  BY <1>1, <1>9 DEF ToolFinishes, Ids
<1>10. ASSUME ResultsCommit PROVE Typed
  BY <1>1, <1>10 DEF ResultsCommit
<1>11. ASSUME RunDies PROVE Typed
  <2>1. Ids(group) \subseteq 1..MaxDialogueCalls
    BY <1>1, <1>2 DEF Ids
  <2>2. <<>> \in Seq(CallType)
    OBVIOUS
  <2>3. /\ step' = "idle" /\ group' = <<>> /\ finished' = {} /\ inputs' = inputs
        /\ unsettled' = unsettled \cup Ids(group)
    BY <1>11 DEF RunDies
  <2> QED BY <1>1, <2>1, <2>2, <2>3
<1>12. Typed
  <2>1. UserMessage \/ DeveloperNotice \/ AnswerQuestion => Enters
    BY DEF UserMessage, DeveloperNotice, AnswerQuestion
  <2> HIDE DEF Typed
  <2> QED BY <1>4, <1>5, <1>6, <1>7, <1>8, <1>9, <1>10, <1>11, <2>1 DEF DialogueNext
<1>13. stopping' \in BOOLEAN
  BY <1>1, ZenonT(60) DEF DialogueNext, UserMessage, DeveloperNotice, AnswerQuestion, Enters, Stop,
    StreamPauses, StreamCalls, StreamEnds, ToolFinishes, ResultsCommit, RunDies
<1>14. \A i \in DOMAIN group' : group'[i].name \in ToolNames
  BY <1>2, <1>3, <1>12
<1> QED BY <1>12, <1>13, <1>14 DEF DialogueTypes, DialogueTypeOK

-----------------------------------------------------------------------------
(* Dialogue: the steps                                                     *)

\* What is due in an idle conversation is the answer of the question that pends.
LEMMA DueIsPending ==
  ASSUME DialogueInv, step = "idle", NEW i \in 1..Len(Messages), NEW j \in DOMAIN Messages[i].calls,
         Messages[i].role = "assistant", Due(Messages, i, j)
  PROVE  /\ Pending \in Called \ Answered /\ i = Len(Messages)
         /\ Messages[i].calls = <<Pending>> /\ j = 1
<1>1. i = Len(Messages) /\ Messages[i].calls = <<Pending>>
  BY DEF Due
<1>2. j = 1 /\ Messages[i].calls[j] = Pending
  BY <1>1
<1>3. i \in DOMAIN Messages
  BY InvGives, MessagesAre
<1>4. Pending \in Called
  BY <1>2, <1>3, InvGives DEF MessagesTell
<1>5. Pending # 0
  BY <1>4, InvGives, CalledAre
<1> QED BY <1>1, <1>2, <1>5, InvGives, PendingIsOpen

\* A run that enters leaves no group.
LEMMA EntersStep ==
  ASSUME DialogueInv, Enters, Called' = Called, Answered \subseteq Answered'
  PROVE  step = "idle" /\ step' = "llm" /\ GroupIsOpen'
<1>1. step = "idle" /\ step' = "llm" /\ group' = group
  BY DEF Enters
<1>2. group = <<>>
  BY <1>1, InvGives DEF GroupIsOpen
<1>3. DOMAIN group' = {}
  BY <1>1, <1>2
<1>4. group' = <<>>
  BY <1>1, <1>2
<1> QED BY <1>1, <1>3, <1>4 DEF GroupIsOpen

\* The inputs of the agent have the types of entries.
LEMMA InputsAre ==
  /\ \A role \in {"user", "developer"} : Input(role) \in EntryType /\ Input(role).kind = "input"
  /\ \A id \in 1..MaxDialogueCalls : Result(id) \in EntryType
  /\ \A id : Result(id).kind = "result" /\ Result(id).id = id
  BY DEF Input, Result, Entry, EntryType

LEMMA UserMessageStep ==
  ASSUME DialogueInv, DialogueNext, UserMessage
  PROVE  DialogueInv'
<1> DEFINE user == <<Input("user")>>
           x == ResetNotice \o user
<1>1. Enters /\ Pending = 0 /\ dialogue' = dialogue \o ResetNotice \o user /\ unsettled' = unsettled
  BY DEF UserMessage
<1>2. ResetNotice = <<Input("developer")>> \/ ResetNotice = <<>>
  BY DEF ResetNotice
<1>3. ResetNotice \in Seq(EntryType) /\ user \in Seq(EntryType) /\ dialogue \in Seq(EntryType)
  <2>1. ASSUME NEW e \in EntryType PROVE <<e>> \in Seq(EntryType)
    OBVIOUS
  <2>2. <<>> \in Seq(EntryType)
    OBVIOUS
  <2> QED BY <1>2, <2>1, <2>2, InputsAre, InvGives
<1>4. /\ x \in Seq(EntryType) /\ x # <<>>
      /\ \A k \in 1..Len(x) : x[k].kind = "input"
  <2> DEFINE Kinds == {Input("developer"), Input("user")}
  <2>1. \A e \in Kinds : e \in EntryType /\ e.kind = "input"
    BY InputsAre
  <2>2. ResetNotice \in Seq(Kinds) /\ user \in Seq(Kinds) /\ Len(user) = 1
    <3>1. ASSUME NEW e \in Kinds PROVE <<e>> \in Seq(Kinds) /\ Len(<<e>>) = 1
      OBVIOUS
    <3>2. <<>> \in Seq(Kinds)
      OBVIOUS
    <3> QED BY <1>2, <3>1, <3>2
  <2> HIDE DEF Kinds, user
  <2>3. x \in Seq(Kinds) /\ Len(x) = Len(ResetNotice) + 1
    <3>1. ASSUME NEW s \in Seq(Kinds), NEW t \in Seq(Kinds)
          PROVE  s \o t \in Seq(Kinds) /\ Len(s \o t) = Len(s) + Len(t)
      OBVIOUS
    <3> QED BY <2>2, <3>1
  <2>4. x # <<>>
    <3>1. Len(ResetNotice) \in Nat /\ Len(x) # 0
      BY <2>2, <2>3
    <3> QED BY <3>1
  <2>5. x \in Seq(EntryType)
    BY <1>3, ConcatProperties DEF user
  <2> QED BY <2>1, <2>3, <2>4, <2>5
<1>5. dialogue' = dialogue \o x
  <2> HIDE DEF user
  <2> QED BY <1>1, <1>3, ConcatAssociative
<1> HIDE DEF x
<1>6. /\ dialogue' \in Seq(EntryType) /\ CallsAreNumbered' /\ MessagesTell' /\ Called' = Called
      /\ Answered \subseteq Answered'
      /\ Messages' # <<>> /\ Messages'[Len(Messages')].role # "assistant"
  BY <1>4, <1>5, AloneStep
<1>7. step = "idle" /\ step' = "llm" /\ GroupIsOpen'
  BY <1>1, <1>6, EntersStep
<1>8. LastMessage'
  BY <1>6, <1>7 DEF LastMessage
<1>9. Paired'
  <2>1. 0 \notin Called
    BY InvGives, CalledAre
  <2>2. \A i \in 1..Len(Messages) : \A j \in DOMAIN Messages[i].calls :
          Messages[i].role = "assistant" => ~Due(Messages, i, j)
    BY <1>1, <1>7, <2>1, DueIsPending
  <2> QED BY <1>1, <1>4, <1>5, <2>2, PairedAlone
<1> QED BY <1>6, <1>7, <1>8, <1>9, TypesStep DEF DialogueInv

LEMMA DeveloperNoticeStep ==
  ASSUME DialogueInv, DialogueNext, DeveloperNotice
  PROVE  DialogueInv'
<1> DEFINE x == <<Input("developer")>>
<1>1. /\ Enters /\ dialogue' = Append(dialogue, Input("developer"))
      /\ unsettled' = IF Pending = 0 THEN unsettled ELSE unsettled \cup {Pending}
  BY DEF DeveloperNotice
<1>2. /\ x \in Seq(EntryType) /\ x # <<>> /\ dialogue' = dialogue \o x
      /\ \A k \in 1..Len(x) : x[k].kind = "input"
  <2>1. Input("developer") \in EntryType /\ Input("developer").kind = "input"
        /\ dialogue \in Seq(EntryType)
    BY InputsAre, InvGives
  <2> QED BY <1>1, <2>1, AppendIsConcat
<1> HIDE DEF x
<1>3. /\ dialogue' \in Seq(EntryType) /\ CallsAreNumbered' /\ MessagesTell' /\ Called' = Called
      /\ Answered \subseteq Answered'
      /\ Messages' # <<>> /\ Messages'[Len(Messages')].role # "assistant"
  BY <1>2, AloneStep
<1>4. step = "idle" /\ step' = "llm" /\ GroupIsOpen'
  BY <1>1, <1>3, EntersStep
<1>5. LastMessage'
  BY <1>3, <1>4 DEF LastMessage
<1>6. Paired'
  <2>1. 0 \notin Called
    BY InvGives, CalledAre
  <2>2. \A i \in 1..Len(Messages) : \A j \in DOMAIN Messages[i].calls :
          Messages[i].role = "assistant" /\ Due(Messages, i, j) => Messages[i].calls[j] \in unsettled'
    <3> SUFFICES ASSUME NEW i \in 1..Len(Messages), NEW j \in DOMAIN Messages[i].calls,
                        Messages[i].role = "assistant", Due(Messages, i, j)
                 PROVE  Messages[i].calls[j] \in unsettled'
      OBVIOUS
    <3>1. Pending \in Called /\ Messages[i].calls = <<Pending>> /\ j = 1
      BY <1>4, DueIsPending
    <3>2. Messages[i].calls[j] = Pending /\ Pending # 0
      BY <2>1, <3>1
    <3> QED BY <1>1, <3>2
  <2>3. unsettled \subseteq unsettled'
    BY <1>1
  <2> QED BY <1>2, <2>2, <2>3, PairedAlone
<1> QED BY <1>3, <1>4, <1>5, <1>6, TypesStep DEF DialogueInv

LEMMA AnswerQuestionStep ==
  ASSUME DialogueInv, DialogueNext, AnswerQuestion
  PROVE  DialogueInv'
<1> DEFINE x == <<Result(Pending)>>
<1>1. /\ Enters /\ dialogue' = Append(dialogue, Result(Pending)) /\ unsettled' = unsettled
      /\ \E i \in Entries("call") : dialogue[i].id = Pending
  BY DEF AnswerQuestion
<1>2. Pending \in Called \ Answered /\ Pending \in 1..MaxDialogueCalls
  <2>1. Pending \in Called
    BY <1>1 DEF Called
  <2>2. Pending # 0 /\ Pending \in 1..MaxDialogueCalls
    BY <2>1, InvGives, CalledAre
  <2> QED BY <2>1, <2>2, InvGives, PendingIsOpen
<1>3. /\ x \in Seq(EntryType) /\ x # <<>> /\ dialogue' = dialogue \o x /\ Len(x) = 1
      /\ \A k \in 1..Len(x) : k = 1 /\ x[k].kind = "result" /\ x[k].id = Pending
  <2>1. Result(Pending) \in EntryType /\ Result(Pending).kind = "result"
        /\ Result(Pending).id = Pending /\ dialogue \in Seq(EntryType)
    BY <1>2, InputsAre, InvGives
  <2> QED BY <1>1, <2>1, AppendIsConcat
<1> HIDE DEF x
<1>4. \A k \in 1..Len(x) : x[k].kind = "result" /\ x[k].id \in Called \ Answered
  BY <1>2, <1>3
<1>5. /\ dialogue' \in Seq(EntryType) /\ CallsAreNumbered' /\ MessagesTell' /\ Called' = Called
      /\ Answered \subseteq Answered'
      /\ Messages' # <<>> /\ Messages'[Len(Messages')].role # "assistant"
  BY <1>3, <1>4, AloneStep
<1>6. step = "idle" /\ step' = "llm" /\ GroupIsOpen'
  BY <1>1, <1>5, EntersStep
<1>7. LastMessage'
  BY <1>5, <1>6 DEF LastMessage
<1>8. Paired'
  <2>1. ASSUME NEW i \in 1..Len(Messages), NEW j \in DOMAIN Messages[i].calls,
               Messages[i].role = "assistant", Due(Messages, i, j)
        PROVE  AnsweredBehind(Messages', i, j)
    <3>1. i = Len(Messages) /\ Messages[i].calls = <<Pending>> /\ j = 1
      BY <1>6, <2>1, DueIsPending
    <3>2. Messages[i].calls = [k \in 1..Len(x) |-> x[k].id]
      <4>1. [k \in 1..Len(x) |-> x[k].id] = [k \in 1..1 |-> Pending]
        BY <1>3
      <4>2. <<Pending>> = [k \in 1..1 |-> Pending]
        OBVIOUS
      <4> QED BY <3>1, <4>1, <4>2
    <3>3. j \in 1..Len(x) /\ \A h, k \in 1..Len(x) : x[h].id = x[k].id => h = k
      BY <1>3, <3>1
    <3> QED BY <1>3, <1>4, <2>1, <3>1, <3>2, <3>3, ResultsAnswer
  <2> QED BY <1>1, <1>3, <1>4, <2>1, PairedAlone
<1> QED BY <1>5, <1>6, <1>7, <1>8, TypesStep DEF DialogueInv

\* Steps that commit nothing leave what is said of the history.
LEMMA SameHistory ==
  ASSUME dialogue' = dialogue
  PROVE  /\ Messages' = Messages /\ Called' = Called /\ Answered' = Answered /\ Pending' = Pending
         /\ DialogueInv => dialogue' \in Seq(EntryType) /\ CallsAreNumbered' /\ MessagesTell'
<1>1. Messages' = Messages /\ Called' = Called /\ Answered' = Answered
  BY DEF Messages, Called, Answered, Entries
<1>2. Pending' = Pending
  BY <1>1 DEF Pending, OpenQuestions, Entries
<1> QED BY <1>1, <1>2, InvGives DEF CallsAreNumbered, MessagesTell

LEMMA StopStep ==
  ASSUME DialogueInv, DialogueNext, Stop
  PROVE  DialogueInv'
<1>1. /\ dialogue' = dialogue /\ step' = step /\ group' = group /\ unsettled' = unsettled
  BY DEF Stop
<1>2. /\ Messages' = Messages /\ Called' = Called /\ Answered' = Answered /\ Pending' = Pending
      /\ DialogueTypes' /\ CallsAreNumbered' /\ MessagesTell'
  BY <1>1, SameHistory, TypesStep
<1>3. GroupIsOpen' /\ LastMessage'
  BY <1>1, <1>2, InvGives DEF GroupIsOpen, LastMessage
<1>4. Paired'
  BY <1>1, <1>2, InvGives DEF Paired, Due
<1> QED BY <1>2, <1>3, <1>4 DEF DialogueInv

LEMMA ToolFinishesStep ==
  ASSUME DialogueInv, DialogueNext, NEW id \in 1..MaxDialogueCalls, ToolFinishes(id)
  PROVE  DialogueInv'
<1>1. /\ dialogue' = dialogue /\ step' = step /\ group' = group /\ unsettled' = unsettled
  BY DEF ToolFinishes
<1>2. /\ Messages' = Messages /\ Called' = Called /\ Answered' = Answered /\ Pending' = Pending
      /\ DialogueTypes' /\ CallsAreNumbered' /\ MessagesTell'
  BY <1>1, SameHistory, TypesStep
<1>3. GroupIsOpen' /\ LastMessage'
  BY <1>1, <1>2, InvGives DEF GroupIsOpen, LastMessage
<1>4. Paired'
  BY <1>1, <1>2, InvGives DEF Paired, Due
<1> QED BY <1>2, <1>3, <1>4 DEF DialogueInv

LEMMA RunDiesStep ==
  ASSUME DialogueInv, DialogueNext, RunDies
  PROVE  DialogueInv'
<1>1. /\ dialogue' = dialogue /\ step # "idle" /\ step' = "idle" /\ group' = <<>>
      /\ unsettled' = unsettled \cup Ids(group)
  BY DEF RunDies
<1>2. /\ Messages' = Messages /\ DialogueTypes' /\ CallsAreNumbered' /\ MessagesTell'
  BY <1>1, SameHistory, TypesStep
<1>3. GroupIsOpen' /\ LastMessage'
  <2>1. DOMAIN group' = {}
    BY <1>1
  <2> QED BY <1>1, <2>1 DEF GroupIsOpen, LastMessage
<1>4. ASSUME NEW i \in DOMAIN Messages, NEW j \in DOMAIN Messages[i].calls,
             Messages[i].role = "assistant", Messages[i].calls[j] \notin unsettled'
      PROVE  AnsweredBehind(Messages, i, j)
  <2>1. Messages[i].calls[j] \notin unsettled
    BY <1>1, <1>4
  <2>2. ~Due(Messages, i, j)
    <3> SUFFICES ASSUME Due(Messages, i, j) PROVE FALSE
      OBVIOUS
    <3>1. i = Len(Messages) /\ step \in {"tools", "rejected"}
      BY <1>1 DEF Due
    <3>2. Messages[i].calls = [k \in 1..Len(group) |-> group[k].id]
      BY <3>1, InvGives DEF LastMessage, Message
    <3>3. j \in 1..Len(group) /\ Messages[i].calls[j] = group[j].id
      BY <1>4, <3>2
    <3>4. j \in DOMAIN group
      BY <3>3, InvGives DEF DialogueTypes
    <3>5. group[j].id \in Ids(group)
      BY <3>4 DEF Ids, ToSet
    <3> QED BY <1>1, <1>4, <3>3, <3>5
  <2> QED BY <1>4, <2>1, <2>2, InvGives DEF Paired
<1>5. Paired'
  BY <1>2, <1>4 DEF Paired
<1> QED BY <1>2, <1>3, <1>5 DEF DialogueInv

\* The numbers of the calls of a step are distinct.
LEMMA NewCallsDistinct ==
  ASSUME DialogueInv, NEW calls \in NewCalls, NEW h \in 1..Len(calls), NEW k \in 1..Len(calls),
         calls[h].id = calls[k].id
  PROVE  h = k
<1> DEFINE used == Cardinality(Called)
<1>1. used \in Nat
  BY InvGives DEF CallsAreNumbered
<1>2. calls[h].id = used + h /\ calls[k].id = used + k
  BY NewCallsAre
<1>3. h \in Nat /\ k \in Nat
  BY NewCallsAre
<1> HIDE DEF used
<1>4. used + h = used + k
  BY <1>2
<1> QED BY <1>1, <1>3, <1>4

\* The pairs after a commit of outputs: what matters are the calls of the step.
LEMMA PairedCommit ==
  ASSUME DialogueInv, step = "llm", NEW calls \in NewCalls, CommitOutputs(calls),
         unsettled \subseteq unsettled',
         \A j \in 1..Len(calls) : calls[j].id \notin unsettled' =>
           Due(Messages, Len(Messages), j)'
  PROVE  Paired'
<1> DEFINE m == Messages
           n == Messages'
           ids == [k \in 1..Len(calls) |-> calls[k].id]
           last == Message("assistant", ids)
<1>1. /\ n \in Seq(MessageType) /\ Len(n) = Len(m) + 1 /\ n[Len(m) + 1] = last
      /\ \A i \in 1..Len(m) :
           /\ n[i] = m[i]
           /\ \A j \in DOMAIN m[i].calls :
                m[i].role = "assistant" /\ m[i].calls[j] \notin unsettled => AnsweredBehind(n, i, j)
  BY CommitStep
<1>2. Len(m) \in Nat
  BY InvGives, MessagesAre
<1>3. last.calls = ids
  BY DEF Message
<1> HIDE DEF m, n, last
<1>4. ASSUME NEW i \in DOMAIN n, NEW j \in DOMAIN n[i].calls,
             n[i].role = "assistant", n[i].calls[j] \notin unsettled'
      PROVE  AnsweredBehind(n, i, j) \/ Due(Messages, i, j)'
  <2>1. i \in 1..(Len(m) + 1)
    BY <1>1, <1>2
  <2>2. CASE i \in 1..Len(m)
    <3>1. n[i] = m[i] /\ m[i].calls[j] \notin unsettled
      BY <1>1, <1>4, <2>2
    <3> QED BY <1>1, <1>4, <2>2, <3>1
  <2>3. CASE i \notin 1..Len(m)
    <3>1. i = Len(m) + 1 /\ i = Len(n)
      BY <1>1, <1>2, <2>1, <2>3
    <3>2. j \in 1..Len(calls) /\ n[i].calls[j] = calls[j].id
      BY <1>1, <1>3, <1>4, <3>1
    <3>3. Due(Messages, Len(Messages), j)'
      BY <1>4, <3>2
    <3> QED BY <3>1, <3>3 DEF n
  <2> QED BY <2>2, <2>3
<1> QED BY <1>4 DEF Paired, n

LEMMA StreamPausesStep ==
  ASSUME DialogueInv, DialogueNext, NEW calls \in NewCalls, StreamPauses(calls)
  PROVE  DialogueInv'
<1> DEFINE id == calls[1].id
<1>1. /\ step = "llm" /\ step' = "idle" /\ CommitOutputs(calls) /\ Len(calls) = 1
      /\ calls[1].name = "ask" /\ group' = group /\ unsettled' = unsettled
  BY DEF StreamPauses
<1>2. /\ dialogue' \in Seq(EntryType) /\ CallsAreNumbered' /\ MessagesTell'
      /\ id \in Called' \ Answered'
      /\ Len(Messages') = Len(Messages) + 1
      /\ Messages'[Len(Messages) + 1] = Message("assistant", [k \in 1..1 |-> calls[k].id])
  BY <1>1, CommitStep
<1>3. GroupIsOpen'
  <2>1. group = <<>>
    BY <1>1, InvGives DEF GroupIsOpen
  <2>2. DOMAIN group' = {} /\ group' = <<>>
    BY <1>1, <2>1
  <2> QED BY <1>1, <2>2 DEF GroupIsOpen
<1>4. LastMessage'
  BY <1>1 DEF LastMessage
<1>5. Pending' = id
  <2> DEFINE d == dialogue'
             open == OpenQuestions'
  <2>1. calls # <<>>
    BY <1>1
  <2>2. PICK x \in Seq(EntryType) : /\ dialogue' = dialogue \o x /\ Len(x) = 1
                                    /\ x[1] = CallEntry(calls[1])
    <3>1. PICK x \in Seq(EntryType) :
            /\ dialogue' = dialogue \o x /\ Len(x) = Len(calls)
            /\ \A k \in 1..Len(calls) : x[k] = CallEntry(calls[k])
      BY <1>1, <2>1, CommitAppends
    <3>2. x[1] = CallEntry(calls[1])
      BY <1>1, <3>1
    <3> QED BY <1>1, <3>1, <3>2
  <2>3. Len(d) = Len(dialogue) + 1 /\ d[Len(dialogue) + 1] = CallEntry(calls[1])
        /\ Len(dialogue) \in Nat
    <3>1. Len(d) = Len(dialogue) + Len(x) /\ Len(dialogue) \in Nat
          /\ \A k \in 1..Len(x) : d[Len(dialogue) + k] = x[k]
      <4>1. DialogueTypes /\ Len(dialogue) \in Nat
        BY InvGives
      <4> QED BY <2>2, <4>1, EntriesGrow
    <3>2. 1 \in 1..Len(x)
      BY <2>2
    <3> QED BY <2>2, <3>1, <3>2
  <2>4. Len(d) \in Nat /\ DOMAIN d = 1..Len(d) /\ Len(d) \in DOMAIN d
        /\ d[Len(d)].kind = "call" /\ d[Len(d)].id = id /\ d[Len(d)].name = "ask"
    <3>1. \A c : CallEntry(c).kind = "call" /\ CallEntry(c).id = c.id /\ CallEntry(c).name = c.name
      BY DEF CallEntry, Entry
    <3>2. Len(d) \in Nat /\ DOMAIN d = 1..Len(d) /\ Len(d) \in DOMAIN d
      BY <1>2, <2>3
    <3> QED BY <1>1, <2>3, <3>1, <3>2
  <2>5. Len(d) \in open
    BY <1>2, <2>4 DEF OpenQuestions, Entries
  <2>6. open \in SUBSET (1..Len(d))
    BY <2>4 DEF OpenQuestions, Entries
  <2>7. Pending' = IF open = {} THEN 0 ELSE d[Max(open)].id
    BY DEF Pending
  <2> HIDE DEF open, d
  <2>8. Max(open) = Len(d)
    BY <2>4, <2>5, <2>6, MaxIs
  <2> QED BY <2>4, <2>5, <2>7, <2>8
<1>6. Paired'
  <2>1. ASSUME NEW j \in 1..Len(calls) PROVE Due(Messages, Len(Messages), j)'
    <3>1. Messages'[Len(Messages')] = Message("assistant", [k \in 1..1 |-> calls[k].id])
      BY <1>2
    <3>2. [k \in 1..1 |-> calls[k].id] = <<id>>
      OBVIOUS
    <3>3. Messages'[Len(Messages')].calls = <<id>>
      BY <3>1, <3>2 DEF Message
    <3> QED BY <1>1, <1>5, <3>3 DEF Due
  <2>2. unsettled \subseteq unsettled'
    BY <1>1
  <2> QED BY <1>1, <2>1, <2>2, PairedCommit
<1> QED BY <1>2, <1>3, <1>4, <1>6, TypesStep DEF DialogueInv

LEMMA StreamCallsStep ==
  ASSUME DialogueInv, DialogueNext, NEW calls \in NewCalls, StreamCalls(calls)
  PROVE  DialogueInv'
<1>1. /\ step = "llm" /\ step' \in {"tools", "rejected"} /\ CommitOutputs(calls) /\ calls # <<>>
      /\ group' = calls /\ unsettled' = unsettled
  BY DEF StreamCalls
<1>2. /\ dialogue' \in Seq(EntryType) /\ CallsAreNumbered' /\ MessagesTell'
      /\ \A i \in 1..Len(calls) : calls[i].id \in Called' \ Answered'
      /\ Messages \in Seq(MessageType) /\ Len(Messages') = Len(Messages) + 1
      /\ Messages' \in Seq(MessageType)
      /\ Messages'[Len(Messages) + 1]
           = Message("assistant", [k \in 1..Len(calls) |-> calls[k].id])
  BY <1>1, CommitStep
<1>3. GroupIsOpen'
  <2>1. DOMAIN calls = 1..Len(calls)
    BY NewCallsAre
  <2>2. \A i, j \in DOMAIN group' : group'[i].id = group'[j].id => i = j
    BY <1>1, <2>1, NewCallsDistinct
  <2>3. \A i \in DOMAIN group' : group'[i].id \in Called' \ Answered'
    BY <1>1, <1>2, <2>1
  <2> QED BY <1>1, <2>2, <2>3 DEF GroupIsOpen
<1>4. LastMessage'
  <2>1. Len(Messages) \in Nat /\ Messages' # <<>>
    <3>1. Len(Messages) \in Nat /\ Len(Messages') # 0
      BY <1>2
    <3> QED BY <3>1
  <2>2. Messages'[Len(Messages')] = Message("assistant", [k \in 1..Len(group') |-> group'[k].id])
    BY <1>1, <1>2
  <2> QED BY <1>1, <2>1, <2>2 DEF LastMessage
<1>5. Paired'
  <2>1. ASSUME NEW j \in 1..Len(calls) PROVE Due(Messages, Len(Messages), j)'
    BY <1>1 DEF Due
  <2>2. unsettled \subseteq unsettled'
    BY <1>1
  <2> QED BY <1>1, <2>1, <2>2, PairedCommit
<1> QED BY <1>2, <1>3, <1>4, <1>5, TypesStep DEF DialogueInv

LEMMA StreamEndsStep ==
  ASSUME DialogueInv, DialogueNext, NEW calls \in NewCalls, StreamEnds(calls)
  PROVE  DialogueInv'
<1>1. /\ step = "llm" /\ step' = "idle" /\ CommitOutputs(calls) /\ group' = group
      /\ unsettled' = unsettled \cup Ids(calls)
  BY DEF StreamEnds
<1>2. dialogue' \in Seq(EntryType) /\ CallsAreNumbered' /\ MessagesTell'
  BY <1>1, CommitStep
<1>3. GroupIsOpen' /\ LastMessage'
  <2>1. group = <<>>
    BY <1>1, InvGives DEF GroupIsOpen
  <2>2. DOMAIN group' = {} /\ group' = <<>>
    BY <1>1, <2>1
  <2> QED BY <1>1, <2>2 DEF GroupIsOpen, LastMessage
<1>4. Paired'
  <2>1. \A j \in 1..Len(calls) : calls[j].id \in Ids(calls)
    BY NewCallsAre DEF Ids, ToSet
  <2>2. unsettled \subseteq unsettled' /\ \A j \in 1..Len(calls) : calls[j].id \in unsettled'
    BY <1>1, <2>1
  <2> QED BY <1>1, <2>2, PairedCommit
<1> QED BY <1>2, <1>3, <1>4, TypesStep DEF DialogueInv

LEMMA ResultsCommitStep ==
  ASSUME DialogueInv, DialogueNext, ResultsCommit
  PROVE  DialogueInv'
<1> DEFINE x == Results(group)
<1>1. /\ step \in {"tools", "rejected"} /\ step' \in {"idle", "llm"} /\ dialogue' = dialogue \o x
      /\ group' = <<>> /\ unsettled' = unsettled
  BY DEF ResultsCommit
<1>2. /\ GroupIsOpen /\ LastMessage /\ DialogueTypes /\ Len(group) \in Nat
      /\ DOMAIN group = 1..Len(group) /\ group # <<>>
      /\ \A k \in 1..Len(group) : group[k].id \in Called \ Answered
      /\ \A k \in 1..Len(group) : group[k].id \in 1..MaxDialogueCalls
  <2>1. GroupIsOpen /\ LastMessage /\ DialogueTypes /\ group \in Seq(CallType)
    BY InvGives DEF DialogueTypes
  <2>2. Len(group) \in Nat /\ DOMAIN group = 1..Len(group) /\ group # <<>>
    BY <1>1, <2>1 DEF GroupIsOpen
  <2>3. \A k \in 1..Len(group) : group[k].id \in Called \ Answered
    BY <2>1, <2>2 DEF GroupIsOpen
  <2>4. \A k \in 1..Len(group) : group[k].id \in 1..MaxDialogueCalls
    BY <2>1, <2>3, CalledAre
  <2> QED BY <2>1, <2>2, <2>3, <2>4
<1>3. /\ x \in Seq(EntryType) /\ x # <<>> /\ Len(x) = Len(group)
      /\ \A k \in 1..Len(x) : x[k].kind = "result" /\ x[k].id = group[k].id
  <2>1. x = [k \in 1..Len(group) |-> Result(group[k].id)]
    BY <1>2 DEF Results
  <2>2. \A k \in 1..Len(group) : /\ Result(group[k].id) \in EntryType
                                 /\ Result(group[k].id).kind = "result"
                                 /\ Result(group[k].id).id = group[k].id
    BY <1>2, InputsAre
  <2> HIDE DEF x
  <2>3. x \in Seq(EntryType) /\ Len(x) = Len(group)
    BY <1>2, <2>1, <2>2
  <2>4. x # <<>>
    <3>1. Len(x) > 0
      BY <1>2, <2>3, EmptySeq
    <3> QED BY <3>1
  <2> QED BY <2>1, <2>2, <2>3, <2>4
<1> HIDE DEF x
<1>4. \A k \in 1..Len(x) : x[k].kind = "result" /\ x[k].id \in Called \ Answered
  BY <1>2, <1>3
<1>5. /\ dialogue' \in Seq(EntryType) /\ CallsAreNumbered' /\ MessagesTell'
      /\ Messages' # <<>> /\ Messages'[Len(Messages')].role # "assistant"
  BY <1>1, <1>3, <1>4, AloneStep
<1>6. GroupIsOpen' /\ LastMessage'
  <2>1. DOMAIN group' = {}
    BY <1>1
  <2> QED BY <1>1, <1>5, <2>1 DEF GroupIsOpen, LastMessage
<1>7. Paired'
  <2>1. ASSUME NEW i \in 1..Len(Messages), NEW j \in DOMAIN Messages[i].calls,
               Messages[i].role = "assistant", Due(Messages, i, j)
        PROVE  AnsweredBehind(Messages', i, j)
    <3>1. i = Len(Messages)
      BY <2>1 DEF Due
    <3>2. Messages[i].calls = [k \in 1..Len(group) |-> group[k].id]
      BY <1>1, <1>2, <3>1 DEF LastMessage, Message
    <3>3. Messages[i].calls = [k \in 1..Len(x) |-> x[k].id]
      BY <1>3, <3>2
    <3>4. j \in 1..Len(x)
      BY <2>1, <3>3
    <3>5. \A h, k \in 1..Len(x) : x[h].id = x[k].id => h = k
      BY <1>2, <1>3 DEF GroupIsOpen
    <3> QED BY <1>1, <1>3, <1>4, <2>1, <3>1, <3>3, <3>4, <3>5, ResultsAnswer
  <2> QED BY <1>1, <1>3, <1>4, <2>1, PairedAlone
<1> QED BY <1>5, <1>6, <1>7, TypesStep DEF DialogueInv

-----------------------------------------------------------------------------

\* The calls of a history are numbered, a tool's message is the result of one of them, and each
\* call of the assistant has its result behind it, is cut, or is due in the step under way.
THEOREM DialogueInvariant == DialogueSpec => []DialogueInv
<1>1. DialogueInit => DialogueInv
  <2> SUFFICES ASSUME DialogueInit PROVE DialogueInv
    OBVIOUS
  <2>1. /\ dialogue = <<>> /\ step = "idle" /\ group = <<>> /\ finished = {}
        /\ stopping = FALSE /\ unsettled = {} /\ inputs = 0 /\ MaxInputs \in Nat
    BY DialogueAssumption DEF DialogueInit
  <2>2. DialogueTypes
    <3>1. DOMAIN group = {} /\ dialogue \in Seq(EntryType) /\ group \in Seq(CallType)
      BY <2>1
    <3>2. stopping \in BOOLEAN
      BY <2>1, Zenon
    <3>3. inputs \in 0..MaxInputs
      BY <2>1
    <3> QED BY <2>1, <3>1, <3>2, <3>3 DEF DialogueTypes, DialogueTypeOK
  <2>3. Called = {} /\ Answered = {}
    BY <2>1 DEF Called, Answered, Entries
  <2>4. CallsAreNumbered
    <3>1. Cardinality({}) = 0 /\ 1..0 = {}
      BY FS_EmptySet
    <3> QED BY <2>3, <3>1 DEF CallsAreNumbered
  <2>5. GroupIsOpen
    <3>1. DOMAIN group = {}
      BY <2>1
    <3> QED BY <2>1, <3>1 DEF GroupIsOpen
  <2>6. Messages = <<>>
    <3>1. Encodes(MessagesUpTo(dialogue), dialogue, Len(dialogue))
      BY <2>2, UpToEncodes DEF DialogueTypes
    <3>2. Len(dialogue) = 0
      BY <2>1
    <3> QED BY <3>1, <3>2 DEF Encodes, Messages
  <2>7. MessagesTell /\ LastMessage /\ Paired
    <3>1. DOMAIN Messages = {}
      BY <2>6
    <3> QED BY <2>1, <3>1 DEF MessagesTell, LastMessage, Paired
  <2> QED BY <2>2, <2>4, <2>5, <2>7 DEF DialogueInv
<1>2. DialogueInv /\ [DialogueNext]_dialogueVars => DialogueInv'
  <2> SUFFICES ASSUME DialogueInv, [DialogueNext]_dialogueVars PROVE DialogueInv'
    OBVIOUS
  <2>1. CASE DialogueNext
    BY <2>1, UserMessageStep, DeveloperNoticeStep, AnswerQuestionStep, StopStep, StreamPausesStep,
      StreamCallsStep, StreamEndsStep, ToolFinishesStep, ResultsCommitStep, RunDiesStep
      DEF DialogueNext
  <2>2. CASE UNCHANGED dialogueVars
    <3>1. /\ dialogue' = dialogue /\ step' = step /\ group' = group /\ finished' = finished
          /\ stopping' = stopping /\ unsettled' = unsettled /\ inputs' = inputs
      BY <2>2 DEF dialogueVars
    <3>2. /\ Messages' = Messages /\ Called' = Called /\ Answered' = Answered /\ Pending' = Pending
          /\ CallsAreNumbered' /\ MessagesTell'
      BY <3>1, SameHistory
    <3>3. DialogueTypes'
      BY <3>1, InvGives DEF DialogueTypes, DialogueTypeOK
    <3>4. GroupIsOpen' /\ LastMessage'
      BY <3>1, <3>2, InvGives DEF GroupIsOpen, LastMessage
    <3>5. Paired'
      BY <3>1, <3>2, InvGives DEF Paired, Due
    <3> QED BY <3>2, <3>3, <3>4, <3>5 DEF DialogueInv
  <2> QED BY <2>1, <2>2
<1> QED BY <1>1, <1>2, PTL DEF DialogueSpec

\* RequestsAreAnswered (Conversation._run_loop, Harness.gather, _messages): whatever the runs
\* did before, a request has the result of every call directly behind the calls of its message,
\* unless the step of the call was cut.
THEOREM RequestsAreAnsweredAlways == DialogueSpec => []RequestsAreAnswered
<1>1. DialogueInv => RequestsAreAnswered
  <2> SUFFICES ASSUME DialogueInv, step = "llm",
                      NEW i \in DOMAIN Messages, NEW j \in DOMAIN Messages[i].calls,
                      Messages[i].role = "assistant", Messages[i].calls[j] \notin unsettled
               PROVE  AnsweredBehind(Messages, i, j)
    BY DEF RequestsAreAnswered, AnsweredBehind
  <2>1. ~Due(Messages, i, j)
    BY DEF Due
  <2> QED BY <2>1, InvGives DEF Paired
<1> QED BY <1>1, DialogueInvariant, PTL

-----------------------------------------------------------------------------
(* EventBus                                                                *)

\* The types, the property, and that only an event on its way is awaited.
EventInv == EventTypeOK /\ MissedIsDisplaced /\ (awaiting # {} => current # 0)

\* Every initial state satisfies the types and the property.
LEMMA EventInitInv == EventInit => EventInv
  BY EventAssumption DEF EventInit, EventInv, EventTypeOK, MissedIsDisplaced

\* What an event that enters the queue changes.
LEMMA EmitStep ==
  ASSUME EventInv, Emit \/ EmitNoisy
  PROVE  EventInv'
<1>. USE EventAssumption
<1>t. EventTypeOK /\ MissedIsDisplaced /\ (awaiting # {} => current # 0)
  BY DEF EventInv
<1>1. /\ entered' = entered + 1 /\ entered' <= MaxEvents /\ essential' \in {essential, essential \cup {entered + 1}}
      /\ left' = IF Full THEN left + 1 ELSE left
      /\ Full => entered + 1 \in essential'
      /\ UNCHANGED <<hub, current, awaiting, brokenOff, listening, since, handed>>
  BY <1>t DEF Emit, EmitNoisy, NoisyEnters, MakesRoom, hubVars, hearerVars, EventTypeOK
<1>2. left' \in 0..entered' /\ left <= left' /\ entered' - left' <= EventQueue /\ left' <= left + 1
  BY <1>t, <1>1 DEF Full, EventTypeOK
<1>3. EventTypeOK'
  BY <1>1, <1>2, <1>t DEF EventTypeOK
<1>4. ASSUME NEW h \in listening', NEW e \in essential', e > since'[h]
      PROVE  \/ e \in handed'[h] \/ e > left' \/ (e = current' /\ h \in awaiting')
             \/ e \in brokenOff' \/ Displaced(e)'
  <2>1. e \in 1..(entered + 1) /\ h \in Hearers /\ since[h] \in 0..entered
    BY <1>1, <1>t DEF EventTypeOK
  <2>2. CASE e = entered + 1
    BY <2>2, <1>1, <1>2, <1>t DEF EventTypeOK, Full
  <2>3. CASE e # entered + 1
    <3>1. e \in essential /\ h \in listening /\ e > since[h]
      BY <2>3, <1>1, <1>4
    <3>2. CASE Displaced(e)
      BY <3>2, <1>1, <1>t, <2>1 DEF Displaced, EventTypeOK
    <3>3. CASE e > left /\ ~(e > left')
      <4>1. Full /\ e = left + 1 /\ left' = left + 1
        BY <3>3, <1>1, <1>2, <2>1, <1>t DEF EventTypeOK
      <4>2. e + EventQueue <= entered'
        BY <4>1, <1>1, <2>1, <1>t DEF Full, EventTypeOK
      <4>3. entered + 1 \in essential' /\ e < entered + 1
        BY <4>1, <1>1, <2>1, <2>3
      <4>. QED BY <4>2, <4>3 DEF Displaced
    <3>. QED BY <3>1, <3>2, <3>3, <1>1, <1>t DEF MissedIsDisplaced
  <2>. QED BY <2>2, <2>3
<1>. QED BY <1>1, <1>3, <1>4, <1>t DEF EventInv, MissedIsDisplaced

\* A step of the hub or of a listener: the events in the queue are the same, but for the
\* one that leaves it.
LEMMA HubStep ==
  ASSUME EventInv,
         \/ StartHub \/ Dispatch \/ Dispatched \/ StopHub \/ HubStopped
         \/ \E h \in Hearers : AddListener(h) \/ RemoveListener(h) \/ Hears(h)
  PROVE  EventInv'
<1>. USE EventAssumption DEF busVars, hubVars, hearerVars
<1>t. EventTypeOK /\ MissedIsDisplaced /\ (awaiting # {} => current # 0)
  BY DEF EventInv
<1>1. entered' = entered /\ essential' = essential
  BY DEF StartHub, Dispatch, Dispatched, StopHub, HubStopped, AddListener, RemoveListener, Hears
<1>2. \A e : Displaced(e)' <=> Displaced(e)
  BY <1>1 DEF Displaced
<1>3. ASSUME StartHub \/ HubStopped PROVE EventInv'
  BY <1>3, <1>1, <1>2, <1>t DEF StartHub, HubStopped, EventInv, EventTypeOK, MissedIsDisplaced
<1>4. ASSUME Dispatch PROVE EventInv'
  <2>1. EventTypeOK'
    BY <1>4, <1>t DEF Dispatch, EventTypeOK
  <2>2. MissedIsDisplaced'
    BY <1>4, <1>1, <1>2, <1>t DEF Dispatch, EventTypeOK, MissedIsDisplaced
  <2>3. current' # 0
    BY <1>4, <1>t DEF Dispatch, EventTypeOK
  <2>. QED BY <2>1, <2>2, <2>3 DEF EventInv
<1>5. ASSUME Dispatched PROVE EventInv'
  BY <1>5, <1>1, <1>2, <1>t DEF Dispatched, EventInv, EventTypeOK, MissedIsDisplaced
<1>6. ASSUME StopHub PROVE EventInv'
  BY <1>6, <1>1, <1>2, <1>t DEF StopHub, EventInv, EventTypeOK, MissedIsDisplaced
<1>7. ASSUME NEW h \in Hearers, AddListener(h) \/ RemoveListener(h) PROVE EventInv'
  <2>a. /\ since' \in [Hearers -> 0..entered] /\ handed' \in [Hearers -> SUBSET (1..entered)]
        /\ listening' \subseteq Hearers
    <3>1. CASE AddListener(h)
      BY <3>1, <1>t DEF AddListener, EventTypeOK
    <3>2. CASE RemoveListener(h)
      BY <3>2, <1>t DEF RemoveListener, EventTypeOK
    <3>. QED BY <1>7, <3>1, <3>2
  <2>b. UNCHANGED <<busVars, hubVars>>
    BY <1>7 DEF AddListener, RemoveListener
  <2>1. EventTypeOK'
    BY <2>a, <2>b, <1>t DEF EventTypeOK
  <2>2. MissedIsDisplaced'
    BY <1>7, <1>1, <1>2, <1>t DEF AddListener, RemoveListener, EventTypeOK, MissedIsDisplaced
  <2>. QED BY <2>1, <2>2, <2>b, <1>t DEF EventInv
<1>8. ASSUME NEW h \in Hearers, Hears(h) PROVE EventInv'
  <2>a. current \in 1..entered
    BY <1>8, <1>t DEF Hears, EventTypeOK
  <2>1. EventTypeOK'
    BY <2>a, <1>8, <1>t DEF Hears, EventTypeOK
  <2>2. MissedIsDisplaced'
    BY <1>8, <1>1, <1>2, <1>t DEF Hears, EventTypeOK, MissedIsDisplaced
  <2>3. awaiting' # {} => current' # 0
    BY <1>8, <1>t DEF Hears
  <2>. QED BY <2>1, <2>2, <2>3 DEF EventInv
<1>. QED BY <1>3, <1>4, <1>5, <1>6, <1>7, <1>8

\* Every step preserves the invariant.
LEMMA EventStep == EventInv /\ [EventNext]_eventVars => EventInv'
<1>. SUFFICES ASSUME EventInv, [EventNext]_eventVars PROVE EventInv'
  OBVIOUS
<1>1. CASE UNCHANGED eventVars
  BY <1>1 DEF eventVars, busVars, hubVars, hearerVars, EventInv, EventTypeOK, MissedIsDisplaced, Displaced
<1>. QED BY <1>1, EmitStep, HubStep DEF EventNext

\* What a listener misses was displaced or broken off, for every size of the queue and
\* every set of listeners.
THEOREM MissedIsDisplacedAlways == EventSpec => []MissedIsDisplaced
<1>1. EventInv => MissedIsDisplaced
  BY DEF EventInv
<1>. QED BY <1>1, EventInitInv, EventStep, PTL DEF EventSpec
=============================================================================
