------------------------------ MODULE Retention ------------------------------
(***************************************************************************)
(* How long the registry keeps the record of a task that has ended         *)
(* (TaskRegistry of runtime/tasks.py over runtime/expiring_index.py).      *)
(* A record is kept for a window that depends on how its result is         *)
(* delivered; behind the window the records share a budget of bytes, and   *)
(* the one touched longest ago goes first.  Nothing runs when a window     *)
(* ends: every access to the index evicts before it looks.                 *)
(*                                                                         *)
(* TaskTree and TaskDelivery model how tasks end and are delivered; here   *)
(* they end and are delivered at any time, and the clock advances.         *)
(***************************************************************************)
EXTENDS Naturals, FiniteSets, FiniteSetsExt

CONSTANTS
  Kept,               \* task records, numbered in the order of sorted()
  BytesOf,             \* their bytes: record -> Nat
  MaxSize,            \* DEFAULT_MAX_SIZE_BYTES
  ManualTtl,          \* ttl_s
  PendingRetention,   \* PENDING_DELIVERY_TASK_RETENTION_S
  DeliveredRetention, \* DELIVERED_TASK_MIN_RETENTION_S
  MaxTime             \* bound: the clock

ASSUME RetentionAssumption ==
  /\ Kept \subseteq Nat /\ BytesOf \in [Kept -> Nat] /\ MaxSize \in Nat
  /\ {ManualTtl, PendingRetention, DeliveredRetention} \subseteq Nat \ {0}
  /\ MaxTime \in Nat

\* expires_at is None: later than the clock and than every window.
Never == MaxTime + ManualTtl + PendingRetention + DeliveredRetention + 1

VARIABLES
  clock,     \* time.monotonic
  delivery,  \* "none" before the task, "manual" or "conversation"
  decision, \* delivery_state
  place,     \* "live" (_records), "kept" (terminal_records), "gone"
  metadata,  \* ExpiringIndexMetadata of the kept ones
  waiting,   \* _pending_task_deliveries of the conversation
  owed       \* the time up to which the record must be there

retentionVars == <<clock, delivery, decision, place, metadata, waiting, owed>>

NoData == [retain |-> 0, expires |-> 0, touched |-> 0, created |-> 0]

Deliveries == {"held", "pending", "queued", "delivered", "skipped"}
Undecided  == {"held", "pending", "queued"}

RetentionTypeOK ==
  /\ clock \in 0..MaxTime
  /\ delivery \in [Kept -> {"none", "manual", "conversation"}]
  /\ decision \in [Kept -> Deliveries]
  /\ place \in [Kept -> {"none", "live", "kept", "gone"}]
  /\ metadata \in [Kept -> [retain : 0..Never, expires : 0..Never, touched : 0..MaxTime,
                          created : 0..MaxTime]]
  /\ waiting \subseteq Kept
  /\ owed \in [Kept -> 0..Never]

RetentionInit ==
  /\ clock = 0
  /\ delivery = [t \in Kept |-> "none"] /\ decision = [t \in Kept |-> "pending"]
  /\ place = [t \in Kept |-> "none"] /\ metadata = [t \in Kept |-> NoData]
  /\ waiting = {} /\ owed = [t \in Kept |-> 0]

-----------------------------------------------------------------------------
(* ExpiringIndex.evict.                                                    *)

Expired(data) == {t \in DOMAIN data : clock >= data[t].expires}

\* mistake: a window protects nothing from the budget.
Everything(data) == DOMAIN data \ Expired(data)

\* The candidates: protected records are neither counted nor evicted.
Unprotected(data) == {t \in DOMAIN data \ Expired(data) : clock >= data[t].retain}

\* sorted(candidates).
Older(data, s, t) ==
  \/ data[s].touched < data[t].touched
  \/ /\ data[s].touched = data[t].touched
     /\ data[s].created < data[t].created \/ (data[s].created = data[t].created /\ s < t)

Bytes(records) == MapThenSumSet(LAMBDA t : BytesOf[t], records)

Fits(records) == Bytes(records) <= MaxSize

\* A candidate goes while it and those after it are too many.
OverBudget(data) ==
  LET candidates == Unprotected(data)
  IN {t \in candidates : ~Fits({s \in candidates : ~Older(data, s, t)})}

Evicted(data) == Expired(data) \cup OverBudget(data)

InIndex == {t \in Kept : place[t] = "kept"}

\* The index after an access: data are the metadata of the records in it.  A record that was
\* in the index and is not there any more is gone.
IndexBecomes(data) ==
  LET left == DOMAIN data \ Evicted(data) IN
  /\ place' = [t \in Kept |-> IF t \in left THEN "kept"
                              ELSE IF t \in InIndex \cup DOMAIN data THEN "gone" ELSE place[t]]
  /\ metadata' = [t \in Kept |-> IF t \in left THEN data[t] ELSE NoData]

\* evict() at the head of every access.
Accessed ==
  LET all == [t \in InIndex |-> metadata[t]]
  IN [t \in InIndex \ Evicted(all) |-> metadata[t]]

With(data, t, new) == [s \in DOMAIN data \cup {t} |-> IF s = t THEN new ELSE data[s]]

\* _terminal_retention.
RetentionOf(t, state) ==
  CASE delivery[t] = "manual" -> [retain |-> clock + ManualTtl, expires |-> clock + ManualTtl]
    [] delivery[t] # "manual" /\ state \in Undecided ->
         [retain |-> clock + PendingRetention, expires |-> clock + PendingRetention]
    [] OTHER -> [retain |-> clock + DeliveredRetention, expires |-> Never]

Metadata(window, created) ==
  [retain |-> window.retain, expires |-> window.expires, touched |-> clock, created |-> created]

\* refresh_terminal_retention: a record that is there gets the window of its new state.
Refresh(t, state) ==
  IF t \in DOMAIN Accessed /\ delivery[t] # "manual"
  THEN /\ IndexBecomes(With(Accessed, t, Metadata(RetentionOf(t, state), metadata[t].created)))
       /\ owed' = [owed EXCEPT ![t] = RetentionOf(t, state).retain]
  ELSE IndexBecomes(Accessed) /\ UNCHANGED owed

-----------------------------------------------------------------------------

Tick ==
  /\ clock < MaxTime /\ clock' = clock + 1
  /\ UNCHANGED <<delivery, decision, place, metadata, waiting, owed>>

\* TaskRegistry.put.
RecordPut(t, kind, state) ==
  /\ place[t] = "none"
  /\ delivery' = [delivery EXCEPT ![t] = kind]
  /\ decision' = [decision EXCEPT ![t] = state]
  /\ place' = [place EXCEPT ![t] = "live"]
  /\ UNCHANGED <<clock, metadata, waiting, owed>>

\* _finish and mark_terminal; a parent that takes the notice decides the delivery first.
RecordEnds(t, state) ==
  /\ place[t] = "live"
  /\ state \in {decision[t], "delivered", "skipped"}
  /\ decision' = [decision EXCEPT ![t] = state]
  /\ IndexBecomes(With(Accessed, t, Metadata(RetentionOf(t, state), clock)))
  /\ owed' = [owed EXCEPT ![t] = RetentionOf(t, state).retain]
  /\ UNCHANGED <<clock, delivery, waiting>>

\* release_held_delivery: True refreshes nothing, False (with its caller) does.
ReleaseHeld(t, deliver) ==
  /\ place[t] = "kept" /\ decision[t] = "held"
  /\ decision' = [decision EXCEPT ![t] = IF deliver THEN "pending" ELSE "skipped"]
  /\ IF deliver THEN UNCHANGED <<place, metadata, owed>> ELSE Refresh(t, "skipped")
  /\ UNCHANGED <<clock, delivery, waiting>>

\* schedule_task_delivery holds the record itself: it needs no registry.
CoordinatorQueues(t) ==
  /\ place[t] \in {"kept", "gone"} /\ decision[t] = "pending" /\ delivery[t] = "conversation"
  /\ decision' = [decision EXCEPT ![t] = "queued"]
  /\ waiting' = waiting \cup {t}
  /\ UNCHANGED <<clock, delivery, place, metadata, owed>>

CoordinatorSettles(t, state) ==
  /\ place[t] \in {"kept", "gone"} /\ decision[t] = "pending"
  /\ state = "skipped" \/ delivery[t] = "conversation"
  /\ decision' = [decision EXCEPT ![t] = state]
  /\ Refresh(t, state)
  /\ UNCHANGED <<clock, delivery, waiting>>

\* drain_pending_task_deliveries and the skip of an interrupt look the ids up; an id whose
\* record is gone, or is decided about, is passed over.
DrainQueued(t, state) ==
  /\ t \in waiting
  /\ waiting' = waiting \ {t}
  /\ IF t \in DOMAIN Accessed /\ decision[t] \in {"pending", "queued"}
     THEN /\ decision' = [decision EXCEPT ![t] = state]
          /\ Refresh(t, state)
     ELSE /\ IndexBecomes(Accessed)
          /\ UNCHANGED <<decision, owed>>
  /\ UNCHANGED <<clock, delivery>>

\* registry.get of a kept record touches it.
ReadRecord(t) ==
  /\ place[t] = "kept"
  /\ IF t \in DOMAIN Accessed
     THEN IndexBecomes([Accessed EXCEPT ![t].touched = clock])
     ELSE IndexBecomes(Accessed)
  /\ UNCHANGED <<clock, delivery, decision, waiting, owed>>

\* registry.list does not.
ListRecords ==
  /\ IndexBecomes(Accessed)
  /\ UNCHANGED <<clock, delivery, decision, waiting, owed>>

RetentionNext ==
  \/ Tick \/ ListRecords
  \/ \E t \in Kept :
       \/ RecordPut(t, "manual", "pending")
       \/ \E state \in {"pending", "held"} : RecordPut(t, "conversation", state)
       \/ \E state \in Deliveries : RecordEnds(t, state)
       \/ \E deliver \in BOOLEAN : ReleaseHeld(t, deliver)
       \/ CoordinatorQueues(t)
       \/ \E state \in {"delivered", "skipped"} :
            CoordinatorSettles(t, state) \/ DrainQueued(t, state)
       \/ ReadRecord(t)

RetentionSpec == RetentionInit /\ [][RetentionNext]_retentionVars

-----------------------------------------------------------------------------

\* A record that is gone has outlived its window.
KeptAsOwed == \A t \in Kept : place[t] = "gone" => clock >= owed[t]

\* What an access leaves outside its window fits the budget.
BudgetHolds ==
  [t \in InIndex |-> metadata[t]] = Accessed =>
    Fits({t \in InIndex : clock >= metadata[t].retain})

\* A record is there as long as its last window says, whatever other tasks end, are read or
\* are delivered meanwhile and however many bytes they have; so a queued result is lost only
\* when the run it waits for outlasts the window.  And once a window is over the record still
\* counts: what is left outside its window fits the budget.
ResultsAreKept == KeptAsOwed /\ BudgetHolds
=============================================================================
