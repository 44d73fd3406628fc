------------------------------- MODULE Actors -------------------------------
(***************************************************************************)
(* The life of one actor: its record and its row, the Actor object in      *)
(* runtime.actors, the mailbox registry, the task that serves the mailbox, *)
(* and the requests that enable, disable, update and remove it             *)
(* (app/service.py, runtime/core.py, actor/lifecycle.py), with inbound     *)
(* messages (runtime/inbound.py, wakeup.py), a blocked or failed mailbox   *)
(* task, and a daemon that dies and loads its state again.                 *)
(*                                                                         *)
(* One lifecycle request runs at a time, as one administrator issues them; *)
(* everything else interleaves with it at its awaits.  A request runs from *)
(* one await to the next in one step.                                      *)
(***************************************************************************)
EXTENDS Naturals

CONSTANTS
  MaxActorObjects,  \* bound: Actor objects created
  MaxRecords,       \* bound: versions of the record
  MaxMail           \* bound: messages waiting in one mailbox

ASSUME ActorsAssumption ==
  MaxActorObjects \in Nat \ {0} /\ MaxRecords \in Nat \ {0} /\ MaxMail \in Nat \ {0}

VARIABLES
  record,    \* version of the actor's record in actor_records, 0 for none
  records,   \* versions written so far
  row,       \* its row of app_actors
  live,      \* its Actor object in runtime.actors, 0 for none
  built,     \* Actor objects created so far
  config,    \* the record version each Actor object was built from
  registry,  \* the mailbox the registry holds, 0 for none
  boxes,     \* mailboxes created so far
  boxOf,     \* the mailbox of each Actor object
  mail,      \* messages waiting in each mailbox
  serving,   \* the Actor object the task in _actor_tasks runs, 0 for no task
  handling,  \* what that task is doing
  compacted, \* _mailbox_context_compactions
  routed,    \* a route points to the actor
  request    \* the lifecycle request under way: what it is and where

actorVars == <<record, records, row, live, built, config, registry, boxes, boxOf, mail,
               serving, handling, compacted, routed, request>>
lifeVars == <<record, records, row, live, built, config, boxOf, serving, handling, compacted, request>>

ActorObjs == 1..MaxActorObjects
Boxes == 1..(2 * MaxActorObjects)   \* bound: mailboxes created
NoRow == [record |-> 0, enabled |-> FALSE, status |-> "none"]
NoRequest == [kind |-> "none", at |-> "none"]

ActorsInit ==
  /\ record = 0 /\ records = 0 /\ row = NoRow
  /\ live = 0 /\ built = 0 /\ config = [o \in ActorObjs |-> 0]
  /\ registry = 0 /\ boxes = 0 /\ boxOf = [o \in ActorObjs |-> 0] /\ mail = [b \in Boxes |-> 0]
  /\ serving = 0 /\ handling = "no" /\ compacted = 0 /\ routed = FALSE
  /\ request = NoRequest

-----------------------------------------------------------------------------

\* ActorMailboxRegistry.ensure.
Ensured == IF registry # 0 THEN registry ELSE boxes + 1
EnsureMailbox ==
  /\ Ensured \in Boxes
  /\ registry' = Ensured
  /\ boxes' = IF registry # 0 THEN boxes ELSE boxes + 1

\* mistake: the enabled column is left.
StatusColumnOnly(status, enabled) ==
  row' = IF row = NoRow THEN NoRow ELSE [row EXCEPT !.status = status]

\* set_actor_status touches the row that is there, with its enabled flag.
SetStatus(status, enabled) ==
  row' = IF row = NoRow THEN NoRow ELSE [row EXCEPT !.status = status, !.enabled = enabled]

Goto(kind, at) == request' = [kind |-> kind, at |-> at]

\* create_actor: a new Actor on the registered mailbox, from the record as it is now.
CreateActor ==
  /\ built < MaxActorObjects
  /\ built' = built + 1 /\ live' = built + 1
  /\ config' = [config EXCEPT ![built + 1] = record]
  /\ EnsureMailbox
  /\ boxOf' = [boxOf EXCEPT ![built + 1] = Ensured]
  /\ compacted' = 0

\* start_actor_task: not when a task is registered for the id.
StartTask(o) ==
  IF serving # 0 THEN UNCHANGED <<serving, handling>>
  ELSE serving' = o /\ handling' = "no"

\* enable_actor up to its await.
EnableActor(kind) ==
  /\ IF live = 0 THEN CreateActor
                 ELSE UNCHANGED <<live, built, config, registry, boxes, boxOf, compacted>>
  /\ StartTask(IF live = 0 THEN built + 1 ELSE live)
  /\ Goto(kind, "enabled")
  /\ UNCHANGED <<record, records, row, mail, routed>>

RequestEnable ==
  /\ request = NoRequest /\ record # 0
  /\ EnableActor("enable")

StatusRunning ==
  /\ request.at = "enabled"
  /\ SetStatus("running", TRUE)
  /\ request' = NoRequest
  /\ UNCHANGED <<record, records, live, built, config, registry, boxes, boxOf, mail,
                 serving, handling, compacted, routed>>

\* mistake: the Actor stays in the map.
KeepActor(kind) ==
  /\ Goto(kind, IF live # 0 THEN "closing" ELSE "dropping")
  /\ UNCHANGED <<record, records, row, live, built, config, registry, boxes, boxOf, mail,
                 serving, handling, compacted, routed>>

\* disable_actor: the Actor leaves the map at once, its pool is shut down.
PopActor(kind) ==
  /\ live' = 0
  /\ Goto(kind, IF live # 0 THEN "closing" ELSE "dropping")
  /\ UNCHANGED <<record, records, row, built, config, registry, boxes, boxOf, mail,
                 serving, handling, compacted, routed>>

RequestDisable == request = NoRequest /\ record # 0 /\ PopActor("disable")

\* stop_actor_task: the task is cancelled, a message in its hands is lost.
StopTask ==
  /\ request.at = "closing"
  /\ serving' = 0 /\ handling' = "no"
  /\ Goto(request.kind, "dropping")
  /\ UNCHANGED <<record, records, row, live, built, config, registry, boxes, boxOf, mail,
                 compacted, routed>>

\* The end of disable_actor: conversations and the mailbox are dropped, with what it holds.
DropMailbox ==
  /\ request.at = "dropping"
  /\ registry' = 0
  /\ mail' = IF registry = 0 THEN mail ELSE [mail EXCEPT ![registry] = 0]
  /\ Goto(request.kind, "dropped")
  /\ UNCHANGED <<record, records, row, live, built, config, boxes, boxOf, serving, handling,
                 compacted, routed>>

StatusDisabled ==
  /\ request.at = "dropped"
  /\ SetStatus("disabled", FALSE)
  /\ IF request.kind = "disable" THEN request' = NoRequest ELSE Goto(request.kind, "disabled")
  /\ UNCHANGED <<record, records, live, built, config, registry, boxes, boxOf, mail,
                 serving, handling, compacted, routed>>

-----------------------------------------------------------------------------

\* put_actor: the model was validated; update_actor disables a live actor first.
RequestUpdate ==
  /\ request = NoRequest /\ records < MaxRecords
  /\ IF live # 0 THEN PopActor("update")
     ELSE /\ Goto("update", "disabled")
          /\ UNCHANGED <<record, records, row, live, built, config, registry, boxes, boxOf, mail,
                         serving, handling, compacted, routed>>

\* put_actor_record: the record in memory, then the row, its three commits taken as one.
PutRecord ==
  /\ request = [kind |-> "update", at |-> "disabled"]
  /\ records' = records + 1 /\ record' = records + 1
  /\ Goto("update", "writing")
  /\ UNCHANGED <<row, live, built, config, registry, boxes, boxOf, mail, serving, handling,
                 compacted, routed>>

WriteRow ==
  /\ request.at = "writing"
  /\ row' = [record |-> record, enabled |-> TRUE, status |-> "idle"]
  /\ Goto("update", "written")
  /\ UNCHANGED <<record, records, live, built, config, registry, boxes, boxOf, mail, serving,
                 handling, compacted, routed>>

EnableUpdated == request.at = "written" /\ EnableActor("update")

\* _validate_actor_model refuses: the alias or endpoint went away after the first validation.
ModelGone ==
  /\ request.at \in {"written", "loading"} /\ live = 0
  /\ request' = NoRequest
  /\ row' = IF request.at = "loading" THEN [row EXCEPT !.status = "blocked"] ELSE row
  /\ UNCHANGED <<record, records, live, built, config, registry, boxes, boxOf, mail, serving,
                 handling, compacted, routed>>

\* remove_actor: disable, uninstall the tools, and forget the record and the row.
RequestRemove == request = NoRequest /\ record # 0 /\ PopActor("remove")

UninstallFails ==
  /\ request = [kind |-> "remove", at |-> "disabled"]
  /\ SetStatus("disabled", FALSE)
  /\ request' = NoRequest
  /\ UNCHANGED <<record, records, live, built, config, registry, boxes, boxOf, mail, serving,
                 handling, compacted, routed>>

ForgetRecord ==
  /\ request = [kind |-> "remove", at |-> "disabled"]
  /\ record' = 0 /\ registry' = 0
  /\ Goto("remove", "deleting")
  /\ UNCHANGED <<records, row, live, built, config, boxes, boxOf, mail, serving, handling,
                 compacted, routed>>

DeleteRow ==
  /\ request.at = "deleting"
  /\ row' = NoRow
  /\ request' = NoRequest
  /\ UNCHANGED <<record, records, live, built, config, registry, boxes, boxOf, mail, serving,
                 handling, compacted, routed>>

-----------------------------------------------------------------------------

\* WakeupDelivery.deliver: to the registered mailbox, which it creates when there is none.
Deliver ==
  /\ EnsureMailbox
  /\ mail[Ensured] < MaxMail
  /\ mail' = [mail EXCEPT ![Ensured] = @ + 1]
  /\ UNCHANGED <<lifeVars, routed>>

\* deliver_actor_inbound: only to an actor that runs.
ActorInbound == record # 0 /\ live # 0 /\ Deliver

\* deliver_app_webhook: wherever the route points, whether the actor runs or not.
Webhook == routed /\ Deliver

\* put_route checks the actor, delete_route nothing; both rebind from the rows.
PutRoute ==
  /\ ~routed /\ (record # 0 \/ live # 0)
  /\ routed' = TRUE
  /\ UNCHANGED <<lifeVars, registry, boxes, mail>>

DeleteRoute ==
  /\ routed
  /\ routed' = FALSE
  /\ UNCHANGED <<lifeVars, registry, boxes, mail>>

\* What a step of the mailbox task leaves alone.
TaskKeeps == UNCHANGED <<record, records, live, built, config, registry, boxes, boxOf, routed, request>>

\* Actor.run: receive the next message.
Receive ==
  /\ serving # 0 /\ handling = "no"
  /\ mail[boxOf[serving]] > 0
  /\ mail' = [mail EXCEPT ![boxOf[serving]] = @ - 1]
  /\ handling' = "run"
  /\ TaskKeeps /\ UNCHANGED <<row, serving, compacted>>

\* handle_mailbox_message: the run ended, or the conversation was busy.
Handled ==
  /\ handling = "run"
  /\ handling' = "no"
  /\ TaskKeeps /\ UNCHANGED <<row, mail, serving, compacted>>

\* _compact_or_continue_mailbox: past the threshold, one compaction and a continuation.
Compact ==
  /\ handling = "run" /\ compacted = 0
  /\ compacted' = 1
  /\ TaskKeeps /\ UNCHANGED <<row, mail, serving, handling>>

\* _stop_mailbox_context_compaction: the second time the conversation is dropped.
StopCompaction ==
  /\ handling = "run" /\ compacted = 1
  /\ compacted' = 0
  /\ row' = IF row = NoRow THEN NoRow ELSE [row EXCEPT !.status = "idle"]
  /\ handling' = "no"
  /\ TaskKeeps /\ UNCHANGED <<mail, serving>>

\* ConversationBlocked: the status is written, then the task ends.
Block ==
  /\ handling = "run"
  /\ handling' = "blocked"
  /\ TaskKeeps /\ UNCHANGED <<row, mail, serving, compacted>>

Blocked ==
  /\ handling = "blocked"
  /\ row' = IF row = NoRow THEN NoRow ELSE [row EXCEPT !.status = "blocked"]
  /\ serving' = 0 /\ handling' = "no"
  /\ TaskKeeps /\ UNCHANGED <<mail, compacted>>

\* Any other error of a run ends the task; nothing is written.
TaskDies ==
  /\ handling = "run"
  /\ serving' = 0 /\ handling' = "no"
  /\ TaskKeeps /\ UNCHANGED <<row, mail, compacted>>

-----------------------------------------------------------------------------

\* The daemon dies and loads its rows again.
Restart ==
  /\ row # NoRow \/ request # NoRequest
  /\ record' = row.record
  /\ live' = 0 /\ registry' = 0 /\ serving' = 0 /\ handling' = "no"
  /\ mail' = [b \in Boxes |-> 0]
  /\ request' = IF row.enabled THEN [kind |-> "load", at |-> "loading"] ELSE NoRequest
  /\ UNCHANGED <<records, row, built, config, boxes, boxOf, compacted, routed>>

LoadActor == request.at = "loading" /\ EnableActor("load")

ActorsNext ==
  \/ RequestEnable \/ StatusRunning \/ RequestDisable \/ StopTask \/ DropMailbox \/ StatusDisabled
  \/ RequestUpdate \/ PutRecord \/ WriteRow \/ EnableUpdated \/ ModelGone
  \/ RequestRemove \/ UninstallFails \/ ForgetRecord \/ DeleteRow
  \/ ActorInbound \/ Webhook \/ PutRoute \/ DeleteRoute
  \/ Receive \/ Handled \/ Compact \/ StopCompaction \/ Block \/ Blocked \/ TaskDies
  \/ Restart \/ LoadActor

ActorsSpec == ActorsInit /\ [][ActorsNext]_actorVars

-----------------------------------------------------------------------------

ActorsTypeOK ==
  /\ record \in 0..MaxRecords /\ records \in 0..MaxRecords
  /\ row \in [record : 0..MaxRecords, enabled : BOOLEAN,
              status : {"none", "idle", "running", "disabled", "blocked"}]
  /\ live \in 0..MaxActorObjects /\ built \in 0..MaxActorObjects
  /\ config \in [ActorObjs -> 0..MaxRecords]
  /\ registry \in {0} \cup Boxes /\ boxes \in {0} \cup Boxes /\ boxOf \in [ActorObjs -> {0} \cup Boxes]
  /\ mail \in [Boxes -> 0..MaxMail]
  /\ serving \in 0..MaxActorObjects /\ handling \in {"no", "run", "blocked"}
  /\ compacted \in 0..1 /\ routed \in BOOLEAN
  /\ request \in [kind : {"none", "enable", "disable", "update", "remove", "load"},
                  at : {"none", "enabled", "closing", "dropping", "dropped", "disabled", "writing",
                        "written", "deleting", "loading"}]

\* Between two lifecycle requests the actor that runs is the one its record describes and
\* the one that is woken: built from the newest version, waiting on the mailbox the registry
\* hands to inbound messages, and no task serves an Actor that was replaced.
LiveActorListens ==
  request = NoRequest =>
    /\ live # 0 => boxOf[live] = registry /\ config[live] = record
    /\ serving \in {0, live}

\* Between two lifecycle requests the row says what runs, and what will run after a restart:
\* a live actor is enabled, a row shown as running has an Actor, one shown as disabled has
\* none and is not enabled by the next start, and a record has its row.
RowTellsTheActor ==
  request = NoRequest =>
    /\ live # 0 => row.enabled
    /\ row.status = "disabled" => live = 0 /\ ~row.enabled
    /\ row.status = "running" => live # 0
    /\ record = row.record
=============================================================================
