-------------------------------- MODULE Feed --------------------------------
(***************************************************************************)
(* What a browser sees of a conversation: the versions a Conversation      *)
(* object publishes (chat/loop.py), the bounded frame queue of one         *)
(* WebSocket (chat/listener.py), the commands that open, close and send    *)
(* (web/ws.py), and the client that follows the versions and asks for a    *)
(* snapshot when it sees a gap (use-conversation-session.ts).              *)
(*                                                                         *)
(* The web client opens one conversation per socket.  A conversation id    *)
(* has one Conversation object at a time, but the manager discards objects *)
(* (TTL sweep, disabled actor) and creates new ones, whose versions start  *)
(* again at 0.  Callbacks of subscribers never wait, so a publication and  *)
(* the frame it queues are one step.                                       *)
(***************************************************************************)
EXTENDS Integers, Sequences

CONSTANTS
  QueueSize,   \* CONVERSATION_QUEUE_SIZE
  MaxVersion,  \* bound: versions an object publishes
  MaxObjects,  \* bound: Conversation objects of the id
  MaxErrors    \* bound: failed runs

ASSUME FeedAssumption ==
  QueueSize \in Nat \ {0} /\ MaxVersion \in Nat \ {0} /\ MaxObjects \in Nat \ {0} /\ MaxErrors \in Nat

Objs == 1..MaxObjects

VARIABLES
  heldObj,   \* the object the manager holds, 0 for none
  objects,   \* how many objects there have been
  version,   \* version of each object
  run,       \* the run of each object: idle, streaming, or done (still inside its gate)
  subs,      \* the object the listener is subscribed to, 0 for none
  frames,    \* _conversation_frames
  inHand,    \* the frame the worker is sending
  opening,   \* a conversation.open is on its way to the daemon
  view,      \* the client: localVersionRef, phase, resubscribingRef
  errors     \* failed runs so far

feedVars == <<heldObj, objects, version, run, subs, frames, inHand, opening, view, errors>>

NoFrame == [kind |-> "none", version |-> 0]
Frame(kind, n) == [kind |-> kind, version |-> n]
ClosedView == [version |-> 0, phase |-> "closed", resub |-> FALSE]

FeedInit ==
  /\ heldObj = 0 /\ objects = 0
  /\ version = [o \in Objs |-> 0] /\ run = [o \in Objs |-> "idle"]
  /\ subs = 0 /\ frames = <<>> /\ inHand = NoFrame /\ opening = FALSE
  /\ view = ClosedView /\ errors = 0

-----------------------------------------------------------------------------

\* mistake: a full queue drops the new frame.
FullQueueDropsNewest(f, reset) ==
  frames' = IF reset THEN <<f>> ELSE IF Len(frames) = QueueSize THEN frames ELSE Append(frames, f)

\* _enqueue_conversation_frame: a snapshot empties the queue first, a full queue is emptied
\* and keeps only the newest frame.
QueueAfter(f, reset) ==
  frames' = IF reset \/ Len(frames) = QueueSize THEN <<f>> ELSE Append(frames, f)

\* get_or_create, get_or_load: the object of the id, a new one when the manager has none.
ObjectFor == IF heldObj # 0 THEN heldObj ELSE objects + 1

HoldObject ==
  /\ ObjectFor \in Objs
  /\ heldObj' = ObjectFor
  /\ objects' = IF ObjectFor > objects THEN ObjectFor ELSE objects

\* subscribe: the subscription and a snapshot, under the object's lock.
Subscribe(o) == subs' = o /\ QueueAfter(Frame("snapshot", version[o]), TRUE)

\* _conversation_open.
HandleOpen ==
  /\ opening
  /\ HoldObject
  /\ Subscribe(ObjectFor)
  /\ opening' = FALSE
  /\ UNCHANGED <<version, run, inHand, view, errors>>

\* conversation.close: the listener unsubscribes; what is queued is still sent.
HandleClose ==
  /\ subs # 0
  /\ subs' = 0
  /\ view' = ClosedView
  /\ UNCHANGED <<heldObj, objects, version, run, frames, inHand, opening, errors>>

\* conversation.send and conversation.answer: refused while the object runs; they subscribe
\* the socket only when it has no subscription for the id, to whatever object.
HandleSend ==
  /\ view.phase = "synced" /\ ~view.resub
  /\ HoldObject
  /\ run[ObjectFor] = "idle"
  /\ IF subs = 0 THEN Subscribe(ObjectFor) ELSE UNCHANGED <<subs, frames>>
  /\ UNCHANGED <<version, run, inHand, opening, view, errors>>

\* run_user_message, for this socket or for anyone else, on the object the manager holds.
RunStarts ==
  /\ HoldObject
  /\ run[ObjectFor] = "idle"
  /\ run' = [run EXCEPT ![ObjectFor] = "streaming"]
  /\ UNCHANGED <<version, subs, frames, inHand, opening, view, errors>>

\* _emit_delta and _publish_commit: a new version for every subscriber.
PublishVersion(o, kind) ==
  /\ version[o] < MaxVersion
  /\ version' = [version EXCEPT ![o] = @ + 1]
  /\ IF subs = o THEN QueueAfter(Frame(kind, version[o] + 1), FALSE) ELSE UNCHANGED frames
  /\ UNCHANGED <<heldObj, objects, subs, inHand, opening, view>>

EmitDelta(o) ==
  /\ run[o] = "streaming"
  /\ PublishVersion(o, "delta")
  /\ UNCHANGED <<run, errors>>

EmitCommit(o) ==
  /\ run[o] = "streaming"
  /\ PublishVersion(o, "commit")
  /\ run' = [run EXCEPT ![o] = "done"]
  /\ UNCHANGED errors

\* A failed run: a frame without a version.
EmitError(o) ==
  /\ run[o] = "streaming" /\ errors < MaxErrors
  /\ run' = [run EXCEPT ![o] = "done"]
  /\ errors' = errors + 1
  /\ IF subs = o THEN QueueAfter(Frame("error", 0), FALSE) ELSE UNCHANGED frames
  /\ UNCHANGED <<heldObj, objects, version, subs, inHand, opening, view>>

\* _exit_run.
RunLeaves(o) ==
  /\ run[o] = "done"
  /\ run' = [run EXCEPT ![o] = "idle"]
  /\ UNCHANGED <<heldObj, objects, version, subs, frames, inHand, opening, view, errors>>

\* ConversationManager.discard: nobody tells the subscribers.
DiscardObject ==
  /\ heldObj # 0
  /\ heldObj' = 0
  /\ UNCHANGED <<objects, version, run, subs, frames, inHand, opening, view, errors>>

-----------------------------------------------------------------------------

\* _conversation_frame_loop: the worker takes a frame and sends it.
TakeFrame ==
  /\ inHand = NoFrame /\ frames # <<>>
  /\ inHand' = Head(frames) /\ frames' = Tail(frames)
  /\ UNCHANGED <<heldObj, objects, version, run, subs, opening, view, errors>>

\* requestSnapshot: not while a re-subscription is under way.
RequestSnapshot ==
  IF view.resub THEN UNCHANGED <<opening, view>>
  ELSE opening' = TRUE /\ view' = [view EXCEPT !.resub = TRUE, !.phase = "subscribing"]

\* handleMessage for a delta or a commit: an old version is ignored, a gap asks for a
\* snapshot, the next version is applied.
ClientFollows(n) ==
  CASE n <= view.version -> UNCHANGED <<opening, view>>
    [] n > view.version + 1 -> RequestSnapshot
    [] OTHER -> /\ view' = [view EXCEPT !.version = n, !.phase = "synced"]
                /\ UNCHANGED opening

\* handleMessage: frames of a conversation that is not open are ignored.
ClientTakes(f) ==
  CASE view.phase = "closed" -> UNCHANGED <<opening, view>>
    [] view.phase # "closed" /\ f.kind = "snapshot" ->
         /\ view' = [version |-> f.version, phase |-> "synced", resub |-> FALSE]
         /\ UNCHANGED opening
    [] view.phase # "closed" /\ f.kind = "error" ->
         /\ view' = [view EXCEPT !.phase = "error"]
         /\ UNCHANGED opening
    [] OTHER -> ClientFollows(f.version)

FrameArrives ==
  /\ inHand # NoFrame
  /\ inHand' = NoFrame
  /\ ClientTakes(inHand)
  /\ UNCHANGED <<heldObj, objects, version, run, subs, frames, errors>>

\* The user opens the conversation.
ClientOpens ==
  /\ view.phase = "closed"
  /\ RequestSnapshot
  /\ UNCHANGED <<heldObj, objects, version, run, subs, frames, inHand, errors>>

\* The socket breaks: listener.close, then a new socket and a new listener; the client
\* keeps the version it shows and opens the conversation again.
Reconnect ==
  /\ view.phase # "closed"
  /\ subs' = 0 /\ frames' = <<>> /\ inHand' = NoFrame
  /\ opening' = TRUE
  /\ view' = [view EXCEPT !.resub = TRUE, !.phase = "subscribing"]
  /\ UNCHANGED <<heldObj, objects, version, run, errors>>

FeedNext ==
  \/ HandleOpen \/ HandleClose \/ HandleSend \/ RunStarts \/ DiscardObject
  \/ \E o \in Objs : EmitDelta(o) \/ EmitCommit(o) \/ EmitError(o) \/ RunLeaves(o)
  \/ TakeFrame \/ FrameArrives \/ ClientOpens \/ Reconnect

FeedSpec == FeedInit /\ [][FeedNext]_feedVars

-----------------------------------------------------------------------------

FeedTypeOK ==
  /\ heldObj \in 0..MaxObjects /\ objects \in 0..MaxObjects
  /\ version \in [Objs -> 0..MaxVersion]
  /\ run \in [Objs -> {"idle", "streaming", "done"}]
  /\ subs \in 0..MaxObjects /\ Len(frames) <= QueueSize
  /\ opening \in BOOLEAN /\ errors \in 0..MaxErrors
  /\ view \in [version : 0..MaxVersion, phase : {"closed", "subscribing", "synced", "error"},
               resub : BOOLEAN]

Quiet == frames = <<>> /\ inHand = NoFrame /\ ~opening

\* "Retain the newest version.  The resulting client-side gap triggers a snapshot."
\* (listener.py): while the id keeps its first object, a synced client to which nothing more
\* is coming shows the object's version, however many frames the bounded queue dropped on the
\* way and however often the socket broke.
ClientCatchesUp ==
  view.phase = "synced" /\ ~view.resub /\ Quiet /\ subs = 1 /\ objects = 1
    => view.version = version[1]

\* The same comment, for a client that waits for its snapshot: the command that asks for it
\* or the snapshot itself is still on its way.  With neither, resubscribingRef stays set and
\* no later gap triggers a snapshot.
GapBringsSnapshot ==
  view.resub =>
    \/ opening
    \/ inHand.kind = "snapshot"
    \/ \E i \in DOMAIN frames : frames[i].kind = "snapshot"
=============================================================================
