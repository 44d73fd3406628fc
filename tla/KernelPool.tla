----------------------------- MODULE KernelPool -----------------------------
(***************************************************************************)
(* The kernel workers of one actor (python/pool.py) and the slots of the   *)
(* daemon-wide KernelLimiter they take, as driven by the execute_python    *)
(* and restart_kernel tools of conversation turns and by Harness.close.    *)
(*                                                                         *)
(* Conversations are the lease keys.  Each has one execute_python tool,    *)
(* which makes one call at a time, may be cancelled, and is closed with a  *)
(* bound that may cut the close short; a restart_kernel call may run       *)
(* beside it.  Lease locks are held across awaits and are a variable.      *)
(* The pool's _lock is held across an await in one place only, the         *)
(* shutdown of a live kernel in _drop_worker_unlocked; every other section *)
(* under it is one step.                                                   *)
(***************************************************************************)
EXTENDS Integers, FiniteSets

CONSTANTS
  Keys,         \* conversations with Python tools
  Workers,      \* kernel processes that may exist at once
  MaxWorkers,   \* config.max_workers
  NoWorker

ASSUME PoolAssumption ==
  /\ IsFiniteSet(Keys) /\ IsFiniteSet(Workers) /\ NoWorker \notin Workers
  /\ MaxWorkers \in Nat \ {0}

VARIABLES
  slots,     \* the limiter's semaphore
  pool,      \* _workers
  state,     \* KernelWorker.state
  alive,     \* the processes that run
  lease,     \* _leases
  lock,      \* _lease_locks: free, or which tool of the conversation holds it
  tool,      \* where the execute_python tool is
  has,       \* its _worker
  hand,      \* the worker a pool operation of the conversation works on
  owed,      \* and whether a slot is returned after its shutdown
  ahead,     \* who queued for _lock before this conversation's new kernel
  restart,   \* victims of a restart_kernel call
  swept,     \* victims of the idle loop, then of shutdown()
  closed,    \* shutdown() was called
  lost,      \* history: slots whose return a cancellation cut off
  taken,     \* history: a kernel was taken from the call that was starting it
  stranded   \* history: kernels the pool keeps as "leased" although nobody's lease or tool
             \* has them any more

toolVars == <<tool, has, hand, owed, ahead>>
poolVars == <<pool, state, lease>>
history == <<lost, taken, stranded>>
vars == <<slots, poolVars, alive, lock, toolVars, restart, swept, closed, history>>

\* "out": no turn uses Python; "ready": between the calls of a turn.
ToolPhases == {"out", "ready", "waiting", "limiting", "spawning", "joining", "unjoining",
               "running", "dropping", "ending", "closing", "resetting", "discarding"}

-----------------------------------------------------------------------------

Init ==
  /\ slots = MaxWorkers /\ pool = {} /\ alive = {} /\ swept = {}
  /\ state = [w \in Workers |-> "idle"]
  /\ lease = [k \in Keys |-> NoWorker] /\ lock = [k \in Keys |-> "free"]
  /\ tool = [k \in Keys |-> "out"] /\ has = [k \in Keys |-> NoWorker]
  /\ hand = [k \in Keys |-> NoWorker] /\ owed = [k \in Keys |-> FALSE]
  /\ ahead = [k \in Keys |-> {}] /\ restart = [k \in Keys |-> {}]
  /\ closed = FALSE /\ lost = 0 /\ taken = FALSE /\ stranded = {}

Idle == {w \in pool : state[w] = "idle"}
Joining == {k \in Keys : tool[k] = "joining"}
Unused == Workers \ (pool \cup alive \cup swept \cup (UNION {restart[k] : k \in Keys})
                      \cup {has[k] : k \in Keys} \cup {hand[k] : k \in Keys})

\* Who holds _lock while a kernel shuts down, and whether k gets it: it is first come,
\* first served.
Held == \E k \in Keys : tool[k] \in {"discarding", "unjoining"}
MyTurn(k) == ~Held /\ \A j \in Joining : k \in ahead[j]
Served(k) == ahead' = [j \in Keys |-> ahead[j] \ {k}]

StaysLocked(k) == UNCHANGED lock   \* mistake: the lock is not left with the section
Unlocked(k) == lock' = [lock EXCEPT ![k] = "free"]
Locked(k, by) == lock[k] = "free" /\ lock' = [lock EXCEPT ![k] = by]
ToolAt(k, p) == tool' = [tool EXCEPT ![k] = p]
Hold(k, w) == has' = [has EXCEPT ![k] = w]
AtHand(k, w) == hand' = [hand EXCEPT ![k] = w]
Without(w) == [k \in Keys |-> IF lease[k] = w THEN NoWorker ELSE lease[k]]

\* A kernel dies by itself: it crashes, or recycles after a reset.
WorkerDies(w) ==
  /\ w \in alive
  /\ alive' = alive \ {w}
  /\ UNCHANGED <<slots, poolVars, lock, toolVars, restart, swept, closed, history>>

\* A kernel is dropped: out of the pool and the leases, then shut down, then its slot
\* returned by whoever took it out.  The shutdown of a dead kernel does not suspend.
OwedAlways(w) == TRUE   \* mistake: a slot is returned for a kernel somebody else removed
OwedFor(w) == w \in pool

DropWorker(k, w, meanwhile, afterwards) ==
  /\ pool' = pool \ {w} /\ lease' = Without(w)
  /\ \/ /\ w \in alive
        /\ AtHand(k, w) /\ owed' = [owed EXCEPT ![k] = OwedFor(w)]
        /\ lock' = [lock EXCEPT ![k] = "tool"] /\ ToolAt(k, meanwhile)
        /\ UNCHANGED slots
     \/ /\ w \notin alive
        /\ slots' = IF OwedFor(w) THEN slots + 1 ELSE slots
        /\ AtHand(k, NoWorker) /\ Unlocked(k) /\ ToolAt(k, afterwards)
        /\ UNCHANGED owed

\* worker.shutdown returns.
Ended(k) ==
  /\ tool[k] \in {"ending", "unjoining", "discarding"}
  /\ alive' = alive \ {hand[k]}
  /\ slots' = IF owed[k] THEN slots + 1 ELSE slots
  /\ AtHand(k, NoWorker) /\ owed' = [owed EXCEPT ![k] = FALSE]
  /\ Unlocked(k) /\ ToolAt(k, IF tool[k] = "discarding" THEN "out" ELSE "ready")
  /\ UNCHANGED <<poolVars, has, ahead, restart, swept, closed, history>>

\* It is cancelled: nobody returns the slot.
LosesSlot(k) ==
  /\ lost' = IF owed[k] THEN lost + 1 ELSE lost
  /\ AtHand(k, NoWorker) /\ owed' = [owed EXCEPT ![k] = FALSE]
  /\ Unlocked(k)

DropIsCut(k) ==
  /\ tool[k] \in {"ending", "unjoining"}
  /\ LosesSlot(k) /\ ToolAt(k, "ready")
  /\ UNCHANGED <<slots, poolVars, alive, has, ahead, restart, swept, closed, taken, stranded>>

-----------------------------------------------------------------------------
(* execute_python.                                                         *)

\* A call: the tool's live worker is used again, a dead one dropped, none acquired.
Execute(k) ==
  /\ tool[k] \in {"out", "ready"}
  /\ ToolAt(k, IF has[k] = NoWorker THEN "waiting"
               ELSE IF has[k] \in alive THEN "running" ELSE "dropping")
  /\ UNCHANGED <<slots, poolVars, alive, lock, has, hand, owed, ahead, restart, swept, closed,
                 history>>

\* acquire, first section: the live lease of the conversation, else an idle kernel, else
\* a slot of the limiter, waited for with the lease lock held.
FindAnyWorker == pool \cap alive   \* mistake: the worker's state is not looked at
FindIdleWorker == Idle \cap alive

\* The lease of a dead kernel is overwritten; the kernel stays in the pool.
Lease(k, w) ==
  /\ state' = [state EXCEPT ![w] = "leased"]
  /\ lease' = [lease EXCEPT ![k] = w]
  /\ stranded' = stranded \cup ({lease[k]} \cap pool)
  /\ Hold(k, w) /\ ToolAt(k, "running")

Acquire(k) ==
  /\ tool[k] = "waiting" /\ lock[k] = "free" /\ MyTurn(k) /\ Served(k)
  /\ \/ /\ lease[k] \in alive
        /\ Hold(k, lease[k]) /\ ToolAt(k, "running")
        /\ UNCHANGED <<state, lease, lock, taken, stranded>>
     \/ /\ lease[k] \notin alive
        /\ \E w \in FindIdleWorker :
             /\ Lease(k, w)
             /\ taken' = (taken \/ \E j \in Joining : hand[j] = w)
        /\ UNCHANGED lock
     \/ /\ lease[k] \notin alive /\ FindIdleWorker = {}
        /\ Locked(k, "tool") /\ ToolAt(k, "limiting")
        /\ UNCHANGED <<state, lease, has, taken, stranded>>
  /\ UNCHANGED <<slots, pool, alive, hand, owed, restart, swept, closed, lost>>

TakeSlot(k) ==
  /\ tool[k] = "limiting" /\ slots > 0
  /\ slots' = slots - 1
  /\ ToolAt(k, "spawning")
  /\ UNCHANGED <<poolVars, alive, lock, has, hand, owed, ahead, restart, swept, closed, history>>

\* KernelPoolBusy after acquire_timeout_s, or cancelled while waiting.
AcquireFails(k) ==
  /\ tool[k] = "limiting"
  /\ Unlocked(k) /\ ToolAt(k, "ready")
  /\ UNCHANGED <<slots, poolVars, alive, has, hand, owed, ahead, restart, swept, closed, history>>

\* KernelWorker.start fails or is cancelled and cleans up; acquire returns the slot.
SpawnFails(k) ==
  /\ tool[k] = "spawning"
  /\ slots' = slots + 1
  /\ Unlocked(k) /\ ToolAt(k, "ready")
  /\ UNCHANGED <<poolVars, alive, has, hand, owed, ahead, restart, swept, closed, history>>

\* The kernel is ready and appended to the pool, in state "idle".  It is leased at once
\* when _lock is free; otherwise acquire queues for the lock.
Spawned(k, w) ==
  /\ tool[k] = "spawning" /\ w \in Unused
  /\ pool' = pool \cup {w} /\ alive' = alive \cup {w}
  /\ \/ /\ ~Held /\ Joining = {}
        /\ Lease(k, w) /\ Unlocked(k)
        /\ UNCHANGED <<hand, ahead>>
     \/ /\ Held \/ Joining # {}
        /\ AtHand(k, w) /\ ToolAt(k, "joining")
        /\ ahead' = [ahead EXCEPT ![k] = Joining \cup
             {j \in Keys : /\ lock[j] = "free" /\ has[j] = NoWorker
                           /\ tool[j] \in {"out", "ready", "waiting"}}]
        /\ state' = [state EXCEPT ![w] = "idle"]
        /\ UNCHANGED <<lease, lock, has, stranded>>
  /\ UNCHANGED <<slots, owed, restart, swept, closed, lost, taken>>

\* acquire, last section; the lease lock kept any other lease of the conversation away.
Join(k) ==
  /\ tool[k] = "joining" /\ ~Held /\ \A j \in Joining \ {k} : k \in ahead[j]
  /\ Lease(k, hand[k]) /\ AtHand(k, NoWorker) /\ Unlocked(k)
  /\ ahead' = [j \in Keys |-> IF j = k THEN {} ELSE ahead[j] \ {k}]
  /\ UNCHANGED <<slots, pool, alive, owed, restart, swept, closed, lost, taken>>

\* Cancelled while it queues, the call drops its kernel (under _lock).
Unjoin(k) ==
  /\ tool[k] = "joining" /\ ~Held
  /\ DropWorker(k, hand[k], "unjoining", "ready")
  /\ ahead' = [j \in Keys |-> IF j = k THEN {} ELSE ahead[j] \ {k}]
  /\ UNCHANGED <<state, alive, has, restart, swept, closed, history>>

\* run_code returns.
CodeReturns(k) ==
  /\ tool[k] = "running"
  /\ ToolAt(k, "ready")
  /\ UNCHANGED <<slots, poolVars, alive, lock, has, hand, owed, ahead, restart, swept, closed,
                 history>>

\* run_code raises (the kernel died, or the execution timed out), or the call is cancelled
\* and the kernel interrupted and killed: the worker is to be dropped.
CodeFails(k, kills) ==
  /\ tool[k] = "running"
  /\ alive' = IF kills THEN alive \ {has[k]} ELSE alive
  /\ ToolAt(k, "dropping")
  /\ UNCHANGED <<slots, poolVars, lock, has, hand, owed, ahead, restart, swept, closed, history>>

\* drop_leased_worker.
Drop(k) ==
  /\ tool[k] = "dropping" /\ lock[k] = "free" /\ ~Held
  /\ DropWorker(k, has[k], "ending", "ready")
  /\ Hold(k, NoWorker)
  /\ UNCHANGED <<state, alive, ahead, restart, swept, closed, history>>

-----------------------------------------------------------------------------
(* Harness.close: ExecutePythonTool.close and KernelPool.release.          *)

\* The turn's tools are done; close() does nothing unless the tool holds a lease.
Close(k) ==
  /\ tool[k] = "ready" /\ restart[k] = {}
  /\ ToolAt(k, IF has[k] = NoWorker THEN "out" ELSE "closing")
  /\ Hold(k, NoWorker)
  /\ UNCHANGED <<slots, poolVars, alive, lock, hand, owed, ahead, restart, swept, closed, history>>

\* release pops the lease; a live kernel is reset, a dead one dropped.
Release(k) ==
  /\ tool[k] = "closing" /\ lock[k] = "free" /\ ~Held
  /\ \/ /\ lease[k] = NoWorker
        /\ ToolAt(k, "out")
        /\ UNCHANGED <<slots, poolVars, lock, hand, owed>>
     \/ /\ lease[k] \in alive
        /\ lease' = [lease EXCEPT ![k] = NoWorker] /\ AtHand(k, lease[k])
        /\ Locked(k, "tool") /\ ToolAt(k, "resetting")
        /\ UNCHANGED <<slots, pool, state, owed>>
     \/ /\ lease[k] \in Workers \ alive
        /\ state' = [state EXCEPT ![lease[k]] = "idle"]
        /\ DropWorker(k, lease[k], "discarding", "out")
  /\ UNCHANGED <<alive, has, ahead, restart, swept, closed, history>>

\* reset_or_recycle returns: the kernel is idle again, or dead and dropped.
ResetDone(k) ==
  /\ tool[k] = "resetting" /\ ~Held
  /\ state' = [state EXCEPT ![hand[k]] = "idle"]
  /\ \/ /\ hand[k] \in alive
        /\ AtHand(k, NoWorker) /\ Unlocked(k) /\ ToolAt(k, "out")
        /\ UNCHANGED <<slots, pool, lease, owed>>
     \/ /\ hand[k] \notin alive
        /\ DropWorker(k, hand[k], "discarding", "out")
  /\ UNCHANGED <<alive, has, ahead, restart, swept, closed, history>>

\* reset_or_recycle raises KernelWorkerError, the kernel alive (it timed out) or not.
ResetFails(k) ==
  /\ tool[k] = "resetting" /\ ~Held
  /\ DropWorker(k, hand[k], "discarding", "out")
  /\ UNCHANGED <<state, alive, has, ahead, restart, swept, closed, history>>

\* TOOL_CLOSE_TIMEOUT_S passes and _close_tool cancels the close: it queues for a lock,
\* the kernel is being reset (and is killed: run_code was cancelled), or shut down.  A cut
\* reset leaves the kernel in the pool, with nobody to mark it idle or to drop it.
CloseIsCut(k) ==
  /\ \/ tool[k] = "closing" /\ Held
     \/ tool[k] \in {"resetting", "discarding"}
  /\ alive' = IF tool[k] = "resetting" /\ ~Held THEN alive \ {hand[k]} ELSE alive
  /\ LosesSlot(k) /\ ToolAt(k, "out")
  /\ stranded' = IF tool[k] = "resetting" THEN stranded \cup ({hand[k]} \cap pool) ELSE stranded
  /\ UNCHANGED <<slots, poolVars, has, ahead, restart, swept, closed, taken>>

-----------------------------------------------------------------------------
(* restart_kernel, the idle loop and shutdown.                             *)

\* purge_for_restart: the conversation's worker and the idle ones.
PurgesAll(k) == pool   \* mistake: the whole pool, whatever is leased to others
PurgesFor(k) == Idle \cup ({lease[k]} \ {NoWorker})

Purge(k) ==
  /\ restart[k] = {} /\ lock[k] = "free" /\ MyTurn(k) /\ Served(k)
  /\ tool[k] \notin {"closing", "resetting", "discarding"}
  /\ PurgesFor(k) # {}
  /\ restart' = [restart EXCEPT ![k] = PurgesFor(k)]
  /\ pool' = pool \ PurgesFor(k)
  /\ lease' = [lease EXCEPT ![k] = NoWorker]
  /\ lock' = [lock EXCEPT ![k] = "restart"]
  /\ taken' = (taken \/ \E j \in Joining : hand[j] \in PurgesFor(k))
  /\ UNCHANGED <<slots, state, alive, tool, has, hand, owed, swept, closed, lost, stranded>>

PurgeOne(k) ==
  /\ \E w \in restart[k] :
       /\ alive' = alive \ {w} /\ slots' = slots + 1
       /\ restart' = [restart EXCEPT ![k] = @ \ {w}]
       /\ lock' = [lock EXCEPT ![k] = IF restart[k] = {w} THEN "free" ELSE @]
  /\ UNCHANGED <<poolVars, toolVars, swept, closed, history>>

\* An interrupt, or the tool timeout, cancels the call while a victim shuts down.
PurgeIsCut(k) ==
  /\ restart[k] \cap alive # {}
  /\ lost' = lost + Cardinality(restart[k])
  /\ restart' = [restart EXCEPT ![k] = {}]
  /\ Unlocked(k)
  /\ UNCHANGED <<slots, poolVars, alive, toolVars, swept, closed, taken, stranded>>

\* _idle_loop: workers idle for idle_ttl_s, so none that was just started.
Sweepable == Idle \ {hand[k] : k \in Joining}

Sweep ==
  /\ swept = {} /\ ~closed /\ ~Held
  /\ \E expired \in (SUBSET Sweepable) \ {{}} :
       /\ pool' = pool \ expired /\ swept' = expired
       /\ lease' = [k \in Keys |-> IF lease[k] \in expired THEN NoWorker ELSE lease[k]]
  /\ UNCHANGED <<slots, state, alive, lock, toolVars, restart, closed, history>>

\* shutdown(), when the actor is disabled: the idle loop is cancelled wherever it is, and
\* every worker goes, leases included.
Shutdown ==
  /\ ~closed /\ ~Held
  /\ closed' = TRUE
  /\ swept' = pool /\ pool' = {}
  /\ lease' = [k \in Keys |-> NoWorker]
  /\ lost' = lost + Cardinality(swept)
  /\ taken' = (taken \/ Joining # {}) /\ stranded' = {}
  /\ UNCHANGED <<slots, state, alive, lock, toolVars, restart>>

SweepOne ==
  /\ \E w \in swept :
       /\ alive' = alive \ {w} /\ slots' = slots + 1 /\ swept' = swept \ {w}
  /\ UNCHANGED <<poolVars, lock, toolVars, restart, closed, history>>

Next ==
  \/ \E w \in Workers : WorkerDies(w)
  \/ \E k \in Keys : Execute(k)
  \/ \E k \in Keys : Acquire(k)
  \/ \E k \in Keys : TakeSlot(k)
  \/ \E k \in Keys : AcquireFails(k)
  \/ \E k \in Keys : SpawnFails(k)
  \/ \E k \in Keys, w \in Workers : Spawned(k, w)
  \/ \E k \in Keys : Join(k)
  \/ \E k \in Keys : Unjoin(k)
  \/ \E k \in Keys : CodeReturns(k)
  \/ \E k \in Keys, kills \in BOOLEAN : CodeFails(k, kills)
  \/ \E k \in Keys : Drop(k)
  \/ \E k \in Keys : Ended(k)
  \/ \E k \in Keys : DropIsCut(k)
  \/ \E k \in Keys : Close(k)
  \/ \E k \in Keys : Release(k)
  \/ \E k \in Keys : ResetDone(k)
  \/ \E k \in Keys : ResetFails(k)
  \/ \E k \in Keys : CloseIsCut(k)
  \/ \E k \in Keys : Purge(k)
  \/ \E k \in Keys : PurgeOne(k)
  \/ \E k \in Keys : PurgeIsCut(k)
  \/ Sweep
  \/ Shutdown
  \/ SweepOne

Spec == Init /\ [][Next]_vars

-----------------------------------------------------------------------------
(* Properties.                                                             *)

\* Every variable has its type.
TypeOK ==
  /\ slots \in Nat /\ lost \in Nat /\ closed \in BOOLEAN /\ taken \in BOOLEAN
  /\ pool \subseteq Workers /\ alive \subseteq Workers /\ swept \subseteq Workers
  /\ stranded \subseteq Workers
  /\ state \in [Workers -> {"idle", "leased"}]
  /\ lease \in [Keys -> Workers \cup {NoWorker}]
  /\ lock \in [Keys -> {"free", "tool", "restart"}]
  /\ tool \in [Keys -> ToolPhases]
  /\ has \in [Keys -> Workers \cup {NoWorker}] /\ hand \in [Keys -> Workers \cup {NoWorker}]
  /\ owed \in [Keys -> BOOLEAN]
  /\ ahead \in [Keys -> SUBSET Keys] /\ restart \in [Keys -> SUBSET Workers]

\* A lease lock (_lease_locks) is held exactly while an operation that takes it is suspended
\* inside: never by the execute_python tool and a restart_kernel of one conversation at once.
InsideLock == {"limiting", "spawning", "joining", "unjoining", "ending", "resetting", "discarding"}
LeaseLockIsHeld ==
  \A k \in Keys : /\ lock[k] = "tool" <=> tool[k] \in InsideLock
                  /\ lock[k] = "restart" <=> restart[k] # {}

\* Every slot of the daemon-wide limiter is free, or belongs to a kernel in the pool, one
\* being started or one whose shutdown will return it, or was lost to a cancelled shutdown:
\* no slot is returned twice.  A kernel in the pool is idle, or in the lease of a
\* conversation, or being reset for one; otherwise it is one of the stranded, left by a
\* reset that the close bound cut off or by a dead lease that acquire overwrote.  Those
\* keep their slots until shutdown(), for no lease or tool ever has them again.  All this
\* holds until a kernel is taken from the call that was starting it.
Starting == {k \in Keys : tool[k] = "spawning"}
Owing == {k \in Keys : owed[k]}
Victims == {v \in Keys \X Workers : v[2] \in restart[v[1]]}
Outstanding ==
  Cardinality(pool) + Cardinality(swept) + Cardinality(Starting) + Cardinality(Owing)
    + Cardinality(Victims)
Uses(k) == IF tool[k] = "resetting" THEN hand[k] ELSE has[k]
LeasedHaveOwners ==
  \A w \in pool \ stranded : state[w] = "leased" =>
    \E k \in Keys : lease[k] = w \/ (tool[k] = "resetting" /\ hand[k] = w)
StrandedHaveNone ==
  \A w \in stranded : /\ w \in pool /\ state[w] = "leased"
                      /\ \A k \in Keys : lease[k] # w /\ Uses(k) # w
SlotsAccounted ==
  taken \/ /\ slots + Outstanding + lost = MaxWorkers
           /\ LeasedHaveOwners /\ StrandedHaveNone

\* Two conversations never run code in one kernel, or reset a kernel the other runs code
\* in, unless a kernel was taken from the call that was starting it.
ExclusiveUnlessTaken ==
  taken \/ \A j, k \in Keys :
             j # k /\ Uses(j) \in alive => Uses(j) # Uses(k)

\* The idle loop and another conversation's restart_kernel never shut down a kernel that
\* a conversation is using, with the same exception.
OthersAreSpared ==
  taken \/ \A k \in Keys :
             /\ \A j \in Keys \ {k} : Uses(k) \notin restart[j]
             /\ closed \/ Uses(k) \notin swept

\* What the documentation says of a turn (its namespace is kept until the turn ends, and
\* only idle kernels go to other conversations): no two conversations use one live kernel.
NamespaceIsOwn ==
  \A j, k \in Keys : j # k /\ Uses(j) \in alive => Uses(j) # Uses(k)

=============================================================================
