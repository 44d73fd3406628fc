-------------------------- MODULE KernelPoolProofs --------------------------
(***************************************************************************)
(* Proofs about KernelPool, for every number of conversations, kernel      *)
(* processes and slots: the lease locks, the account of the daemon-wide    *)
(* slots, and whose kernel a conversation runs code in.                    *)
(***************************************************************************)
EXTENDS KernelPool, TLAPS, FiniteSetTheorems

\* Where the tool is tells what it has, what it has at hand and what it owes.
Phases ==
  \A k \in Keys :
    /\ has[k] # NoWorker => tool[k] \in {"ready", "running", "dropping"}
    /\ hand[k] # NoWorker => tool[k] \in {"joining", "unjoining", "ending", "resetting", "discarding"}
    /\ tool[k] \in {"joining", "unjoining", "ending", "resetting", "discarding"} => hand[k] \in Workers
    /\ tool[k] \in {"running", "dropping"} => has[k] \in Workers
    /\ owed[k] => tool[k] \in {"unjoining", "ending", "discarding"}
    /\ tool[k] = "closing" => restart[k] = {}
    /\ tool[k] = "resetting" => lease[k] = NoWorker

\* Who has a claim to which kernel: leases, uses and kernels about to join never meet.
LeasesAreOwn ==
  \A k \in Keys : lease[k] # NoWorker =>
    /\ lease[k] \in pool /\ state[lease[k]] = "leased"
    /\ \A j \in Keys \ {k} : lease[j] # lease[k] /\ Uses(j) # lease[k]
UsesAreOwn ==
  \A k \in Keys : Uses(k) # NoWorker =>
    /\ Uses(k) \in pool => state[Uses(k)] = "leased"
    /\ \A j \in Keys \ {k} : Uses(j) # Uses(k) /\ Uses(k) \notin restart[j]
    /\ closed \/ Uses(k) \notin swept
JoiningAreOwn ==
  \A k \in Joining : /\ hand[k] \in pool /\ state[hand[k]] = "idle"
                     /\ \A j \in Joining \ {k} : hand[j] # hand[k]
VictimsAreOut == \A w \in pool : w \notin swept /\ \A k \in Keys : w \notin restart[k]

Owned == LeasesAreOwn /\ UsesAreOwn /\ JoiningAreOwn /\ VictimsAreOut

IInv == TypeOK /\ Phases /\ LeaseLockIsHeld /\ (taken \/ Owned) /\ SlotsAccounted

\* Who leases or resets a kernel, and what SlotsAccounted says of the kernels in the pool.
Owner(k, w) == lease[k] = w \/ (tool[k] = "resetting" /\ hand[k] = w)
Kept == LeasedHaveOwners /\ StrandedHaveNone

-----------------------------------------------------------------------------
(* Types.                                                                  *)

\* The counted sets are finite.
LEMMA Finite ==
  ASSUME TypeOK
  PROVE  /\ \A S \in SUBSET Workers : IsFiniteSet(S) /\ Cardinality(S) \in Nat
         /\ \A S \in SUBSET Keys : IsFiniteSet(S) /\ Cardinality(S) \in Nat
         /\ \A S \in SUBSET (Keys \X Workers) : IsFiniteSet(S) /\ Cardinality(S) \in Nat
  BY PoolAssumption, FS_Subset, FS_CardinalityType, FS_Product

\* Whether a slot is owed for a kernel is a truth value.
LEMMA OwedType == ASSUME NEW w PROVE OwedFor(w) \in BOOLEAN
  BY DEF OwedFor

\* Dropping a kernel keeps the types of all it writes.
LEMMA DropTypes ==
  ASSUME TypeOK, NEW k \in Keys, NEW w \in Workers, NEW m \in ToolPhases, NEW a \in ToolPhases,
         DropWorker(k, w, m, a)
  PROVE  /\ pool' \subseteq Workers /\ slots' \in Nat
         /\ lease' \in [Keys -> Workers \cup {NoWorker}]
         /\ hand' \in [Keys -> Workers \cup {NoWorker}]
         /\ lock' \in [Keys -> {"free", "tool", "restart"}]
         /\ tool' \in [Keys -> ToolPhases] /\ owed' \in [Keys -> BOOLEAN]
  <1> USE DEF DropWorker, ToolAt, AtHand, Unlocked
  <1>1. pool' \subseteq Workers /\ slots' \in Nat
    BY DEF TypeOK
  <1>2. lease' \in [Keys -> Workers \cup {NoWorker}]
    BY DEF TypeOK, Without
  <1>3. hand' \in [Keys -> Workers \cup {NoWorker}] /\ tool' \in [Keys -> ToolPhases]
    BY DEF TypeOK
  <1>4. lock' \in [Keys -> {"free", "tool", "restart"}]
    BY DEF TypeOK
  <1>5. owed' \in [Keys -> BOOLEAN]
    <2>1. OwedFor(w) \in BOOLEAN
      BY OwedType
    <2> QED
      BY <2>1 DEF TypeOK
  <1> QED
    BY <1>1, <1>2, <1>3, <1>4, <1>5

\* The history flag stays a flag.
LEMMA TakenType == ASSUME taken \in BOOLEAN, NEW P, taken' = (taken \/ P) PROVE taken' \in BOOLEAN
  OBVIOUS

\* Every step keeps the types.
LEMMA TypeStep == TypeOK /\ Phases /\ [Next]_vars => TypeOK'
  <1> SUFFICES ASSUME TypeOK, Phases, [Next]_vars PROVE TypeOK'
    OBVIOUS
  <1> USE DEF toolVars, poolVars, history, ToolAt, AtHand, Hold, Unlocked, Locked, Served,
              Lease, LosesSlot, ToolPhases
  <1>1. ASSUME NEW w \in Workers, WorkerDies(w) PROVE TypeOK'
    BY <1>1 DEF WorkerDies, TypeOK
  <1>2. ASSUME NEW k \in Keys, Execute(k) PROVE TypeOK'
    BY <1>2 DEF Execute, TypeOK
  <1>3. ASSUME NEW k \in Keys, Acquire(k) PROVE TypeOK'
    <2>1. ahead' \in [Keys -> SUBSET Keys] /\ taken' \in BOOLEAN
      BY <1>3, TakenType DEF Acquire, TypeOK
    <2>2. CASE lease[k] \in alive
      BY <1>3, <2>1, <2>2 DEF Acquire, TypeOK
    <2>3. CASE lease[k] \notin alive
      BY <1>3, <2>1, <2>3, SMTT(60) DEF Acquire, FindIdleWorker, Idle, TypeOK
    <2> QED
      BY <2>2, <2>3
  <1>4. ASSUME NEW k \in Keys, TakeSlot(k) PROVE TypeOK'
    BY <1>4 DEF TakeSlot, TypeOK
  <1>5. ASSUME NEW k \in Keys, AcquireFails(k) PROVE TypeOK'
    BY <1>5 DEF AcquireFails, TypeOK
  <1>6. ASSUME NEW k \in Keys, SpawnFails(k) PROVE TypeOK'
    BY <1>6 DEF SpawnFails, TypeOK
  <1>7. ASSUME NEW k \in Keys, NEW w \in Workers, Spawned(k, w) PROVE TypeOK'
    <2>1. CASE ~Held /\ Joining = {}
      BY <1>7, <2>1 DEF Spawned, TypeOK
    <2>2. CASE Held \/ Joining # {}
      <3>1. ahead' \in [Keys -> SUBSET Keys]
        BY <1>7, <2>2 DEF Spawned, Joining, TypeOK
      <3> QED
        BY <1>7, <2>2, <3>1 DEF Spawned, TypeOK
    <2> QED
      BY <2>1, <2>2
  <1>8. ASSUME NEW k \in Keys, Join(k) PROVE TypeOK'
    BY <1>8 DEF Join, TypeOK
  <1>9. ASSUME NEW k \in Keys, Unjoin(k) PROVE TypeOK'
    <2>1. hand[k] \in Workers /\ DropWorker(k, hand[k], "unjoining", "ready")
      BY <1>9 DEF Unjoin, Phases
    <2> QED
      BY <1>9, <2>1, DropTypes DEF Unjoin, TypeOK
  <1>10. ASSUME NEW k \in Keys, CodeReturns(k) PROVE TypeOK'
    BY <1>10 DEF CodeReturns, TypeOK
  <1>11. ASSUME NEW k \in Keys, NEW kills \in BOOLEAN, CodeFails(k, kills) PROVE TypeOK'
    BY <1>11 DEF CodeFails, TypeOK
  <1>12. ASSUME NEW k \in Keys, Drop(k) PROVE TypeOK'
    <2>1. has[k] \in Workers /\ DropWorker(k, has[k], "ending", "ready")
      BY <1>12 DEF Drop, Phases
    <2> QED
      BY <1>12, <2>1, DropTypes DEF Drop, TypeOK
  <1>13. ASSUME NEW k \in Keys, Ended(k) PROVE TypeOK'
    BY <1>13 DEF Ended, TypeOK
  <1>14. ASSUME NEW k \in Keys, DropIsCut(k) PROVE TypeOK'
    BY <1>14 DEF DropIsCut, TypeOK
  <1>15. ASSUME NEW k \in Keys, Close(k) PROVE TypeOK'
    BY <1>15 DEF Close, TypeOK
  <1>16. ASSUME NEW k \in Keys, Release(k) PROVE TypeOK'
    <2>1. CASE lease[k] \in Workers \ alive
      <3>1. state' \in [Workers -> {"idle", "leased"}] /\ DropWorker(k, lease[k], "discarding", "out")
        BY <1>16, <2>1, PoolAssumption DEF Release, TypeOK
      <3> QED
        BY <1>16, <2>1, <3>1, DropTypes DEF Release, TypeOK
    <2>2. CASE lease[k] \notin Workers \ alive
      BY <1>16, <2>2 DEF Release, TypeOK
    <2> QED
      BY <2>1, <2>2
  <1>17. ASSUME NEW k \in Keys, ResetDone(k) PROVE TypeOK'
    <2>1. hand[k] \in Workers
      BY <1>17 DEF ResetDone, Phases
    <2>2. state' \in [Workers -> {"idle", "leased"}]
      BY <1>17 DEF ResetDone, TypeOK
    <2>3. CASE DropWorker(k, hand[k], "discarding", "out")
      BY <1>17, <2>1, <2>2, <2>3, DropTypes DEF ResetDone, TypeOK
    <2>4. CASE UNCHANGED <<slots, pool, lease, owed>> /\ AtHand(k, NoWorker) /\ Unlocked(k) /\ ToolAt(k, "out")
      BY <1>17, <2>2, <2>4 DEF ResetDone, TypeOK
    <2> QED
      BY <1>17, <2>3, <2>4 DEF ResetDone
  <1>18. ASSUME NEW k \in Keys, ResetFails(k) PROVE TypeOK'
    <2>1. hand[k] \in Workers /\ DropWorker(k, hand[k], "discarding", "out")
      BY <1>18 DEF ResetFails, Phases
    <2> QED
      BY <1>18, <2>1, DropTypes DEF ResetFails, TypeOK
  <1>19. ASSUME NEW k \in Keys, CloseIsCut(k) PROVE TypeOK'
    BY <1>19 DEF CloseIsCut, TypeOK
  <1>20. ASSUME NEW k \in Keys, Purge(k) PROVE TypeOK'
    <2>1. taken' \in BOOLEAN
      BY <1>20, TakenType DEF Purge, TypeOK
    <2>2. PurgesFor(k) \subseteq Workers
      BY DEF PurgesFor, Idle, TypeOK
    <2> QED
      BY <1>20, <2>1, <2>2 DEF Purge, TypeOK
  <1>21. ASSUME NEW k \in Keys, PurgeOne(k) PROVE TypeOK'
    BY <1>21 DEF PurgeOne, TypeOK
  <1>22. ASSUME NEW k \in Keys, PurgeIsCut(k) PROVE TypeOK'
    <2>1. Cardinality(restart[k]) \in Nat
      BY Finite DEF TypeOK
    <2>2. lost' \in Nat
      BY <1>22, <2>1 DEF PurgeIsCut, TypeOK
    <2> QED
      BY <1>22, <2>2 DEF PurgeIsCut, TypeOK
  <1>23. CASE Sweep
    BY <1>23 DEF Sweep, Sweepable, Idle, TypeOK
  <1>24. CASE Shutdown
    <2>1. Cardinality(swept) \in Nat
      BY Finite DEF TypeOK
    <2>2. taken' \in BOOLEAN
      BY <1>24, TakenType DEF Shutdown, TypeOK
    <2>3. lost' \in Nat
      BY <1>24, <2>1 DEF Shutdown, TypeOK
    <2> QED
      BY <1>24, <2>2, <2>3 DEF Shutdown, TypeOK
  <1>25. CASE SweepOne
    BY <1>25 DEF SweepOne, TypeOK
  <1>26. CASE UNCHANGED vars
    BY <1>26 DEF vars, TypeOK
  <1> QED
    BY <1>1, <1>2, <1>3, <1>4, <1>5, <1>6, <1>7, <1>8, <1>9, <1>10, <1>11, <1>12, <1>13, <1>14,
       <1>15, <1>16, <1>17, <1>18, <1>19, <1>20, <1>21, <1>22, <1>23, <1>24, <1>25,
       <1>26 DEF Next

-----------------------------------------------------------------------------
(* The phases of the tools and the lease locks.                            *)

\* What dropping a kernel does to the conversation that drops it, and to the others.
LEMMA DropPhases ==
  ASSUME TypeOK, NEW k \in Keys, NEW w \in Workers, NEW m \in ToolPhases, NEW a \in ToolPhases,
         DropWorker(k, w, m, a)
  PROVE  /\ \A j \in Keys \ {k} : /\ tool'[j] = tool[j] /\ hand'[j] = hand[j]
                                  /\ lock'[j] = lock[j] /\ owed'[j] = owed[j]
                                  /\ lease'[j] = lease[j] \/ lease'[j] = NoWorker
         /\ \/ /\ tool'[k] = m /\ hand'[k] = w /\ lock'[k] = "tool"
            \/ /\ tool'[k] = a /\ hand'[k] = NoWorker /\ lock'[k] = "free" /\ owed' = owed
  BY DEF DropWorker, ToolAt, AtHand, Unlocked, Without, TypeOK

\* A conversation without an account open that drops a kernel keeps the phases and the locks.
LEMMA DropKeepsPhases ==
  ASSUME TypeOK, Phases, LeaseLockIsHeld, NEW k \in Keys, NEW w \in Workers,
         NEW m \in {"unjoining", "ending", "discarding"}, NEW a \in {"ready", "out"},
         DropWorker(k, w, m, a), ~owed[k], lock[k] # "restart", restart' = restart,
         has'[k] = NoWorker, \A j \in Keys \ {k} : has'[j] = has[j]
  PROVE  Phases' /\ LeaseLockIsHeld'
  <1>1. m \in ToolPhases /\ a \in ToolPhases
    BY DEF ToolPhases
  <1>2. \A j \in Keys \ {k} : /\ tool'[j] = tool[j] /\ hand'[j] = hand[j]
                              /\ lock'[j] = lock[j] /\ owed'[j] = owed[j]
                              /\ lease'[j] = lease[j] \/ lease'[j] = NoWorker
    BY <1>1, DropPhases
  <1>3. \/ tool'[k] = m /\ hand'[k] = w /\ lock'[k] = "tool"
        \/ tool'[k] = a /\ hand'[k] = NoWorker /\ lock'[k] = "free" /\ owed'[k] = owed[k]
    BY <1>1, DropPhases
  <1>4. restart[k] = {} /\ w # NoWorker
    BY PoolAssumption DEF LeaseLockIsHeld
  <1>5. Phases'
    <2> SUFFICES ASSUME NEW j \in Keys
                 PROVE  /\ has'[j] # NoWorker => tool'[j] \in {"ready", "running", "dropping"}
                        /\ hand'[j] # NoWorker =>
                             tool'[j] \in {"joining", "unjoining", "ending", "resetting", "discarding"}
                        /\ tool'[j] \in {"joining", "unjoining", "ending", "resetting", "discarding"} =>
                             hand'[j] \in Workers
                        /\ tool'[j] \in {"running", "dropping"} => has'[j] \in Workers
                        /\ owed'[j] => tool'[j] \in {"unjoining", "ending", "discarding"}
                        /\ tool'[j] = "closing" => restart'[j] = {}
                        /\ tool'[j] = "resetting" => lease'[j] = NoWorker
      BY DEF Phases
    <2>1. CASE j = k
      <3>1. CASE tool'[k] = m /\ hand'[k] = w
        BY <1>4, <2>1, <3>1
      <3>2. CASE tool'[k] = a /\ hand'[k] = NoWorker /\ owed'[k] = owed[k]
        BY <2>1, <3>2, PoolAssumption
      <3> QED
        BY <1>3, <3>1, <3>2
    <2>2. CASE j # k
      BY <1>2, <2>2 DEF Phases
    <2> QED
      BY <2>1, <2>2
  <1>6. LeaseLockIsHeld'
    <2> SUFFICES ASSUME NEW j \in Keys
                 PROVE  /\ lock'[j] = "tool" <=> tool'[j] \in InsideLock
                        /\ lock'[j] = "restart" <=> restart'[j] # {}
      BY DEF LeaseLockIsHeld
    <2>1. CASE j = k
      BY <1>3, <1>4, <2>1 DEF InsideLock
    <2>2. CASE j # k
      BY <1>2, <2>2 DEF LeaseLockIsHeld
    <2> QED
      BY <2>1, <2>2
  <1> QED
    BY <1>5, <1>6

\* Every step keeps the phases and the lease locks.
LEMMA PhasesStep ==
  TypeOK /\ Phases /\ LeaseLockIsHeld /\ [Next]_vars => Phases' /\ LeaseLockIsHeld'
  <1> SUFFICES ASSUME TypeOK, Phases, LeaseLockIsHeld, [Next]_vars
               PROVE  Phases' /\ LeaseLockIsHeld'
    OBVIOUS
  <1> USE PoolAssumption DEF toolVars, poolVars, history, ToolAt, AtHand, Hold, Unlocked, Locked,
              Lease, LosesSlot, ToolPhases, InsideLock
  <1>1. ASSUME NEW w \in Workers, WorkerDies(w) PROVE Phases' /\ LeaseLockIsHeld'
    BY <1>1 DEF WorkerDies, TypeOK, Phases, LeaseLockIsHeld
  <1>2. ASSUME NEW k \in Keys, Execute(k) PROVE Phases' /\ LeaseLockIsHeld'
    BY <1>2 DEF Execute, TypeOK, Phases, LeaseLockIsHeld
  <1>3. ASSUME NEW k \in Keys, Acquire(k) PROVE Phases' /\ LeaseLockIsHeld'
    <2>1. CASE lease[k] \in alive
      BY <1>3, <2>1 DEF Acquire, TypeOK, Phases, LeaseLockIsHeld
    <2>2. CASE lease[k] \notin alive /\ FindIdleWorker # {}
      <3>1. PICK w \in FindIdleWorker : Lease(k, w)
        BY <1>3, <2>2 DEF Acquire
      <3>2. w \in Workers /\ lock' = lock
        BY <1>3, <2>2 DEF Acquire, FindIdleWorker, Idle, TypeOK
      <3> QED
        BY <1>3, <3>1, <3>2 DEF Acquire, TypeOK, Phases, LeaseLockIsHeld
    <2>3. CASE lease[k] \notin alive /\ FindIdleWorker = {}
      BY <1>3, <2>3 DEF Acquire, TypeOK, Phases, LeaseLockIsHeld
    <2> QED
      BY <2>1, <2>2, <2>3
  <1>4. ASSUME NEW k \in Keys, TakeSlot(k) PROVE Phases' /\ LeaseLockIsHeld'
    BY <1>4 DEF TakeSlot, TypeOK, Phases, LeaseLockIsHeld
  <1>5. ASSUME NEW k \in Keys, AcquireFails(k) PROVE Phases' /\ LeaseLockIsHeld'
    BY <1>5 DEF AcquireFails, TypeOK, Phases, LeaseLockIsHeld
  <1>6. ASSUME NEW k \in Keys, SpawnFails(k) PROVE Phases' /\ LeaseLockIsHeld'
    BY <1>6 DEF SpawnFails, TypeOK, Phases, LeaseLockIsHeld
  <1>7. ASSUME NEW k \in Keys, NEW w \in Workers, Spawned(k, w) PROVE Phases' /\ LeaseLockIsHeld'
    BY <1>7 DEF Spawned, TypeOK, Phases, LeaseLockIsHeld
  <1>8. ASSUME NEW k \in Keys, Join(k) PROVE Phases' /\ LeaseLockIsHeld'
    BY <1>8 DEF Join, TypeOK, Phases, LeaseLockIsHeld
  <1>9. ASSUME NEW k \in Keys, Unjoin(k) PROVE Phases' /\ LeaseLockIsHeld'
    <2>1. /\ hand[k] \in Workers /\ DropWorker(k, hand[k], "unjoining", "ready")
          /\ ~owed[k] /\ lock[k] # "restart" /\ has[k] = NoWorker
      BY <1>9 DEF Unjoin, Phases, LeaseLockIsHeld
    <2> QED
      BY <1>9, <2>1, DropKeepsPhases DEF Unjoin
  <1>10. ASSUME NEW k \in Keys, CodeReturns(k) PROVE Phases' /\ LeaseLockIsHeld'
    BY <1>10 DEF CodeReturns, TypeOK, Phases, LeaseLockIsHeld
  <1>11. ASSUME NEW k \in Keys, NEW kills \in BOOLEAN, CodeFails(k, kills) PROVE Phases' /\ LeaseLockIsHeld'
    BY <1>11 DEF CodeFails, TypeOK, Phases, LeaseLockIsHeld
  <1>12. ASSUME NEW k \in Keys, Drop(k) PROVE Phases' /\ LeaseLockIsHeld'
    <2>1. /\ has[k] \in Workers /\ DropWorker(k, has[k], "ending", "ready")
          /\ ~owed[k] /\ lock[k] # "restart"
          /\ has'[k] = NoWorker /\ \A j \in Keys \ {k} : has'[j] = has[j]
      BY <1>12 DEF Drop, Phases, TypeOK
    <2> QED
      BY <1>12, <2>1, DropKeepsPhases DEF Drop
  <1>13. ASSUME NEW k \in Keys, Ended(k) PROVE Phases' /\ LeaseLockIsHeld'
    BY <1>13 DEF Ended, TypeOK, Phases, LeaseLockIsHeld
  <1>14. ASSUME NEW k \in Keys, DropIsCut(k) PROVE Phases' /\ LeaseLockIsHeld'
    BY <1>14 DEF DropIsCut, TypeOK, Phases, LeaseLockIsHeld
  <1>15. ASSUME NEW k \in Keys, Close(k) PROVE Phases' /\ LeaseLockIsHeld'
    BY <1>15 DEF Close, TypeOK, Phases, LeaseLockIsHeld
  <1>16. ASSUME NEW k \in Keys, Release(k) PROVE Phases' /\ LeaseLockIsHeld'
    <2>1. CASE lease[k] \in Workers \ alive
      <3>1. /\ DropWorker(k, lease[k], "discarding", "out")
            /\ ~owed[k] /\ lock[k] # "restart" /\ has[k] = NoWorker
        BY <1>16, <2>1 DEF Release, Phases
      <3> QED
        BY <1>16, <2>1, <3>1, DropKeepsPhases DEF Release
    <2>2. CASE lease[k] \notin Workers \ alive
      BY <1>16, <2>2 DEF Release, TypeOK, Phases, LeaseLockIsHeld
    <2> QED
      BY <2>1, <2>2
  <1>17. ASSUME NEW k \in Keys, ResetDone(k) PROVE Phases' /\ LeaseLockIsHeld'
    <2>1. CASE DropWorker(k, hand[k], "discarding", "out")
      <3>1. hand[k] \in Workers /\ ~owed[k] /\ lock[k] # "restart" /\ has[k] = NoWorker
        BY <1>17 DEF ResetDone, Phases, LeaseLockIsHeld
      <3> QED
        BY <1>17, <2>1, <3>1, DropKeepsPhases DEF ResetDone
    <2>2. CASE UNCHANGED <<slots, pool, lease, owed>> /\ AtHand(k, NoWorker) /\ Unlocked(k) /\ ToolAt(k, "out")
      BY <1>17, <2>2 DEF ResetDone, TypeOK, Phases, LeaseLockIsHeld
    <2> QED
      BY <1>17, <2>1, <2>2 DEF ResetDone
  <1>18. ASSUME NEW k \in Keys, ResetFails(k) PROVE Phases' /\ LeaseLockIsHeld'
    <2>1. /\ hand[k] \in Workers /\ DropWorker(k, hand[k], "discarding", "out")
          /\ ~owed[k] /\ lock[k] # "restart" /\ has[k] = NoWorker
      BY <1>18 DEF ResetFails, Phases, LeaseLockIsHeld
    <2> QED
      BY <1>18, <2>1, DropKeepsPhases DEF ResetFails
  <1>19. ASSUME NEW k \in Keys, CloseIsCut(k) PROVE Phases' /\ LeaseLockIsHeld'
    BY <1>19 DEF CloseIsCut, TypeOK, Phases, LeaseLockIsHeld
  <1>20. ASSUME NEW k \in Keys, Purge(k) PROVE Phases' /\ LeaseLockIsHeld'
    BY <1>20 DEF Purge, TypeOK, Phases, LeaseLockIsHeld
  <1>21. ASSUME NEW k \in Keys, PurgeOne(k) PROVE Phases' /\ LeaseLockIsHeld'
    BY <1>21 DEF PurgeOne, TypeOK, Phases, LeaseLockIsHeld
  <1>22. ASSUME NEW k \in Keys, PurgeIsCut(k) PROVE Phases' /\ LeaseLockIsHeld'
    BY <1>22 DEF PurgeIsCut, TypeOK, Phases, LeaseLockIsHeld
  <1>23. CASE Sweep
    BY <1>23 DEF Sweep, TypeOK, Phases, LeaseLockIsHeld
  <1>24. CASE Shutdown
    BY <1>24 DEF Shutdown, TypeOK, Phases, LeaseLockIsHeld
  <1>25. CASE SweepOne
    BY <1>25 DEF SweepOne, TypeOK, Phases, LeaseLockIsHeld
  <1>26. CASE UNCHANGED vars
    BY <1>26 DEF vars, Phases, LeaseLockIsHeld
  <1> QED
    BY <1>1, <1>2, <1>3, <1>4, <1>5, <1>6, <1>7, <1>8, <1>9, <1>10, <1>11, <1>12, <1>13, <1>14,
       <1>15, <1>16, <1>17, <1>18, <1>19, <1>20, <1>21, <1>22, <1>23, <1>24, <1>25,
       <1>26 DEF Next

-----------------------------------------------------------------------------
(* Who has a claim to which kernel.                                        *)

\* A step that takes kernels out of the pool, ends leases and uses and grants none keeps
\* the claims apart, provided nobody uses or is about to join what it takes out.
LEMMA ShrinkOwned ==
  ASSUME TypeOK, TypeOK', Owned, pool' \subseteq pool,
         \A w \in pool' : state'[w] = state[w],
         \A j \in Keys : lease'[j] = NoWorker \/ (lease'[j] = lease[j] /\ lease[j] \in pool'),
         \A j \in Keys : Uses(j)' = NoWorker \/ Uses(j)' = Uses(j),
         \A j \in Joining' : j \in Joining /\ hand'[j] = hand[j] /\ hand[j] \in pool',
         \A w \in swept' : w \in swept \/ w \in pool \ pool',
         \A j \in Keys : \A w \in restart'[j] : w \in restart[j] \/ w \in pool \ pool',
         \A k \in Keys : Uses(k)' # NoWorker =>
           /\ closed' \/ Uses(k) \notin swept'
           /\ \A j \in Keys \ {k} : Uses(k) \notin restart'[j]
  PROVE  Owned'
  <1>1. LeasesAreOwn'
    BY DEF Owned, LeasesAreOwn
  <1>2. UsesAreOwn'
    BY DEF Owned, UsesAreOwn
  <1>3. JoiningAreOwn'
    BY DEF Owned, JoiningAreOwn
  <1>4. VictimsAreOut'
    BY DEF Owned, VictimsAreOut
  <1> QED
    BY <1>1, <1>2, <1>3, <1>4 DEF Owned

\* Granting to one conversation a kernel nobody else claims keeps the claims apart.
LEMMA GrantOwned ==
  ASSUME TypeOK, TypeOK', Owned, NEW k \in Keys, NEW w \in Workers, w \in pool', state'[w] = "leased",
         \A v \in pool' \ {w} : v \in pool /\ state'[v] = state[v],
         pool \subseteq pool', swept' = swept, restart' = restart, closed' = closed,
         w \notin swept, \A j \in Keys : w \notin restart[j],
         Uses(k)' = w, lease'[k] = w \/ lease'[k] = NoWorker,
         \A j \in Keys \ {k} : /\ lease'[j] = lease[j] /\ Uses(j)' = Uses(j)
                               /\ lease[j] # w /\ Uses(j) # w,
         \A j \in Joining' : j \in Joining \ {k} /\ hand'[j] = hand[j] /\ hand[j] # w
  PROVE  Owned'
  <1>0. w # NoWorker
    BY PoolAssumption
  <1>1. LeasesAreOwn'
    <2> SUFFICES ASSUME NEW i \in Keys, lease'[i] # NoWorker
                 PROVE  /\ lease'[i] \in pool' /\ state'[lease'[i]] = "leased"
                        /\ \A j \in Keys \ {i} : lease'[j] # lease'[i] /\ Uses(j)' # lease'[i]
      BY DEF LeasesAreOwn
    <2>1. CASE i = k
      BY <1>0, <2>1
    <2>2. CASE i # k
      BY <1>0, <2>2 DEF Owned, LeasesAreOwn
    <2> QED
      BY <2>1, <2>2
  <1>2. UsesAreOwn'
    <2> SUFFICES ASSUME NEW i \in Keys, Uses(i)' # NoWorker
                 PROVE  /\ Uses(i)' \in pool' => state'[Uses(i)'] = "leased"
                        /\ \A j \in Keys \ {i} : Uses(j)' # Uses(i)' /\ Uses(i)' \notin restart[j]
                        /\ closed \/ Uses(i)' \notin swept
      BY DEF UsesAreOwn
    <2>1. CASE i = k
      BY <1>0, <2>1
    <2>2. CASE i # k
      BY <1>0, <2>2 DEF Owned, UsesAreOwn
    <2> QED
      BY <2>1, <2>2
  <1>3. JoiningAreOwn'
    BY DEF Owned, JoiningAreOwn
  <1>4. VictimsAreOut'
    BY DEF Owned, VictimsAreOut
  <1> QED
    BY <1>1, <1>2, <1>3, <1>4 DEF Owned

\* A kernel in the pool that is idle is claimed by nobody.
LEMMA IdleIsUnclaimed ==
  ASSUME TypeOK, Owned, NEW w \in Idle
  PROVE  /\ w \in Workers /\ w # NoWorker /\ w \notin swept
         /\ \A j \in Keys : lease[j] # w /\ Uses(j) # w /\ w \notin restart[j]
  BY PoolAssumption DEF Idle, Owned, LeasesAreOwn, UsesAreOwn, VictimsAreOut, TypeOK

\* A kernel of the actor is not unused.
LEMMA UnusedIsUnclaimed ==
  ASSUME TypeOK, Owned, NEW w \in Unused
  PROVE  /\ w \in Workers /\ w # NoWorker /\ w \notin swept /\ w \notin pool
         /\ \A j \in Keys : /\ lease[j] # w /\ Uses(j) # w /\ w \notin restart[j]
                            /\ hand[j] # w /\ has[j] # w
  <1>1. /\ w \in Workers /\ w \notin swept /\ w \notin pool
        /\ \A j \in Keys : w \notin restart[j] /\ hand[j] # w /\ has[j] # w
    <2>1. /\ w \in Workers /\ w \notin swept /\ w \notin pool
          /\ w \notin UNION {restart[j] : j \in Keys}
          /\ w \notin {has[j] : j \in Keys} /\ w \notin {hand[j] : j \in Keys}
      BY DEF Unused
    <2>2. ASSUME NEW j \in Keys PROVE w \notin restart[j] /\ hand[j] # w /\ has[j] # w
      BY <2>1
    <2> QED
      BY <2>1, <2>2
  <1> QED
    BY <1>1, PoolAssumption DEF Uses, Owned, LeasesAreOwn

\* Dropping a kernel that only this conversation claims, or that is already out.
LEMMA DropOwned ==
  ASSUME TypeOK, TypeOK', Phases, Owned, NEW k \in Keys, NEW w \in Workers,
         NEW m \in {"unjoining", "ending", "discarding"}, NEW a \in {"ready", "out"},
         DropWorker(k, w, m, a),
         \A v \in pool \ {w} : state'[v] = state[v],
         swept' = swept, restart' = restart, closed' = closed,
         \A j \in Keys \ {k} : has'[j] = has[j],
         has'[k] = NoWorker \/ (has'[k] = has[k] /\ tool[k] # "resetting"),
         \A j \in Joining \ {k} : hand[j] # w
  PROVE  Owned'
  <1>1. /\ pool' = pool \ {w}
        /\ \A j \in Keys : lease'[j] = IF lease[j] = w THEN NoWorker ELSE lease[j]
        /\ \A j \in Keys \ {k} : tool'[j] = tool[j] /\ hand'[j] = hand[j]
        /\ tool'[k] \in {"unjoining", "ending", "discarding", "ready", "out"}
    BY DEF DropWorker, Without, ToolAt, AtHand, TypeOK
  <1>2. \A j \in Keys : Uses(j)' = NoWorker \/ Uses(j)' = Uses(j)
    BY <1>1 DEF Uses
  <1>3. \A j \in Joining' : j \in Joining /\ j # k /\ hand'[j] = hand[j] /\ hand[j] \in pool'
    BY <1>1 DEF Joining, Owned, JoiningAreOwn
  <1>4. \A j \in Keys : lease'[j] = NoWorker \/ (lease'[j] = lease[j] /\ lease[j] \in pool')
    <2> SUFFICES ASSUME NEW j \in Keys, lease'[j] # NoWorker
                 PROVE  lease'[j] = lease[j] /\ lease[j] \in pool'
      OBVIOUS
    <2>1. lease'[j] = lease[j] /\ lease[j] # w
      BY <1>1
    <2>2. lease[j] \in pool
      BY <2>1 DEF Owned, LeasesAreOwn
    <2> QED
      BY <1>1, <2>1, <2>2
  <1>5. \A i \in Keys : Uses(i)' # NoWorker =>
           /\ closed' \/ Uses(i) \notin swept'
           /\ \A j \in Keys \ {i} : Uses(i) \notin restart'[j]
    BY <1>2 DEF Owned, UsesAreOwn
  <1>6. /\ pool' \subseteq pool
        /\ \A v \in pool' : state'[v] = state[v]
        /\ \A v \in swept' : v \in swept \/ v \in pool \ pool'
        /\ \A j \in Keys : \A v \in restart'[j] : v \in restart[j] \/ v \in pool \ pool'
    BY <1>1
  <1> QED
    BY <1>2, <1>3, <1>4, <1>5, <1>6, ShrinkOwned

\* A step of one conversation's tool that moves no kernel and grants none.
LEMMA QuietOwned ==
  ASSUME TypeOK, TypeOK', Owned, pool' = pool, state' = state, lease' = lease, swept' = swept,
         restart' = restart, closed' = closed,
         \A j \in Keys : Uses(j)' = NoWorker \/ Uses(j)' = Uses(j),
         \A j \in Joining' : j \in Joining /\ hand'[j] = hand[j]
  PROVE  Owned'
  <1>1. \A j \in Keys : lease'[j] = NoWorker \/ (lease'[j] = lease[j] /\ lease[j] \in pool')
    BY DEF Owned, LeasesAreOwn
  <1>2. \A j \in Joining' : j \in Joining /\ hand'[j] = hand[j] /\ hand[j] \in pool'
    BY DEF Owned, JoiningAreOwn
  <1>3. \A k \in Keys : Uses(k)' # NoWorker =>
           /\ closed' \/ Uses(k) \notin swept'
           /\ \A j \in Keys \ {k} : Uses(k) \notin restart'[j]
    BY DEF Owned, UsesAreOwn
  <1> QED
    BY <1>1, <1>2, <1>3, ShrinkOwned

\* acquire grants the conversation's own live lease, or an idle kernel.
LEMMA AcquireOwned ==
  ASSUME TypeOK, TypeOK', Phases, Owned, NEW k \in Keys, Acquire(k), ~taken'
  PROVE  Owned'
  <1>0. /\ pool' = pool /\ hand' = hand /\ swept' = swept /\ restart' = restart /\ closed' = closed
        /\ tool[k] = "waiting" /\ k \notin Joining
    BY DEF Acquire, Joining
  <1>1. CASE lease[k] \in alive
    <2>1. /\ lease' = lease /\ state' = state
          /\ has' = [has EXCEPT ![k] = lease[k]] /\ tool' = [tool EXCEPT ![k] = "running"]
      BY <1>1 DEF Acquire, Hold, ToolAt
    <2>2. /\ Uses(k)' = lease[k] /\ \A j \in Keys \ {k} : Uses(j)' = Uses(j)
          /\ \A j \in Joining' : j \in Joining \ {k} /\ hand'[j] = hand[j]
      BY <1>0, <2>1 DEF Uses, Joining, TypeOK
    <2>3. /\ lease[k] \in Workers /\ lease[k] \in pool /\ state[lease[k]] = "leased"
          /\ \A j \in Keys \ {k} : lease[j] # lease[k] /\ Uses(j) # lease[k]
      BY <1>1, PoolAssumption DEF Owned, LeasesAreOwn, TypeOK
    <2>4. lease[k] \notin swept /\ \A j \in Keys : lease[k] \notin restart[j]
      BY <2>3 DEF Owned, VictimsAreOut
    <2>5. \A j \in Joining : hand[j] # lease[k]
      BY <2>3 DEF Owned, JoiningAreOwn
    <2> QED
      BY <1>0, <2>1, <2>2, <2>3, <2>4, <2>5, GrantOwned
  <1>2. CASE lease[k] \notin alive /\ FindIdleWorker # {}
    <2>1. PICK w \in FindIdleWorker : /\ Lease(k, w)
                                      /\ taken' = (taken \/ \E j \in Joining : hand[j] = w)
      BY <1>2 DEF Acquire
    <2>2. /\ state' = [state EXCEPT ![w] = "leased"] /\ lease' = [lease EXCEPT ![k] = w]
          /\ has' = [has EXCEPT ![k] = w] /\ tool' = [tool EXCEPT ![k] = "running"]
      BY <2>1 DEF Lease, Hold, ToolAt
    <2>3. w \in Idle /\ w \in pool /\ \A j \in Joining : hand[j] # w
      BY <2>1 DEF FindIdleWorker, Idle
    <2>4. /\ w \in Workers /\ w # NoWorker /\ w \notin swept
          /\ \A j \in Keys : lease[j] # w /\ Uses(j) # w /\ w \notin restart[j]
      BY <2>3, IdleIsUnclaimed
    <2>5. /\ Uses(k)' = w /\ \A j \in Keys \ {k} : Uses(j)' = Uses(j)
          /\ \A j \in Joining' : j \in Joining \ {k} /\ hand'[j] = hand[j]
      BY <1>0, <2>2 DEF Uses, Joining, TypeOK
    <2>6. /\ state'[w] = "leased" /\ \A v \in pool' \ {w} : state'[v] = state[v]
          /\ lease'[k] = w /\ \A j \in Keys \ {k} : lease'[j] = lease[j]
      BY <2>2, <2>4 DEF TypeOK
    <2> QED
      BY <1>0, <2>3, <2>4, <2>5, <2>6, GrantOwned
  <1>3. CASE lease[k] \notin alive /\ FindIdleWorker = {}
    <2>1. /\ lease' = lease /\ state' = state /\ has' = has
          /\ tool' = [tool EXCEPT ![k] = "limiting"]
      BY <1>3 DEF Acquire, ToolAt
    <2>2. /\ \A j \in Keys : Uses(j)' = Uses(j)
          /\ \A j \in Joining' : j \in Joining
      BY <1>0, <2>1 DEF Uses, Joining, TypeOK
    <2> QED
      BY <1>0, <2>1, <2>2, QuietOwned
  <1> QED
    BY <1>1, <1>2, <1>3

\* A started kernel is leased at once, or waits to be joined: nobody else knows it.
LEMMA SpawnedOwned ==
  ASSUME TypeOK, TypeOK', Phases, Owned, NEW k \in Keys, NEW w \in Workers, Spawned(k, w)
  PROVE  Owned'
  <1>0. /\ pool' = pool \cup {w} /\ swept' = swept /\ restart' = restart /\ closed' = closed
        /\ tool[k] = "spawning" /\ k \notin Joining /\ w \in Unused
    BY DEF Spawned, Joining
  <1>1. /\ w # NoWorker /\ w \notin swept /\ w \notin pool
        /\ \A j \in Keys : /\ lease[j] # w /\ Uses(j) # w /\ w \notin restart[j]
                           /\ hand[j] # w /\ has[j] # w
    BY <1>0, UnusedIsUnclaimed
  <1>2. CASE tool' = [tool EXCEPT ![k] = "running"]
    <2>1. Lease(k, w) /\ hand' = hand
      BY <1>0, <1>2 DEF Spawned, ToolAt, TypeOK
    <2>2. /\ state' = [state EXCEPT ![w] = "leased"] /\ lease' = [lease EXCEPT ![k] = w]
          /\ has' = [has EXCEPT ![k] = w]
      BY <2>1 DEF Lease, Hold
    <2>3. /\ Uses(k)' = w /\ \A j \in Keys \ {k} : Uses(j)' = Uses(j)
          /\ \A j \in Joining' : j \in Joining \ {k} /\ hand'[j] = hand[j]
      BY <1>0, <1>2, <2>1, <2>2 DEF Uses, Joining, TypeOK
    <2>4. /\ state'[w] = "leased" /\ \A v \in pool' \ {w} : v \in pool /\ state'[v] = state[v]
          /\ lease'[k] = w /\ \A j \in Keys \ {k} : lease'[j] = lease[j]
          /\ w \in pool' /\ pool \subseteq pool'
      BY <1>0, <2>2 DEF TypeOK
    <2>5. \A j \in Joining : hand[j] # w
      BY <1>1 DEF Joining
    <2> QED
      BY <1>0, <1>1, <2>3, <2>4, <2>5, GrantOwned
  <1>3. CASE tool' # [tool EXCEPT ![k] = "running"]
    <2>1. /\ tool' = [tool EXCEPT ![k] = "joining"] /\ hand' = [hand EXCEPT ![k] = w]
          /\ state' = [state EXCEPT ![w] = "idle"] /\ lease' = lease /\ has' = has
      BY <1>3 DEF Spawned, Lease, ToolAt, AtHand
    <2>2. /\ \A j \in Keys : Uses(j)' = Uses(j)
          /\ \A j \in Joining' : j = k \/ (j \in Joining /\ j # k /\ hand'[j] = hand[j])
          /\ hand'[k] = w /\ state'[w] = "idle"
          /\ \A v \in pool : state'[v] = state[v]
      BY <1>0, <1>1, <2>1 DEF Uses, Joining, TypeOK
    <2>3. LeasesAreOwn'
      BY <1>0, <1>1, <2>1, <2>2 DEF Owned, LeasesAreOwn
    <2>4. UsesAreOwn'
      BY <1>0, <1>1, <2>1, <2>2 DEF Owned, UsesAreOwn
    <2>5. JoiningAreOwn'
      <3> SUFFICES ASSUME NEW i \in Joining'
                   PROVE  /\ hand'[i] \in pool' /\ state'[hand'[i]] = "idle"
                          /\ \A j \in Joining' \ {i} : hand'[j] # hand'[i]
        BY DEF JoiningAreOwn
      <3>1. \A j \in Joining : hand[j] \in pool /\ state[hand[j]] = "idle" /\ hand[j] # w
        BY <1>1 DEF Owned, JoiningAreOwn, Joining
      <3>2. CASE i = k
        BY <1>0, <2>2, <3>1, <3>2
      <3>3. CASE i # k
        BY <1>0, <2>2, <3>1, <3>3 DEF Owned, JoiningAreOwn
      <3> QED
        BY <3>2, <3>3
    <2>6. VictimsAreOut'
      BY <1>0, <1>1 DEF Owned, VictimsAreOut
    <2> QED
      BY <2>3, <2>4, <2>5, <2>6 DEF Owned
  <1> QED
    BY <1>2, <1>3

\* The kernel that joins is idle, in the pool and nobody else's.
LEMMA JoinOwned ==
  ASSUME TypeOK, TypeOK', Phases, Owned, NEW k \in Keys, Join(k)
  PROVE  Owned'
  <1> DEFINE w == hand[k]
  <1>1. /\ pool' = pool /\ swept' = swept /\ restart' = restart /\ closed' = closed
        /\ k \in Joining /\ w \in Workers /\ w \in pool /\ state[w] = "idle"
        /\ \A j \in Joining \ {k} : hand[j] # w
    BY DEF Join, Joining, Phases, Owned, JoiningAreOwn
  <1>2. /\ state' = [state EXCEPT ![w] = "leased"] /\ lease' = [lease EXCEPT ![k] = w]
        /\ has' = [has EXCEPT ![k] = w] /\ tool' = [tool EXCEPT ![k] = "running"]
        /\ hand' = [hand EXCEPT ![k] = NoWorker]
    BY DEF Join, Lease, Hold, ToolAt, AtHand
  <1>3. /\ w # NoWorker /\ w \notin swept
        /\ \A j \in Keys : lease[j] # w /\ Uses(j) # w /\ w \notin restart[j]
    BY <1>1, IdleIsUnclaimed DEF Idle
  <1>4. /\ Uses(k)' = w /\ \A j \in Keys \ {k} : Uses(j)' = Uses(j)
        /\ \A j \in Joining' : j \in Joining \ {k} /\ hand'[j] = hand[j]
    BY <1>2 DEF Uses, Joining, TypeOK
  <1>5. /\ state'[w] = "leased" /\ \A v \in pool' \ {w} : state'[v] = state[v]
        /\ lease'[k] = w /\ \A j \in Keys \ {k} : lease'[j] = lease[j]
    BY <1>1, <1>2 DEF TypeOK
  <1> QED
    BY <1>1, <1>3, <1>4, <1>5, GrantOwned

\* release puts the lease aside for the reset, or drops its dead kernel.
LEMMA ReleaseOwned ==
  ASSUME TypeOK, TypeOK', Phases, Owned, NEW k \in Keys, Release(k)
  PROVE  Owned'
  <1>0. /\ swept' = swept /\ restart' = restart /\ closed' = closed /\ has' = has
        /\ tool[k] = "closing" /\ has[k] = NoWorker
    BY DEF Release, Phases
  <1>1. CASE lease[k] = NoWorker
    <2>0. lease[k] \notin alive /\ lease[k] \notin Workers
      BY <1>1, PoolAssumption DEF TypeOK
    <2>1. /\ pool' = pool /\ state' = state /\ lease' = lease /\ hand' = hand
          /\ tool' = [tool EXCEPT ![k] = "out"]
      BY <2>0 DEF Release, ToolAt, poolVars
    <2>2. /\ \A j \in Keys : Uses(j)' = Uses(j)
          /\ \A j \in Joining' : j \in Joining
      BY <1>0, <2>1 DEF Uses, Joining, TypeOK
    <2> QED
      BY <1>0, <2>1, <2>2, QuietOwned
  <1>2. CASE lease[k] \in Workers \cap alive
    <2>1. /\ lease' = [lease EXCEPT ![k] = NoWorker] /\ hand' = [hand EXCEPT ![k] = lease[k]]
          /\ tool' = [tool EXCEPT ![k] = "resetting"] /\ pool' = pool /\ state' = state
      BY <1>2, PoolAssumption DEF Release, ToolAt, AtHand
    <2>2. /\ Uses(k)' = lease[k] /\ \A j \in Keys \ {k} : Uses(j)' = Uses(j)
          /\ \A j \in Joining' : j \in Joining \ {k} /\ hand'[j] = hand[j]
      BY <1>0, <2>1 DEF Uses, Joining, TypeOK
    <2>3. /\ lease[k] \in pool /\ state[lease[k]] = "leased"
          /\ \A j \in Keys \ {k} : lease[j] # lease[k] /\ Uses(j) # lease[k]
      BY <1>2, PoolAssumption DEF Owned, LeasesAreOwn
    <2>4. lease[k] \notin swept /\ \A j \in Keys : lease[k] \notin restart[j]
      BY <2>3 DEF Owned, VictimsAreOut
    <2>5. \A j \in Joining : hand[j] # lease[k]
      BY <2>3 DEF Owned, JoiningAreOwn
    <2>6. lease'[k] = NoWorker /\ \A j \in Keys \ {k} : lease'[j] = lease[j]
      BY <2>1 DEF TypeOK
    <2> QED
      BY <1>0, <1>2, <2>1, <2>2, <2>3, <2>4, <2>5, <2>6, GrantOwned
  <1>3. CASE lease[k] \in Workers \ alive
    <2>1. /\ state' = [state EXCEPT ![lease[k]] = "idle"]
          /\ DropWorker(k, lease[k], "discarding", "out")
      BY <1>3, PoolAssumption DEF Release
    <2>2. state[lease[k]] = "leased"
      BY <1>3, PoolAssumption DEF Owned, LeasesAreOwn
    <2>3. \A j \in Joining \ {k} : hand[j] # lease[k]
      BY <2>2 DEF Owned, JoiningAreOwn
    <2>4. \A v \in pool \ {lease[k]} : state'[v] = state[v]
      BY <2>1 DEF TypeOK
    <2> QED
      BY <1>0, <1>3, <2>1, <2>3, <2>4, DropOwned DEF ToolPhases
  <1> QED
    BY <1>1, <1>2, <1>3 DEF TypeOK

\* The end of a reset: the kernel that was reset is idle again, or dropped.
LEMMA ResetOwned ==
  ASSUME TypeOK, TypeOK', Phases, Owned, NEW k \in Keys, ResetDone(k) \/ ResetFails(k)
  PROVE  Owned'
  <1>0. /\ swept' = swept /\ restart' = restart /\ closed' = closed /\ has' = has
        /\ tool[k] = "resetting" /\ has[k] = NoWorker /\ hand[k] \in Workers /\ lease[k] = NoWorker
        /\ \A v \in pool \ {hand[k]} : state'[v] = state[v]
    BY DEF ResetDone, ResetFails, Phases, TypeOK
  <1>1. hand[k] \in pool => state[hand[k]] = "leased"
    BY <1>0, PoolAssumption DEF Owned, UsesAreOwn, Uses
  <1>2. \A j \in Joining \ {k} : hand[j] # hand[k]
    BY <1>1 DEF Owned, JoiningAreOwn
  <1>3. CASE DropWorker(k, hand[k], "discarding", "out")
    BY <1>0, <1>2, <1>3, DropOwned
  <1>4. CASE ~DropWorker(k, hand[k], "discarding", "out")
    <2>1. /\ pool' = pool /\ lease' = lease /\ hand' = [hand EXCEPT ![k] = NoWorker]
          /\ tool' = [tool EXCEPT ![k] = "out"]
      BY <1>4 DEF ResetDone, ResetFails, AtHand, ToolAt
    <2>2. /\ Uses(k) = hand[k] /\ Uses(k)' = NoWorker /\ \A j \in Keys \ {k} : Uses(j)' = Uses(j)
          /\ \A j \in Joining' : j \in Joining \ {k} /\ hand'[j] = hand[j]
      BY <1>0, <2>1 DEF Uses, Joining, TypeOK
    <2>3. \A j \in Keys \ {k} : lease[j] # hand[k] /\ Uses(j) # hand[k]
      BY <1>0, <2>2, PoolAssumption DEF Owned, LeasesAreOwn, UsesAreOwn
    <2>4. LeasesAreOwn'
      BY <1>0, <2>1, <2>2, <2>3 DEF Owned, LeasesAreOwn
    <2>5. UsesAreOwn'
      BY <1>0, <2>1, <2>2, <2>3 DEF Owned, UsesAreOwn
    <2>6. JoiningAreOwn'
      BY <1>0, <1>2, <2>1, <2>2 DEF Owned, JoiningAreOwn
    <2>7. VictimsAreOut'
      BY <1>0, <2>1 DEF Owned, VictimsAreOut
    <2> QED
      BY <2>4, <2>5, <2>6, <2>7 DEF Owned
  <1> QED
    BY <1>3, <1>4

\* What restart_kernel takes out of the pool is idle or the conversation's own.
LEMMA PurgeOwned ==
  ASSUME TypeOK, TypeOK', Owned, NEW k \in Keys, Purge(k), ~taken'
  PROVE  Owned'
  <1>1. /\ pool' = pool \ PurgesFor(k) /\ lease' = [lease EXCEPT ![k] = NoWorker]
        /\ restart' = [restart EXCEPT ![k] = PurgesFor(k)]
        /\ swept' = swept /\ closed' = closed /\ state' = state
        /\ tool' = tool /\ has' = has /\ hand' = hand
        /\ \A j \in Joining : hand[j] \notin PurgesFor(k)
    BY DEF Purge, toolVars
  <1>2. PurgesFor(k) \subseteq pool
    BY DEF PurgesFor, Idle, Owned, LeasesAreOwn
  <1>3. \A j \in Keys \ {k} : lease[j] # NoWorker => lease[j] \notin PurgesFor(k)
    BY DEF PurgesFor, Idle, Owned, LeasesAreOwn
  <1>4. \A j \in Keys \ {k} : Uses(j) # NoWorker => Uses(j) \notin PurgesFor(k)
    BY DEF PurgesFor, Idle, Owned, LeasesAreOwn, UsesAreOwn
  <1>5. \A j \in Keys : lease'[j] = NoWorker \/ (lease'[j] = lease[j] /\ lease[j] \in pool')
    BY <1>1, <1>3 DEF Owned, LeasesAreOwn, TypeOK
  <1>6. \A j \in Keys : Uses(j)' = Uses(j)
    BY <1>1 DEF Uses
  <1>7. \A j \in Joining' : j \in Joining /\ hand'[j] = hand[j] /\ hand[j] \in pool'
    BY <1>1 DEF Joining, Owned, JoiningAreOwn
  <1>8. \A i \in Keys : Uses(i) # NoWorker => /\ closed' \/ Uses(i) \notin swept'
                                             /\ \A j \in Keys \ {i} : Uses(i) \notin restart'[j]
    BY <1>1, <1>4 DEF Owned, UsesAreOwn, TypeOK
  <1>9. \A j \in Keys : \A w \in restart'[j] : w \in restart[j] \/ w \in pool \ pool'
    BY <1>1, <1>2 DEF TypeOK
  <1> QED
    BY <1>1, <1>5, <1>6, <1>7, <1>8, <1>9, ShrinkOwned

\* The idle loop takes idle kernels only, shutdown everything: then the actor is closed.
LEMMA SweepOwned ==
  ASSUME TypeOK, TypeOK', Owned, Sweep \/ Shutdown, ~taken'
  PROVE  Owned'
  <1>1. /\ restart' = restart /\ state' = state /\ tool' = tool /\ has' = has /\ hand' = hand
        /\ pool' = pool \ swept' /\ swept' \subseteq pool
        /\ closed' \/ swept' \subseteq Idle
        /\ \A j \in Joining : hand[j] \notin swept'
        /\ \A j \in Keys : lease'[j] = NoWorker \/ (lease'[j] = lease[j] /\ lease[j] \notin swept')
    <2>1. CASE Sweep
      BY <2>1 DEF Sweep, Sweepable, Idle, toolVars, TypeOK
    <2>2. CASE Shutdown
      BY <2>2 DEF Shutdown, toolVars
    <2> QED
      BY <2>1, <2>2
  <1>2. \A j \in Keys : lease'[j] = NoWorker \/ (lease'[j] = lease[j] /\ lease[j] \in pool')
    BY <1>1 DEF Owned, LeasesAreOwn
  <1>3. \A j \in Keys : Uses(j)' = Uses(j)
    BY <1>1 DEF Uses
  <1>4. \A j \in Joining' : j \in Joining /\ hand'[j] = hand[j] /\ hand[j] \in pool'
    BY <1>1 DEF Joining, Owned, JoiningAreOwn
  <1>5. \A i \in Keys : Uses(i) # NoWorker => /\ closed' \/ Uses(i) \notin swept'
                                             /\ \A j \in Keys \ {i} : Uses(i) \notin restart'[j]
    BY <1>1, IdleIsUnclaimed DEF Owned, UsesAreOwn
  <1> QED
    BY <1>1, <1>2, <1>3, <1>4, <1>5, ShrinkOwned

\* A victim ends, or the call that ends the victims is cut off.
LEMMA VictimsOwned ==
  ASSUME TypeOK, TypeOK', Owned, pool' = pool, state' = state, lease' = lease, tool' = tool,
         has' = has, hand' = hand, closed' = closed, swept' \subseteq swept,
         \A j \in Keys : restart'[j] \subseteq restart[j]
  PROVE  Owned'
  <1>1. \A j \in Keys : lease'[j] = NoWorker \/ (lease'[j] = lease[j] /\ lease[j] \in pool')
    BY DEF Owned, LeasesAreOwn
  <1>2. \A j \in Keys : Uses(j)' = Uses(j)
    BY DEF Uses
  <1>3. \A j \in Joining' : j \in Joining /\ hand'[j] = hand[j] /\ hand[j] \in pool'
    BY DEF Joining, Owned, JoiningAreOwn
  <1>4. \A i \in Keys : Uses(i) # NoWorker => /\ closed' \/ Uses(i) \notin swept'
                                             /\ \A j \in Keys \ {i} : Uses(i) \notin restart'[j]
    BY DEF Owned, UsesAreOwn
  <1> QED
    BY <1>1, <1>2, <1>3, <1>4, ShrinkOwned

\* Every step keeps the claims apart, until one takes a kernel from the call that starts it.
LEMMA OwnedStep ==
  TypeOK /\ Phases /\ (taken \/ Owned) /\ [Next]_vars => taken' \/ Owned'
  <1> SUFFICES ASSUME TypeOK, Phases, taken \/ Owned, [Next]_vars, ~taken' PROVE Owned'
    OBVIOUS
  <1>0. TypeOK' /\ Owned
    <2>1. ~taken
      BY DEF Next, vars, history, WorkerDies, Execute, Acquire, TakeSlot, AcquireFails,
             SpawnFails, Spawned, Join, Unjoin, CodeReturns, CodeFails, Drop, Ended, DropIsCut,
             Close, Release, ResetDone, ResetFails, CloseIsCut, Purge, PurgeOne, PurgeIsCut,
             Sweep, Shutdown, SweepOne
    <2> QED
      BY <2>1, TypeStep
  <1>1. ASSUME NEW k \in Keys, NEW p \in ToolPhases \ {"resetting", "joining"},
               tool' = [tool EXCEPT ![k] = p],
               pool' = pool, state' = state, lease' = lease, swept' = swept,
               restart' = restart, closed' = closed,
               \A j \in Keys \ {k} : has'[j] = has[j] /\ hand'[j] = hand[j],
               has'[k] = has[k] \/ has'[k] = NoWorker,
               tool[k] = "resetting" => has[k] = NoWorker
        PROVE  Owned'
    <2>1. /\ \A j \in Keys : Uses(j)' = NoWorker \/ Uses(j)' = Uses(j)
          /\ \A j \in Joining' : j \in Joining /\ hand'[j] = hand[j]
      BY <1>0, <1>1 DEF Uses, Joining, TypeOK
    <2> QED
      BY <1>0, <1>1, <2>1, QuietOwned
  <1>2. ASSUME NEW k \in Keys,
               Execute(k) \/ TakeSlot(k) \/ AcquireFails(k) \/ SpawnFails(k) \/ CodeReturns(k)
        PROVE  Owned'
    <2>1. PICK p \in ToolPhases \ {"resetting", "joining"} : tool' = [tool EXCEPT ![k] = p]
      BY <1>2 DEF Execute, TakeSlot, AcquireFails, SpawnFails, CodeReturns, ToolAt, ToolPhases
    <2> QED
      BY <1>1, <1>2, <2>1 DEF Execute, TakeSlot, AcquireFails, SpawnFails, CodeReturns, poolVars
  <1>3. ASSUME NEW k \in Keys, NEW kills \in BOOLEAN, CodeFails(k, kills) PROVE Owned'
    BY <1>1, <1>3 DEF CodeFails, ToolAt, ToolPhases, poolVars
  <1>4. ASSUME NEW k \in Keys, Ended(k) \/ DropIsCut(k) \/ CloseIsCut(k) PROVE Owned'
    <2>1. PICK p \in {"ready", "out"} : tool' = [tool EXCEPT ![k] = p]
      BY <1>4 DEF Ended, DropIsCut, CloseIsCut, ToolAt
    <2>2. /\ hand' = [hand EXCEPT ![k] = NoWorker] /\ has' = has
          /\ tool[k] = "resetting" => has[k] = NoWorker
      BY <1>4 DEF Ended, DropIsCut, CloseIsCut, LosesSlot, AtHand, Phases
    <2> QED
      BY <1>0, <1>1, <1>4, <2>1, <2>2
         DEF Ended, DropIsCut, CloseIsCut, poolVars, ToolPhases, TypeOK
  <1>5. ASSUME NEW k \in Keys, Close(k) PROVE Owned'
    <2>1. PICK p \in {"closing", "out"} : tool' = [tool EXCEPT ![k] = p]
      BY <1>5 DEF Close, ToolAt
    <2>2. /\ p \in ToolPhases \ {"resetting", "joining"} /\ tool[k] # "resetting"
          /\ has'[k] = NoWorker /\ \A j \in Keys \ {k} : has'[j] = has[j] /\ hand'[j] = hand[j]
      BY <1>0, <1>5 DEF Close, Hold, ToolPhases, TypeOK
    <2> QED
      BY <1>1, <1>5, <2>1, <2>2 DEF Close, poolVars
  <1>6. ASSUME NEW k \in Keys, Acquire(k) PROVE Owned'
    BY <1>0, <1>6, AcquireOwned
  <1>7. ASSUME NEW k \in Keys, NEW w \in Workers, Spawned(k, w) PROVE Owned'
    BY <1>0, <1>7, SpawnedOwned
  <1>8. ASSUME NEW k \in Keys, Join(k) PROVE Owned'
    BY <1>0, <1>8, JoinOwned
  <1>9. ASSUME NEW k \in Keys, Unjoin(k) PROVE Owned'
    <2>1. /\ DropWorker(k, hand[k], "unjoining", "ready") /\ hand[k] \in Workers /\ k \in Joining
          /\ has' = has /\ tool[k] # "resetting"
          /\ state' = state /\ swept' = swept /\ restart' = restart /\ closed' = closed
      BY <1>9 DEF Unjoin, Phases, Joining
    <2>2. \A j \in Joining \ {k} : hand[j] # hand[k]
      BY <1>0, <2>1 DEF Owned, JoiningAreOwn
    <2> QED
      BY <1>0, <2>1, <2>2, DropOwned DEF ToolPhases
  <1>10. ASSUME NEW k \in Keys, Drop(k) PROVE Owned'
    <2>1. /\ DropWorker(k, has[k], "ending", "ready") /\ has[k] \in Workers /\ Uses(k) = has[k]
          /\ has' = [has EXCEPT ![k] = NoWorker]
          /\ state' = state /\ swept' = swept /\ restart' = restart /\ closed' = closed
      BY <1>10 DEF Drop, Hold, Phases, Uses
    <2>2. \A j \in Joining \ {k} : hand[j] # has[k]
      BY <1>0, <2>1, PoolAssumption DEF Owned, JoiningAreOwn, UsesAreOwn
    <2>3. has'[k] = NoWorker /\ \A j \in Keys \ {k} : has'[j] = has[j]
      BY <2>1 DEF TypeOK
    <2> QED
      BY <1>0, <2>1, <2>2, <2>3, DropOwned DEF ToolPhases
  <1>11. ASSUME NEW k \in Keys, Release(k) PROVE Owned'
    BY <1>0, <1>11, ReleaseOwned
  <1>12. ASSUME NEW k \in Keys, ResetDone(k) \/ ResetFails(k) PROVE Owned'
    BY <1>0, <1>12, ResetOwned
  <1>13. ASSUME NEW k \in Keys, Purge(k) PROVE Owned'
    BY <1>0, <1>13, PurgeOwned
  <1>14. ASSUME NEW k \in Keys, PurgeOne(k) \/ PurgeIsCut(k) PROVE Owned'
    BY <1>0, <1>14, VictimsOwned DEF PurgeOne, PurgeIsCut, poolVars, toolVars, TypeOK
  <1>15. CASE Sweep \/ Shutdown
    BY <1>0, <1>15, SweepOwned
  <1>16. CASE SweepOne
    BY <1>0, <1>16, VictimsOwned DEF SweepOne, poolVars, toolVars
  <1>17. CASE (\E w \in Workers : WorkerDies(w)) \/ UNCHANGED vars
    BY <1>0, <1>17, VictimsOwned DEF WorkerDies, vars, poolVars, toolVars
  <1> QED
    BY <1>2, <1>3, <1>4, <1>5, <1>6, <1>7, <1>8, <1>9, <1>10, <1>11, <1>12, <1>13, <1>14,
       <1>15, <1>16, <1>17 DEF Next

-----------------------------------------------------------------------------
(* The kernels in the pool that are leased, and the stranded ones.         *)

\* What a step has to keep, stated of the state after it.
LEMMA KeptIf ==
  ASSUME Kept,
         \A w \in stranded' : /\ w \in pool' /\ state'[w] = "leased"
                              /\ \A j \in Keys : lease'[j] # w /\ Uses(j)' # w,
         \A w \in pool' \ stranded' : state'[w] = "leased" =>
           \/ \E j \in Keys : Owner(j, w)'
           \/ /\ w \in pool \ stranded /\ state[w] = "leased"
              /\ \A j \in Keys : Owner(j, w) => Owner(j, w)'
  PROVE  Kept'
  <1>1. StrandedHaveNone'
    BY DEF StrandedHaveNone
  <1>2. LeasedHaveOwners'
    BY DEF Kept, LeasedHaveOwners, Owner
  <1> QED
    BY <1>1, <1>2 DEF Kept

\* A step of one tool that grants nothing and neither begins nor ends a reset.
LEMMA ToolKept ==
  ASSUME TypeOK, TypeOK', Kept, NEW k \in Keys, NEW p \in ToolPhases \ {"resetting"},
         tool' = [tool EXCEPT ![k] = p], tool[k] # "resetting",
         pool' = pool, state' = state, lease' = lease, stranded' = stranded,
         \A j \in Keys \ {k} : has'[j] = has[j] /\ hand'[j] = hand[j],
         has'[k] = has[k] \/ has'[k] = NoWorker
  PROVE  Kept'
  <1>1. \A j \in Keys : Uses(j)' = NoWorker \/ Uses(j)' = Uses(j)
    BY DEF Uses, TypeOK
  <1>2. \A j \in Keys : \A w \in pool : Owner(j, w) => Owner(j, w)'
    BY DEF Owner, TypeOK
  <1>3. NoWorker \notin stranded
    BY PoolAssumption DEF TypeOK
  <1> QED
    BY <1>1, <1>2, <1>3, KeptIf DEF Kept, StrandedHaveNone

\* A kernel that is granted to a conversation is not a stranded one; a lease that is
\* overwritten strands its kernel, which nobody else has.
LEMMA GrantKept ==
  ASSUME TypeOK, TypeOK', Phases, Owned, Kept, NEW k \in Keys, NEW w \in Workers, Lease(k, w),
         w \notin stranded, lease[k] # w, has[k] = NoWorker, tool[k] # "resetting",
         w \in pool', pool' \subseteq pool \cup {w}, pool \subseteq pool',
         \A j \in Keys \ {k} : hand'[j] = hand[j]
  PROVE  Kept'
  <1>1. /\ state'[w] = "leased" /\ \A v \in pool \ {w} : state'[v] = state[v]
        /\ lease'[k] = w /\ \A j \in Keys \ {k} : lease'[j] = lease[j]
        /\ tool'[k] = "running" /\ \A j \in Keys \ {k} : tool'[j] = tool[j]
        /\ has'[k] = w /\ \A j \in Keys \ {k} : has'[j] = has[j]
        /\ stranded' = stranded \cup ({lease[k]} \cap pool)
    BY DEF Lease, Hold, ToolAt, TypeOK
  <1>2. Uses(k)' = w /\ \A j \in Keys \ {k} : Uses(j)' = Uses(j)
    BY <1>1 DEF Uses
  <1>3. \A v \in stranded : /\ v \in pool' /\ state'[v] = "leased"
                            /\ \A j \in Keys : lease'[j] # v /\ Uses(j)' # v
    BY <1>1, <1>2 DEF Kept, StrandedHaveNone
  <1>4. lease[k] \in pool => /\ lease[k] \in pool' /\ state'[lease[k]] = "leased"
                             /\ \A j \in Keys : lease'[j] # lease[k] /\ Uses(j)' # lease[k]
    <2> HAVE lease[k] \in pool
    <2>1. /\ lease[k] # NoWorker /\ state[lease[k]] = "leased"
          /\ \A j \in Keys \ {k} : lease[j] # lease[k] /\ Uses(j) # lease[k]
      BY PoolAssumption DEF Owned, LeasesAreOwn, TypeOK
    <2> QED
      BY <1>1, <1>2, <2>1
  <1>5. \A v \in stranded' : /\ v \in pool' /\ state'[v] = "leased"
                             /\ \A j \in Keys : lease'[j] # v /\ Uses(j)' # v
    BY <1>1, <1>3, <1>4
  <1>6. \A v \in pool' \ stranded' : state'[v] = "leased" =>
           \/ \E j \in Keys : Owner(j, v)'
           \/ /\ v \in pool \ stranded /\ state[v] = "leased"
              /\ \A j \in Keys : Owner(j, v) => Owner(j, v)'
    <2> SUFFICES ASSUME NEW v \in pool' \ stranded', state'[v] = "leased", v # w
                 PROVE  /\ v \in pool \ stranded /\ state[v] = "leased"
                        /\ \A j \in Keys : Owner(j, v) => Owner(j, v)'
      BY <1>1 DEF Owner
    <2>1. v \in pool \ stranded /\ state[v] = "leased" /\ lease[k] # v
      BY <1>1
    <2>2. \A j \in Keys \ {k} : Owner(j, v) => Owner(j, v)'
      BY <1>1 DEF Owner
    <2>3. ~Owner(k, v)
      BY <2>1 DEF Owner
    <2> QED
      BY <2>1, <2>2, <2>3
  <1> QED
    BY <1>5, <1>6, KeptIf

\* acquire's first section.
LEMMA AcquireKept ==
  ASSUME TypeOK, TypeOK', Phases, Owned, Kept, NEW k \in Keys, Acquire(k)
  PROVE  Kept'
  <1>0. /\ pool' = pool /\ hand' = hand /\ tool[k] = "waiting" /\ has[k] = NoWorker
    BY DEF Acquire, Phases
  <1>1. CASE lease[k] \in alive
    <2>1. /\ state' = state /\ lease' = lease /\ stranded' = stranded
          /\ has' = [has EXCEPT ![k] = lease[k]] /\ tool' = [tool EXCEPT ![k] = "running"]
      BY <1>1 DEF Acquire, Hold, ToolAt
    <2>2. Uses(k)' = lease[k] /\ \A j \in Keys \ {k} : Uses(j)' = Uses(j)
      BY <2>1, <1>0 DEF Uses, TypeOK
    <2>3. \A j \in Keys : \A w \in pool : Owner(j, w) => Owner(j, w)'
      BY <1>0, <2>1 DEF Owner, TypeOK
    <2> QED
      BY <1>0, <2>1, <2>2, <2>3, KeptIf DEF Kept, StrandedHaveNone
  <1>2. CASE lease[k] \notin alive /\ FindIdleWorker # {}
    <2>1. PICK w \in FindIdleWorker : Lease(k, w)
      BY <1>2 DEF Acquire
    <2>2. w \in Workers /\ w \in pool /\ state[w] = "idle" /\ w \in alive
      BY <2>1 DEF FindIdleWorker, Idle, TypeOK
    <2>3. w \notin stranded /\ lease[k] # w
      BY <1>2, <2>2 DEF Kept, StrandedHaveNone
    <2> QED
      BY <1>0, <2>1, <2>2, <2>3, GrantKept
  <1>3. CASE lease[k] \notin alive /\ FindIdleWorker = {}
    <2>1. /\ state' = state /\ lease' = lease /\ stranded' = stranded /\ has' = has
          /\ tool' = [tool EXCEPT ![k] = "limiting"]
      BY <1>3 DEF Acquire, ToolAt
    <2> QED
      BY <1>0, <2>1, ToolKept DEF ToolPhases
  <1> QED
    BY <1>1, <1>2, <1>3

\* acquire's new kernel: nobody knew it, the stranded neither.
LEMMA SpawnedKept ==
  ASSUME TypeOK, TypeOK', Phases, Owned, Kept, NEW k \in Keys, NEW w \in Workers, Spawned(k, w)
  PROVE  Kept'
  <1>0. /\ pool' = pool \cup {w} /\ tool[k] = "spawning" /\ w \in Unused /\ has[k] = NoWorker
    BY DEF Spawned, Phases
  <1>1. /\ w # NoWorker /\ w \notin pool
        /\ \A j \in Keys : lease[j] # w /\ Uses(j) # w
    BY <1>0, UnusedIsUnclaimed
  <1>2. w \notin stranded
    BY <1>1 DEF Kept, StrandedHaveNone
  <1>3. CASE tool' = [tool EXCEPT ![k] = "running"]
    <2>1. Lease(k, w) /\ hand' = hand
      BY <1>0, <1>3 DEF Spawned, ToolAt, TypeOK
    <2> QED
      BY <1>0, <1>1, <1>2, <2>1, GrantKept
  <1>4. CASE tool' # [tool EXCEPT ![k] = "running"]
    <2>1. /\ tool' = [tool EXCEPT ![k] = "joining"] /\ hand' = [hand EXCEPT ![k] = w]
          /\ state' = [state EXCEPT ![w] = "idle"] /\ lease' = lease /\ has' = has
          /\ stranded' = stranded
      BY <1>4 DEF Spawned, Lease, ToolAt, AtHand
    <2>2. /\ \A j \in Keys : Uses(j)' = Uses(j)
          /\ state'[w] = "idle" /\ \A v \in pool : state'[v] = state[v]
      BY <1>0, <1>1, <2>1 DEF Uses, TypeOK
    <2>3. \A j \in Keys : \A v \in pool : Owner(j, v) => Owner(j, v)'
      BY <1>0, <2>1 DEF Owner, TypeOK
    <2> QED
      BY <1>0, <1>2, <2>1, <2>2, <2>3, KeptIf DEF Kept, StrandedHaveNone
  <1> QED
    BY <1>3, <1>4

\* The kernel that joins was idle.
LEMMA JoinKept ==
  ASSUME TypeOK, TypeOK', Phases, Owned, Kept, NEW k \in Keys, Join(k)
  PROVE  Kept'
  <1>1. /\ k \in Joining /\ hand[k] \in Workers /\ pool' = pool /\ has[k] = NoWorker
        /\ hand[k] \in pool /\ state[hand[k]] = "idle" /\ tool[k] = "joining"
    BY DEF Join, Joining, Phases, Owned, JoiningAreOwn
  <1>2. hand[k] \notin stranded /\ lease[k] # hand[k]
    BY <1>1, PoolAssumption DEF Kept, StrandedHaveNone, Owned, LeasesAreOwn
  <1>3. Lease(k, hand[k]) /\ \A j \in Keys \ {k} : hand'[j] = hand[j]
    BY DEF Join, AtHand, TypeOK
  <1> QED
    BY <1>1, <1>2, <1>3, GrantKept

\* A dropped kernel is not a stranded one, and no other loses its owner.
LEMMA DropKept ==
  ASSUME TypeOK, TypeOK', Kept, NEW k \in Keys, NEW w \in Workers,
         NEW m \in ToolPhases \ {"resetting"}, NEW a \in ToolPhases \ {"resetting"},
         DropWorker(k, w, m, a), w \notin stranded, stranded' = stranded,
         tool[k] = "resetting" => hand[k] = w,
         has'[k] = NoWorker, \A j \in Keys \ {k} : has'[j] = has[j],
         \A v \in pool \ {w} : state'[v] = state[v]
  PROVE  Kept'
  <1>1. /\ pool' = pool \ {w} /\ lease' = Without(w)
        /\ tool' = [tool EXCEPT ![k] = m] \/ tool' = [tool EXCEPT ![k] = a]
        /\ \A j \in Keys \ {k} : hand'[j] = hand[j]
    BY DEF DropWorker, ToolAt, AtHand, TypeOK
  <1>2. \A j \in Keys : lease'[j] = NoWorker \/ lease'[j] = lease[j]
    BY <1>1 DEF Without
  <1>3. \A j \in Keys : Uses(j)' = NoWorker \/ Uses(j)' = Uses(j)
    <2>1. \A j \in Keys \ {k} : tool'[j] = tool[j]
      BY <1>1 DEF TypeOK
    <2>2. tool'[k] # "resetting"
      BY <1>1 DEF TypeOK
    <2> QED
      BY <1>1, <2>1, <2>2 DEF Uses
  <1>4. \A j \in Keys : \A v \in pool \ {w} : Owner(j, v) => Owner(j, v)'
    <2>1. \A j \in Keys : \A v \in pool \ {w} : lease[j] = v => lease'[j] = v
      BY <1>1 DEF Without
    <2>2. \A j \in Keys \ {k} : tool'[j] = tool[j] /\ hand'[j] = hand[j]
      BY <1>1 DEF TypeOK
    <2> QED
      BY <2>1, <2>2 DEF Owner
  <1>5. NoWorker \notin stranded
    BY PoolAssumption DEF TypeOK
  <1> QED
    BY <1>1, <1>2, <1>3, <1>4, <1>5, KeptIf DEF Kept, StrandedHaveNone

\* release: the lease becomes the reset's, or its dead kernel is dropped.
LEMMA ReleaseKept ==
  ASSUME TypeOK, TypeOK', Phases, Owned, Kept, NEW k \in Keys, Release(k)
  PROVE  Kept'
  <1>0. has' = has /\ tool[k] = "closing" /\ has[k] = NoWorker /\ stranded' = stranded
    BY DEF Release, Phases, history
  <1>1. CASE lease[k] = NoWorker
    <2>0. lease[k] \notin alive /\ lease[k] \notin Workers
      BY <1>1, PoolAssumption DEF TypeOK
    <2>1. /\ pool' = pool /\ state' = state /\ lease' = lease /\ hand' = hand
          /\ tool' = [tool EXCEPT ![k] = "out"]
      BY <2>0 DEF Release, ToolAt, poolVars
    <2> QED
      BY <1>0, <2>1, ToolKept DEF ToolPhases
  <1>2. CASE lease[k] \in Workers \cap alive
    <2>1. /\ lease' = [lease EXCEPT ![k] = NoWorker] /\ hand' = [hand EXCEPT ![k] = lease[k]]
          /\ tool' = [tool EXCEPT ![k] = "resetting"] /\ pool' = pool /\ state' = state
      BY <1>2, PoolAssumption DEF Release, ToolAt, AtHand
    <2>2. Uses(k)' = lease[k] /\ \A j \in Keys \ {k} : Uses(j)' = Uses(j)
      BY <1>0, <2>1 DEF Uses, TypeOK
    <2>3. \A j \in Keys : lease'[j] = NoWorker \/ lease'[j] = lease[j]
      BY <2>1 DEF TypeOK
    <2>4. \A j \in Keys : \A w \in pool : Owner(j, w) => Owner(j, w)'
      BY <1>0, <2>1 DEF Owner, TypeOK
    <2>5. NoWorker \notin stranded
      BY PoolAssumption DEF TypeOK
    <2> QED
      BY <1>0, <2>1, <2>2, <2>3, <2>4, <2>5, KeptIf DEF Kept, StrandedHaveNone
  <1>3. CASE lease[k] \in Workers \ alive
    <2>1. /\ state' = [state EXCEPT ![lease[k]] = "idle"]
          /\ DropWorker(k, lease[k], "discarding", "out")
      BY <1>3, PoolAssumption DEF Release
    <2>2. lease[k] \notin stranded
      BY DEF Kept, StrandedHaveNone
    <2>3. \A v \in pool \ {lease[k]} : state'[v] = state[v]
      BY <2>1 DEF TypeOK
    <2> QED
      BY <1>0, <1>3, <2>1, <2>2, <2>3, DropKept DEF ToolPhases
  <1> QED
    BY <1>1, <1>2, <1>3 DEF TypeOK

\* The end of a reset: the kernel is idle, dropped, or stranded when the close was cut off.
LEMMA ResetKept ==
  ASSUME TypeOK, TypeOK', Phases, Owned, Kept, NEW k \in Keys, tool[k] = "resetting",
         ResetDone(k) \/ ResetFails(k) \/ CloseIsCut(k)
  PROVE  Kept'
  <1>0. /\ has' = has /\ has[k] = NoWorker /\ hand[k] \in Workers /\ lease[k] = NoWorker
        /\ Uses(k) = hand[k] /\ hand[k] # NoWorker /\ hand[k] \notin stranded
    BY PoolAssumption DEF ResetDone, ResetFails, CloseIsCut, Phases, Uses, Kept, StrandedHaveNone
  <1>1. CASE DropWorker(k, hand[k], "discarding", "out") /\ (ResetDone(k) \/ ResetFails(k))
    <2>1. stranded' = stranded /\ \A v \in pool \ {hand[k]} : state'[v] = state[v]
      BY <1>1 DEF ResetDone, ResetFails, history, TypeOK
    <2> QED
      BY <1>0, <1>1, <2>1, DropKept DEF ToolPhases
  <1>2. ASSUME pool' = pool, lease' = lease, hand' = [hand EXCEPT ![k] = NoWorker],
               tool' = [tool EXCEPT ![k] = "out"]
        PROVE  /\ Uses(k)' = NoWorker /\ \A j \in Keys \ {k} : Uses(j)' = Uses(j)
               /\ \A j \in Keys : \A w \in pool \ {hand[k]} : Owner(j, w) => Owner(j, w)'
    <2>1. Uses(k)' = NoWorker /\ \A j \in Keys \ {k} : Uses(j)' = Uses(j)
      BY <1>0, <1>2 DEF Uses, TypeOK
    <2>2. \A j \in Keys : \A w \in pool \ {hand[k]} : Owner(j, w) => Owner(j, w)'
      BY <1>2 DEF Owner, TypeOK
    <2> QED
      BY <2>1, <2>2
  <1>3. NoWorker \notin stranded
    BY PoolAssumption DEF TypeOK
  <1>4. CASE ResetDone(k) /\ ~DropWorker(k, hand[k], "discarding", "out")
    <2>1. /\ pool' = pool /\ lease' = lease /\ hand' = [hand EXCEPT ![k] = NoWorker]
          /\ tool' = [tool EXCEPT ![k] = "out"] /\ stranded' = stranded
      BY <1>4 DEF ResetDone, AtHand, ToolAt, history
    <2>2. state'[hand[k]] = "idle" /\ \A v \in pool \ {hand[k]} : state'[v] = state[v]
      BY <1>0, <1>4 DEF ResetDone, TypeOK
    <2> QED
      BY <1>0, <1>2, <1>3, <2>1, <2>2, KeptIf DEF Kept, StrandedHaveNone
  <1>5. CASE CloseIsCut(k)
    <2>1. /\ pool' = pool /\ state' = state /\ lease' = lease
          /\ hand' = [hand EXCEPT ![k] = NoWorker] /\ tool' = [tool EXCEPT ![k] = "out"]
          /\ stranded' = stranded \cup ({hand[k]} \cap pool)
      BY <1>5 DEF CloseIsCut, LosesSlot, AtHand, ToolAt, poolVars
    <2>2. hand[k] \in pool => /\ state[hand[k]] = "leased"
                              /\ \A j \in Keys \ {k} : lease[j] # hand[k] /\ Uses(j) # hand[k]
      BY <1>0 DEF Owned, UsesAreOwn, LeasesAreOwn
    <2>3. hand[k] \in pool => \A j \in Keys : lease'[j] # hand[k] /\ Uses(j)' # hand[k]
      BY <1>0, <1>2, <2>1, <2>2
    <2>4. \A w \in stranded' : /\ w \in pool' /\ state'[w] = "leased"
                               /\ \A j \in Keys : lease'[j] # w /\ Uses(j)' # w
      BY <1>2, <1>3, <2>1, <2>2, <2>3 DEF Kept, StrandedHaveNone
    <2> QED
      BY <1>2, <2>1, <2>4, KeptIf
  <1> QED
    BY <1>1, <1>4, <1>5 DEF ResetFails

\* What restart_kernel and the idle loop take out is idle, or the conversation's own lease;
\* shutdown takes the stranded with the rest.
LEMMA TakenOutKept ==
  ASSUME TypeOK, TypeOK', Kept, (\E k \in Keys : Purge(k)) \/ Sweep \/ Shutdown
  PROVE  Kept'
  <1>1. state' = state /\ tool' = tool /\ has' = has /\ hand' = hand
    BY DEF Purge, Sweep, Shutdown, toolVars
  <1>2. \A j \in Keys : Uses(j)' = Uses(j)
    BY <1>1 DEF Uses
  <1>3. CASE Shutdown
    <2>1. pool' = {} /\ stranded' = {}
      BY <1>3 DEF Shutdown
    <2> QED
      BY <2>1, KeptIf
  <1>4. CASE (\E k \in Keys : Purge(k)) \/ Sweep
    <2>1. /\ stranded' = stranded /\ pool' \subseteq pool /\ stranded \subseteq pool'
          /\ \A j \in Keys : lease'[j] = NoWorker \/ lease'[j] = lease[j]
          /\ \A j \in Keys : \A w \in pool' : lease[j] = w => lease'[j] = w
      <3>1. ASSUME NEW k \in Keys, Purge(k)
            PROVE  /\ stranded' = stranded /\ pool' = pool \ PurgesFor(k)
                   /\ lease' = [lease EXCEPT ![k] = NoWorker]
                   /\ stranded \cap PurgesFor(k) = {} /\ stranded \subseteq pool
                   /\ lease[k] # NoWorker => lease[k] \in PurgesFor(k)
        BY <3>1 DEF Purge, PurgesFor, Idle, Kept, StrandedHaveNone
      <3>2. ASSUME NEW k \in Keys, Purge(k)
            PROVE  \A w \in pool' : lease[k] # w
        BY <3>1, <3>2, PoolAssumption DEF TypeOK
      <3>3. ASSUME NEW k \in Keys, Purge(k)
            PROVE  /\ \A j \in Keys : lease'[j] = NoWorker \/ lease'[j] = lease[j]
                   /\ \A j \in Keys : \A w \in pool' : lease[j] = w => lease'[j] = w
        BY <3>1, <3>2, <3>3 DEF TypeOK
      <3>4. CASE Sweep
        BY <3>4 DEF Sweep, Sweepable, Idle, history, Kept, StrandedHaveNone
      <3> QED
        BY <1>4, <3>1, <3>3, <3>4
    <2>2. \A j \in Keys : \A w \in pool' : Owner(j, w) => Owner(j, w)'
      BY <1>1, <2>1 DEF Owner
    <2>3. NoWorker \notin stranded
      BY PoolAssumption DEF TypeOK
    <2> QED
      BY <1>1, <1>2, <2>1, <2>2, <2>3, KeptIf DEF Kept, StrandedHaveNone
  <1> QED
    BY <1>3, <1>4

\* Every step keeps the owners of the leased kernels and the stranded ones apart.
LEMMA KeptStep ==
  ASSUME TypeOK, TypeOK', Phases, Owned, Kept, [Next]_vars
  PROVE  Kept'
  <1>1. ASSUME pool' = pool, state' = state, lease' = lease, tool' = tool, has' = has,
               hand' = hand, stranded' = stranded
        PROVE  Kept'
    BY <1>1 DEF Kept, LeasedHaveOwners, StrandedHaveNone, Uses
  <1>2. CASE \/ \E w \in Workers : WorkerDies(w)
             \/ \E k \in Keys : PurgeOne(k) \/ PurgeIsCut(k)
             \/ SweepOne \/ UNCHANGED vars
    BY <1>1, <1>2 DEF WorkerDies, PurgeOne, PurgeIsCut, SweepOne, vars, poolVars, toolVars, history
  <1>3. ASSUME NEW k \in Keys,
               Execute(k) \/ TakeSlot(k) \/ AcquireFails(k) \/ SpawnFails(k) \/ CodeReturns(k)
        PROVE  Kept'
    <2>1. PICK p \in ToolPhases \ {"resetting"} : tool' = [tool EXCEPT ![k] = p]
      BY <1>3 DEF Execute, TakeSlot, AcquireFails, SpawnFails, CodeReturns, ToolAt, ToolPhases
    <2>2. /\ tool[k] # "resetting" /\ pool' = pool /\ state' = state /\ lease' = lease
          /\ stranded' = stranded /\ has' = has /\ hand' = hand
      BY <1>3 DEF Execute, TakeSlot, AcquireFails, SpawnFails, CodeReturns, poolVars, history
    <2> QED
      BY <2>1, <2>2, ToolKept
  <1>4. ASSUME NEW k \in Keys, NEW kills \in BOOLEAN, CodeFails(k, kills) PROVE Kept'
    <2>1. /\ tool[k] # "resetting" /\ pool' = pool /\ state' = state /\ lease' = lease
          /\ stranded' = stranded /\ has' = has /\ hand' = hand
          /\ tool' = [tool EXCEPT ![k] = "dropping"] /\ "dropping" \in ToolPhases \ {"resetting"}
      BY <1>4 DEF CodeFails, ToolAt, ToolPhases, poolVars, history
    <2> QED
      BY <2>1, ToolKept
  <1>5. ASSUME NEW k \in Keys, Ended(k) \/ DropIsCut(k) \/ (CloseIsCut(k) /\ tool[k] # "resetting")
        PROVE  Kept'
    <2>1. PICK p \in {"ready", "out"} : tool' = [tool EXCEPT ![k] = p]
      BY <1>5 DEF Ended, DropIsCut, CloseIsCut, ToolAt
    <2>2. /\ hand' = [hand EXCEPT ![k] = NoWorker] /\ has' = has /\ tool[k] # "resetting"
          /\ pool' = pool /\ state' = state /\ lease' = lease /\ stranded' = stranded
      BY <1>5 DEF Ended, DropIsCut, CloseIsCut, LosesSlot, AtHand, poolVars, history
    <2>3. p \in ToolPhases \ {"resetting"} /\ \A j \in Keys \ {k} : hand'[j] = hand[j]
      BY <2>2 DEF ToolPhases, TypeOK
    <2> QED
      BY <2>1, <2>2, <2>3, ToolKept
  <1>6. ASSUME NEW k \in Keys, Close(k) PROVE Kept'
    <2>1. PICK p \in {"closing", "out"} : tool' = [tool EXCEPT ![k] = p]
      BY <1>6 DEF Close, ToolAt
    <2>2. /\ has'[k] = NoWorker /\ \A j \in Keys \ {k} : has'[j] = has[j] /\ hand'[j] = hand[j]
          /\ p \in ToolPhases \ {"resetting"} /\ tool[k] # "resetting"
          /\ pool' = pool /\ state' = state /\ lease' = lease /\ stranded' = stranded
      BY <1>6 DEF Close, Hold, ToolPhases, TypeOK, poolVars, history
    <2> QED
      BY <2>1, <2>2, ToolKept
  <1>7. ASSUME NEW k \in Keys, Unjoin(k) PROVE Kept'
    <2>1. /\ DropWorker(k, hand[k], "unjoining", "ready") /\ hand[k] \in Workers /\ k \in Joining
          /\ has' = has /\ has[k] = NoWorker /\ tool[k] # "resetting"
          /\ state' = state /\ stranded' = stranded
      BY <1>7 DEF Unjoin, Phases, Joining, history
    <2>2. hand[k] \notin stranded
      BY <2>1 DEF Owned, JoiningAreOwn, Kept, StrandedHaveNone
    <2> QED
      BY <2>1, <2>2, DropKept DEF ToolPhases
  <1>8. ASSUME NEW k \in Keys, Drop(k) PROVE Kept'
    <2>1. /\ DropWorker(k, has[k], "ending", "ready") /\ has[k] \in Workers /\ Uses(k) = has[k]
          /\ has' = [has EXCEPT ![k] = NoWorker] /\ tool[k] # "resetting"
          /\ state' = state /\ stranded' = stranded
      BY <1>8 DEF Drop, Hold, Phases, Uses, history
    <2>2. has[k] \notin stranded /\ has'[k] = NoWorker /\ \A j \in Keys \ {k} : has'[j] = has[j]
      BY <2>1 DEF Kept, StrandedHaveNone, TypeOK
    <2> QED
      BY <2>1, <2>2, DropKept DEF ToolPhases
  <1>9. ASSUME NEW k \in Keys,
               ResetDone(k) \/ ResetFails(k) \/ (CloseIsCut(k) /\ tool[k] = "resetting")
        PROVE  Kept'
    <2>1. tool[k] = "resetting"
      BY <1>9 DEF ResetDone, ResetFails
    <2> QED
      BY <1>9, <2>1, ResetKept
  <1> QED
    BY <1>2, <1>3, <1>4, <1>5, <1>6, <1>7, <1>8, <1>9, AcquireKept, SpawnedKept, JoinKept,
       ReleaseKept, TakenOutKept DEF Next

-----------------------------------------------------------------------------
(* The account of the slots.                                               *)

\* Two finite sets that differ in one element at most.
LEMMA OneElement ==
  ASSUME NEW S, IsFiniteSet(S), NEW T, NEW x, T \ {x} = S \ {x}
  PROVE  /\ Cardinality(S) \in Nat /\ Cardinality(T) \in Nat
         /\ x \in S /\ x \notin T => Cardinality(T) = Cardinality(S) - 1
         /\ x \notin S /\ x \in T => Cardinality(T) = Cardinality(S) + 1
         /\ (x \in S <=> x \in T) => Cardinality(T) = Cardinality(S)
  <1>1. CASE x \in S /\ x \notin T
    <2>1. T = S \ {x}
      BY <1>1
    <2> QED
      BY <1>1, <2>1, FS_RemoveElement, FS_CardinalityType
  <1>2. CASE x \notin S /\ x \in T
    <2>1. T = S \cup {x}
      BY <1>2
    <2> QED
      BY <1>2, <2>1, FS_AddElement, FS_CardinalityType
  <1>3. CASE x \in S <=> x \in T
    <2>1. T = S
      BY <1>3
    <2> QED
      BY <1>3, <2>1, FS_CardinalityType
  <1> QED
    BY <1>1, <1>2, <1>3

\* What is counted is a number.
LEMMA Counts ==
  ASSUME TypeOK
  PROVE  /\ IsFiniteSet(pool) /\ IsFiniteSet(swept) /\ IsFiniteSet(Starting)
         /\ IsFiniteSet(Owing) /\ IsFiniteSet(Victims) /\ \A k \in Keys : IsFiniteSet(restart[k])
         /\ Cardinality(pool) \in Nat /\ Cardinality(swept) \in Nat
         /\ Cardinality(Starting) \in Nat /\ Cardinality(Owing) \in Nat
         /\ Cardinality(Victims) \in Nat /\ \A k \in Keys : Cardinality(restart[k]) \in Nat
         /\ slots \in Nat /\ lost \in Nat
  <1>1. /\ pool \in SUBSET Workers /\ swept \in SUBSET Workers
        /\ \A k \in Keys : restart[k] \in SUBSET Workers
    BY DEF TypeOK
  <1>2. /\ Starting \in SUBSET Keys /\ Owing \in SUBSET Keys
        /\ Victims \in SUBSET (Keys \X Workers)
    BY DEF Starting, Owing, Victims
  <1> QED
    BY <1>1, <1>2, Finite DEF TypeOK

\* The tools of the others decide as before whether they start a kernel or owe a slot.
LEMMA OneTool ==
  ASSUME TypeOK, NEW k \in Keys, \A j \in Keys \ {k} : tool'[j] = tool[j] /\ owed'[j] = owed[j]
  PROVE  /\ Starting' \ {k} = Starting \ {k} /\ Owing' \ {k} = Owing \ {k}
         /\ k \in Starting <=> tool[k] = "spawning"
         /\ k \in Starting' <=> tool'[k] = "spawning"
         /\ k \in Owing <=> owed[k]
         /\ k \in Owing' <=> owed'[k]
  BY DEF Starting, Owing

\* How the tool of one conversation changes the numbers of its slots.
LEMMA ToolCounts ==
  ASSUME TypeOK, NEW k \in Keys, \A j \in Keys \ {k} : tool'[j] = tool[j] /\ owed'[j] = owed[j]
  PROVE  /\ Cardinality(Starting') \in Nat /\ Cardinality(Owing') \in Nat
         /\ tool[k] = "spawning" /\ tool'[k] # "spawning" =>
              Cardinality(Starting') = Cardinality(Starting) - 1
         /\ tool[k] # "spawning" /\ tool'[k] = "spawning" =>
              Cardinality(Starting') = Cardinality(Starting) + 1
         /\ (tool[k] = "spawning" <=> tool'[k] = "spawning") =>
              Cardinality(Starting') = Cardinality(Starting)
         /\ owed[k] /\ ~owed'[k] => Cardinality(Owing') = Cardinality(Owing) - 1
         /\ ~owed[k] /\ owed'[k] => Cardinality(Owing') = Cardinality(Owing) + 1
         /\ (owed[k] <=> owed'[k]) => Cardinality(Owing') = Cardinality(Owing)
  <1>1. /\ Starting' \ {k} = Starting \ {k} /\ Owing' \ {k} = Owing \ {k}
        /\ k \in Starting <=> tool[k] = "spawning"
        /\ k \in Starting' <=> tool'[k] = "spawning"
        /\ k \in Owing <=> owed[k]
        /\ k \in Owing' <=> owed'[k]
    BY OneTool, Zenon
  <1>2. IsFiniteSet(Starting) /\ IsFiniteSet(Owing)
    BY Counts
  <1>3. /\ Cardinality(Starting') \in Nat
        /\ k \in Starting /\ k \notin Starting' => Cardinality(Starting') = Cardinality(Starting) - 1
        /\ k \notin Starting /\ k \in Starting' => Cardinality(Starting') = Cardinality(Starting) + 1
        /\ (k \in Starting <=> k \in Starting') => Cardinality(Starting') = Cardinality(Starting)
    BY <1>1, <1>2, OneElement
  <1>4. /\ Cardinality(Owing') \in Nat
        /\ k \in Owing /\ k \notin Owing' => Cardinality(Owing') = Cardinality(Owing) - 1
        /\ k \notin Owing /\ k \in Owing' => Cardinality(Owing') = Cardinality(Owing) + 1
        /\ (k \in Owing <=> k \in Owing') => Cardinality(Owing') = Cardinality(Owing)
    BY <1>1, <1>2, OneElement
  <1> QED
    BY <1>1, <1>3, <1>4

\* Victims of one conversation come and go with its restart set.
LEMMA VictimsCount ==
  ASSUME TypeOK, TypeOK', NEW k \in Keys, \A j \in Keys \ {k} : restart'[j] = restart[j]
  PROVE  Cardinality(Victims') + Cardinality(restart[k])
           = Cardinality(Victims) + Cardinality(restart'[k])
  <1> DEFINE Of(S) == {k} \X S
             Rest == {v \in Victims : v[1] # k}
  <1>1. ASSUME NEW S \in SUBSET Workers
        PROVE  IsFiniteSet(Of(S)) /\ Cardinality(Of(S)) = Cardinality(S)
    <2>1. IsFiniteSet({k}) /\ Cardinality({k}) = 1
      BY FS_Singleton
    <2>2. IsFiniteSet(S) /\ Cardinality(S) \in Nat
      BY Finite
    <2>3. IsFiniteSet(Of(S)) /\ Cardinality(Of(S)) = 1 * Cardinality(S)
      BY <2>1, <2>2, FS_Product
    <2> QED
      BY <2>2, <2>3
  <1>2. restart[k] \in SUBSET Workers /\ restart'[k] \in SUBSET Workers
    BY DEF TypeOK
  <1>3. /\ Victims = Rest \cup Of(restart[k]) /\ Rest \cap Of(restart[k]) = {}
        /\ Victims' = Rest \cup Of(restart'[k]) /\ Rest \cap Of(restart'[k]) = {}
    BY <1>2 DEF Victims
  <1>4. IsFiniteSet(Rest) /\ Cardinality(Rest) \in Nat
    BY Finite DEF Victims
  <1>6. Cardinality(restart[k]) \in Nat /\ Cardinality(restart'[k]) \in Nat
    BY <1>2, Finite
  <1>5. /\ Cardinality(Victims) = Cardinality(Rest) + Cardinality(restart[k])
        /\ Cardinality(Victims') = Cardinality(Rest) + Cardinality(restart'[k])
    <2>1. ASSUME NEW S \in SUBSET Workers, Rest \cap Of(S) = {}
          PROVE  Cardinality(Rest \cup Of(S)) = Cardinality(Rest) + Cardinality(S)
      <3>1. /\ IsFiniteSet(Of(S)) /\ Cardinality(Of(S)) = Cardinality(S) /\ Cardinality(S) \in Nat
            /\ Cardinality(Rest \cap Of(S)) = 0
        BY <1>1, <2>1, Finite, FS_EmptySet
      <3>2. Cardinality(Rest \cup Of(S))
              = Cardinality(Rest) + Cardinality(Of(S)) - Cardinality(Rest \cap Of(S))
        BY <1>4, <3>1, FS_Union
      <3> QED
        BY <1>4, <3>1, <3>2
    <2> QED
      BY <1>2, <1>3, <2>1
  <1> QED
    BY <1>4, <1>5, <1>6

\* Dropping a kernel moves its slot, if the conversation owes it, to the conversation or back.
LEMMA DropSlots ==
  ASSUME TypeOK, TypeOK', NEW k \in Keys, NEW w \in Workers,
         NEW m \in ToolPhases \ {"spawning"}, NEW a \in ToolPhases \ {"spawning"},
         DropWorker(k, w, m, a), ~owed[k], tool[k] # "spawning",
         swept' = swept, restart' = restart, lost' = lost
  PROVE  slots' + Outstanding' + lost' = slots + Outstanding + lost
  <1>1. pool' = pool \ {w} /\ \A j \in Keys \ {k} : tool'[j] = tool[j] /\ owed'[j] = owed[j]
    BY DEF DropWorker, ToolAt, TypeOK
  <1>2. tool'[k] # "spawning"
    BY DEF DropWorker, ToolAt, TypeOK
  <1>3. Cardinality(Starting') = Cardinality(Starting)
    BY <1>1, <1>2, ToolCounts
  <1>4. Cardinality(Victims') = Cardinality(Victims) /\ Cardinality(swept') = Cardinality(swept)
    BY DEF Victims
  <1>5. Cardinality(pool') = IF w \in pool THEN Cardinality(pool) - 1 ELSE Cardinality(pool)
    BY <1>1, Counts, FS_RemoveElement
  <1>6. CASE w \in alive
    <2>1. owed' = [owed EXCEPT ![k] = OwedFor(w)] /\ slots' = slots
      BY <1>6 DEF DropWorker
    <2>2. owed'[k] <=> w \in pool
      BY <2>1, Zenon DEF OwedFor, TypeOK
    <2>3. Cardinality(Owing') = IF w \in pool THEN Cardinality(Owing) + 1 ELSE Cardinality(Owing)
      BY <1>1, <2>2, ToolCounts
    <2> QED
      BY <1>3, <1>4, <1>5, <2>1, <2>3, Counts DEF Outstanding
  <1>7. CASE w \notin alive
    <2>1. owed' = owed /\ slots' = IF w \in pool THEN slots + 1 ELSE slots
      BY <1>7 DEF DropWorker, OwedFor
    <2>2. Cardinality(Owing') = Cardinality(Owing)
      BY <2>1 DEF Owing
    <2> QED
      BY <1>3, <1>4, <1>5, <2>1, <2>2, Counts DEF Outstanding
  <1> QED
    BY <1>6, <1>7

\* A conversation that settles what it owes returns the slot or loses it.
LEMMA SettleSlots ==
  ASSUME TypeOK, TypeOK', NEW k \in Keys, owed' = [owed EXCEPT ![k] = FALSE],
         \A j \in Keys \ {k} : tool'[j] = tool[j], tool[k] # "spawning", tool'[k] # "spawning",
         pool' = pool, swept' = swept, restart' = restart,
         slots' + lost' = IF owed[k] THEN slots + lost + 1 ELSE slots + lost
  PROVE  slots' + Outstanding' + lost' = slots + Outstanding + lost
  <1>1. /\ \A j \in Keys \ {k} : tool'[j] = tool[j] /\ owed'[j] = owed[j]
        /\ ~owed'[k]
    BY DEF TypeOK
  <1>2. Cardinality(Starting') = Cardinality(Starting)
    BY <1>1, ToolCounts
  <1>3. Cardinality(Owing') = IF owed[k] THEN Cardinality(Owing) - 1 ELSE Cardinality(Owing)
    BY <1>1, ToolCounts
  <1>4. Cardinality(Victims') = Cardinality(Victims)
    BY DEF Victims
  <1>5. slots' \in Nat /\ lost' \in Nat
    BY DEF TypeOK
  <1> QED
    BY <1>2, <1>3, <1>4, <1>5, Counts DEF Outstanding

\* A conversation that starts a kernel, or stops doing so, takes a slot or returns it, unless
\* the kernel joins the pool.
LEMMA StartSlots ==
  ASSUME TypeOK, TypeOK', NEW k \in Keys, owed' = owed, swept' = swept, restart' = restart,
         lost' = lost, \A j \in Keys \ {k} : tool'[j] = tool[j],
         LET before == IF tool[k] = "spawning" THEN 1 ELSE 0
             after == IF tool'[k] = "spawning" THEN 1 ELSE 0
         IN slots' + Cardinality(pool') + after = slots + Cardinality(pool) + before
  PROVE  slots' + Outstanding' + lost' = slots + Outstanding + lost
  <1>1. \A j \in Keys \ {k} : tool'[j] = tool[j] /\ owed'[j] = owed[j]
    OBVIOUS
  <1>2. /\ tool[k] = "spawning" /\ tool'[k] # "spawning" =>
             Cardinality(Starting') = Cardinality(Starting) - 1
        /\ tool[k] # "spawning" /\ tool'[k] = "spawning" =>
             Cardinality(Starting') = Cardinality(Starting) + 1
        /\ (tool[k] = "spawning" <=> tool'[k] = "spawning") =>
             Cardinality(Starting') = Cardinality(Starting)
        /\ Cardinality(Starting') \in Nat
    BY <1>1, ToolCounts
  <1>3. Cardinality(Owing') = Cardinality(Owing) /\ Cardinality(Victims') = Cardinality(Victims)
    BY DEF Owing, Victims
  <1>4. slots' \in Nat /\ Cardinality(pool') \in Nat
    <2>1. pool' \in SUBSET Workers
      BY DEF TypeOK
    <2> QED
      BY <2>1, Finite DEF TypeOK
  <1> QED
    BY <1>2, <1>3, <1>4, Counts DEF Outstanding

\* A conversation of the lock's that takes victims, ends one or gives them up.
LEMMA RestartSlots ==
  ASSUME TypeOK, TypeOK', NEW k \in Keys, tool' = tool, owed' = owed, swept' = swept,
         \A j \in Keys \ {k} : restart'[j] = restart[j],
         slots' + lost' + Cardinality(pool') + Cardinality(restart'[k])
           = slots + lost + Cardinality(pool) + Cardinality(restart[k])
  PROVE  slots' + Outstanding' + lost' = slots + Outstanding + lost
  <1>1. Cardinality(Victims') + Cardinality(restart[k])
          = Cardinality(Victims) + Cardinality(restart'[k])
    BY VictimsCount
  <1>2. Starting' = Starting /\ Owing' = Owing
    BY DEF Starting, Owing
  <1>3. /\ slots' \in Nat /\ lost' \in Nat
        /\ pool' \in SUBSET Workers /\ restart'[k] \in SUBSET Workers
        /\ Victims' \in SUBSET (Keys \X Workers)
    BY DEF TypeOK, Victims
  <1>4. /\ Cardinality(pool') \in Nat /\ Cardinality(restart'[k]) \in Nat
        /\ Cardinality(Victims') \in Nat
    BY <1>3, Finite
  <1>5. /\ Cardinality(restart[k]) \in Nat /\ Cardinality(pool) \in Nat
        /\ Cardinality(Victims) \in Nat /\ slots \in Nat /\ lost \in Nat
        /\ Cardinality(swept) \in Nat /\ Cardinality(Starting) \in Nat
        /\ Cardinality(Owing) \in Nat
    BY Counts
  <1>6. slots' + lost' + Cardinality(pool') + Cardinality(Victims')
          = slots + lost + Cardinality(pool) + Cardinality(Victims)
    BY <1>1, <1>3, <1>4, <1>5
  <1>7. /\ Cardinality(swept') = Cardinality(swept)
        /\ Cardinality(Starting') = Cardinality(Starting)
        /\ Cardinality(Owing') = Cardinality(Owing)
    BY <1>2
  <1>8. /\ Outstanding' = Cardinality(pool') + Cardinality(swept) + Cardinality(Starting)
                            + Cardinality(Owing) + Cardinality(Victims')
        /\ Outstanding = Cardinality(pool) + Cardinality(swept) + Cardinality(Starting)
                           + Cardinality(Owing) + Cardinality(Victims)
    BY <1>7 DEF Outstanding
  <1>9. slots' \in Nat /\ lost' \in Nat
    BY <1>3
  <1> QED
    BY <1>4, <1>5, <1>6, <1>8, <1>9

\* The idle loop and shutdown.
LEMMA SweptSlots ==
  ASSUME TypeOK, TypeOK', tool' = tool, owed' = owed, restart' = restart,
         slots' + lost' + Cardinality(pool') + Cardinality(swept')
           = slots + lost + Cardinality(pool) + Cardinality(swept)
  PROVE  slots' + Outstanding' + lost' = slots + Outstanding + lost
  <1>1. Starting' = Starting /\ Owing' = Owing /\ Victims' = Victims
    BY DEF Starting, Owing, Victims
  <1>2. /\ slots' \in Nat /\ lost' \in Nat
        /\ pool' \in SUBSET Workers /\ swept' \in SUBSET Workers
    BY DEF TypeOK
  <1>3. Cardinality(pool') \in Nat /\ Cardinality(swept') \in Nat
    BY <1>2, Finite
  <1> QED
    BY <1>1, <1>2, <1>3, Counts DEF Outstanding

\* Every step that takes no kernel from the call that starts it balances the account.
LEMMA SlotsStep ==
  ASSUME TypeOK, TypeOK', Phases, LeaseLockIsHeld, Owned, [Next]_vars
  PROVE  slots' + Outstanding' + lost' = slots + Outstanding + lost
  <1> DEFINE Balanced == slots' + Outstanding' + lost' = slots + Outstanding + lost
  <1> SUFFICES Balanced
    OBVIOUS
  <1> USE DEF toolVars, poolVars, history, ToolAt, AtHand, Hold, Unlocked, Locked, Served,
              Lease, LosesSlot, ToolPhases
  <1>0. Cardinality(pool) \in Nat /\ slots \in Nat /\ lost \in Nat
    BY Counts
  <1>1. ASSUME NEW k \in Keys, tool[k] # "spawning", tool'[k] # "spawning",
               \A j \in Keys \ {k} : tool'[j] = tool[j],
               slots' = slots, pool' = pool, owed' = owed, swept' = swept, restart' = restart,
               lost' = lost
        PROVE  Balanced
    BY <1>0, <1>1, StartSlots
  <1>2. ASSUME NEW k \in Keys, Execute(k) \/ AcquireFails(k) \/ CodeReturns(k) \/ Close(k)
        PROVE  Balanced
    <2>1. /\ tool[k] # "spawning" /\ tool'[k] # "spawning"
          /\ \A j \in Keys \ {k} : tool'[j] = tool[j]
      BY <1>2 DEF Execute, AcquireFails, CodeReturns, Close, TypeOK
    <2>2. /\ slots' = slots /\ pool' = pool /\ owed' = owed /\ swept' = swept
          /\ restart' = restart /\ lost' = lost
      BY <1>2 DEF Execute, AcquireFails, CodeReturns, Close
    <2> QED
      BY <1>1, <2>1, <2>2
  <1>3. ASSUME NEW k \in Keys, NEW kills \in BOOLEAN, CodeFails(k, kills) PROVE Balanced
    BY <1>1, <1>3 DEF CodeFails, TypeOK
  <1>4. ASSUME NEW k \in Keys, Acquire(k) PROVE Balanced
    <2>1. /\ tool[k] # "spawning" /\ tool'[k] # "spawning"
          /\ \A j \in Keys \ {k} : tool'[j] = tool[j]
      BY <1>4 DEF Acquire, TypeOK
    <2> QED
      BY <1>1, <1>4, <2>1 DEF Acquire
  <1>5. ASSUME NEW k \in Keys, TakeSlot(k) \/ SpawnFails(k) PROVE Balanced
    <2>1. /\ \A j \in Keys \ {k} : tool'[j] = tool[j]
          /\ \/ tool[k] # "spawning" /\ tool'[k] = "spawning" /\ slots' = slots - 1
             \/ tool[k] = "spawning" /\ tool'[k] # "spawning" /\ slots' = slots + 1
      BY <1>5 DEF TakeSlot, SpawnFails, TypeOK
    <2>2. /\ pool' = pool /\ owed' = owed /\ swept' = swept /\ restart' = restart /\ lost' = lost
      BY <1>5 DEF TakeSlot, SpawnFails
    <2> QED
      BY <1>0, <2>1, <2>2, StartSlots
  <1>6. ASSUME NEW k \in Keys, NEW w \in Workers, Spawned(k, w) PROVE Balanced
    <2>1. /\ tool[k] = "spawning" /\ tool'[k] # "spawning"
          /\ \A j \in Keys \ {k} : tool'[j] = tool[j]
      BY <1>6 DEF Spawned, TypeOK
    <2>2. pool' = pool \cup {w} /\ w \notin pool /\ slots' = slots
      BY <1>6 DEF Spawned, Unused
    <2>3. Cardinality(pool') = Cardinality(pool) + 1
      BY <2>2, Counts, FS_AddElement
    <2>4. owed' = owed /\ swept' = swept /\ restart' = restart /\ lost' = lost
      BY <1>6 DEF Spawned
    <2> QED
      BY <1>0, <2>1, <2>2, <2>3, <2>4, StartSlots
  <1>7. ASSUME NEW k \in Keys, Join(k) PROVE Balanced
    BY <1>1, <1>7 DEF Join, TypeOK
  <1>8. ASSUME NEW k \in Keys, NEW w \in Workers,
               NEW m \in {"unjoining", "ending", "discarding"}, NEW a \in {"ready", "out"},
               DropWorker(k, w, m, a), tool[k] \in {"joining", "dropping", "closing", "resetting"},
               swept' = swept, restart' = restart, lost' = lost
        PROVE  Balanced
    <2>1. ~owed[k] /\ tool[k] # "spawning"
      BY <1>8 DEF Phases
    <2> QED
      BY <1>8, <2>1, DropSlots
  <1>9. ASSUME NEW k \in Keys, Unjoin(k) PROVE Balanced
    <2>1. hand[k] \in Workers
      BY <1>9 DEF Unjoin, Phases
    <2> QED
      BY <1>8, <1>9, <2>1 DEF Unjoin
  <1>10. ASSUME NEW k \in Keys, Drop(k) PROVE Balanced
    <2>1. has[k] \in Workers
      BY <1>10 DEF Drop, Phases
    <2> QED
      BY <1>8, <1>10, <2>1 DEF Drop
  <1>11. ASSUME NEW k \in Keys, Ended(k) \/ DropIsCut(k) \/ CloseIsCut(k) PROVE Balanced
    <2>1. /\ owed' = [owed EXCEPT ![k] = FALSE] /\ pool' = pool /\ swept' = swept
          /\ restart' = restart /\ tool[k] # "spawning"
      BY <1>11 DEF Ended, DropIsCut, CloseIsCut
    <2>2. tool'[k] # "spawning" /\ \A j \in Keys \ {k} : tool'[j] = tool[j]
      BY <1>11 DEF Ended, DropIsCut, CloseIsCut, TypeOK
    <2>3. slots' + lost' = IF owed[k] THEN slots + lost + 1 ELSE slots + lost
      <3>1. CASE Ended(k)
        BY <1>0, <3>1 DEF Ended
      <3>2. CASE DropIsCut(k) \/ CloseIsCut(k)
        BY <1>0, <3>2 DEF DropIsCut, CloseIsCut
      <3> QED
        BY <1>11, <3>1, <3>2
    <2> QED
      BY <2>1, <2>2, <2>3, SettleSlots
  <1>12. ASSUME NEW k \in Keys, Release(k) PROVE Balanced
    <2>1. CASE lease[k] \in Workers \ alive
      <3>1. DropWorker(k, lease[k], "discarding", "out")
        BY <1>12, <2>1, PoolAssumption DEF Release
      <3> QED
        BY <1>8, <1>12, <2>1, <3>1 DEF Release
    <2>2. CASE lease[k] \notin Workers \ alive
      <3>1. /\ tool[k] # "spawning" /\ tool'[k] # "spawning"
            /\ \A j \in Keys \ {k} : tool'[j] = tool[j]
        BY <1>12, <2>2 DEF Release, TypeOK
      <3> QED
        BY <1>1, <1>12, <2>2, <3>1 DEF Release
    <2> QED
      BY <2>1, <2>2
  <1>13. ASSUME NEW k \in Keys, ResetDone(k) \/ ResetFails(k) PROVE Balanced
    <2>1. hand[k] \in Workers /\ tool[k] = "resetting"
      BY <1>13 DEF ResetDone, ResetFails, Phases
    <2>2. CASE DropWorker(k, hand[k], "discarding", "out")
      BY <1>8, <1>13, <2>1, <2>2 DEF ResetDone, ResetFails
    <2>3. CASE ResetDone(k) /\ ~DropWorker(k, hand[k], "discarding", "out")
      <3>1. tool'[k] # "spawning" /\ \A j \in Keys \ {k} : tool'[j] = tool[j]
        BY <2>3 DEF ResetDone, TypeOK
      <3> QED
        BY <1>1, <2>1, <2>3, <3>1 DEF ResetDone
    <2> QED
      BY <1>13, <2>2, <2>3 DEF ResetFails
  <1>14. ASSUME NEW k \in Keys, Purge(k) PROVE Balanced
    <2>1. /\ restart[k] = {} /\ restart'[k] = PurgesFor(k)
          /\ \A j \in Keys \ {k} : restart'[j] = restart[j]
          /\ pool' = pool \ PurgesFor(k) /\ PurgesFor(k) \subseteq pool
      BY <1>14 DEF Purge, PurgesFor, Idle, Owned, LeasesAreOwn, TypeOK
    <2>2. /\ Cardinality(pool') = Cardinality(pool) - Cardinality(PurgesFor(k))
          /\ Cardinality(PurgesFor(k)) \in Nat /\ Cardinality(restart[k]) = 0
      <3>1. pool \cap PurgesFor(k) = PurgesFor(k) /\ PurgesFor(k) \in SUBSET Workers
        BY <2>1 DEF TypeOK
      <3>2. IsFiniteSet(pool) /\ Cardinality(PurgesFor(k)) \in Nat
        BY <3>1, Counts, Finite
      <3>3. Cardinality(pool \ PurgesFor(k)) = Cardinality(pool) - Cardinality(pool \cap PurgesFor(k))
        BY <3>2, FS_Difference
      <3> QED
        BY <2>1, <3>1, <3>2, <3>3, FS_EmptySet
    <2>3. slots' = slots /\ lost' = lost /\ tool' = tool /\ owed' = owed /\ swept' = swept
      BY <1>14 DEF Purge
    <2>4. slots' + lost' + Cardinality(pool') + Cardinality(restart'[k])
            = slots + lost + Cardinality(pool) + Cardinality(restart[k])
      BY <1>0, <2>1, <2>2, <2>3
    <2> QED
      BY <2>1, <2>3, <2>4, RestartSlots
  <1>15. ASSUME NEW k \in Keys, PurgeOne(k) PROVE Balanced
    <2>1. PICK w \in restart[k] : /\ slots' = slots + 1
                                  /\ restart' = [restart EXCEPT ![k] = @ \ {w}]
      BY <1>15 DEF PurgeOne
    <2>2. restart'[k] = restart[k] \ {w} /\ \A j \in Keys \ {k} : restart'[j] = restart[j]
      BY <2>1 DEF TypeOK
    <2>3. Cardinality(restart'[k]) = Cardinality(restart[k]) - 1 /\ Cardinality(restart[k]) \in Nat
      <3>1. IsFiniteSet(restart[k]) /\ Cardinality(restart[k]) \in Nat
        BY Counts
      <3>2. Cardinality(restart[k] \ {w}) = Cardinality(restart[k]) - 1
        BY <2>1, <3>1, FS_RemoveElement
      <3> QED
        BY <2>2, <3>1, <3>2
    <2>4. pool' = pool /\ lost' = lost /\ tool' = tool /\ owed' = owed /\ swept' = swept
      BY <1>15 DEF PurgeOne
    <2>5. slots' + lost' + Cardinality(pool') + Cardinality(restart'[k])
            = slots + lost + Cardinality(pool) + Cardinality(restart[k])
      BY <1>0, <2>1, <2>3, <2>4
    <2> QED
      BY <2>2, <2>4, <2>5, RestartSlots
  <1>16. ASSUME NEW k \in Keys, PurgeIsCut(k) PROVE Balanced
    <2>1. restart'[k] = {} /\ \A j \in Keys \ {k} : restart'[j] = restart[j]
      BY <1>16 DEF PurgeIsCut, TypeOK
    <2>2. Cardinality(restart'[k]) = 0 /\ Cardinality(restart[k]) \in Nat
      BY <2>1, Counts, FS_EmptySet
    <2>3. /\ pool' = pool /\ tool' = tool /\ owed' = owed /\ swept' = swept /\ slots' = slots
          /\ lost' = lost + Cardinality(restart[k])
      BY <1>16 DEF PurgeIsCut
    <2>4. slots' + lost' + Cardinality(pool') + Cardinality(restart'[k])
            = slots + lost + Cardinality(pool) + Cardinality(restart[k])
      BY <1>0, <2>2, <2>3
    <2> QED
      BY <2>1, <2>3, <2>4, RestartSlots
  <1>17. CASE Sweep
    <2>1. /\ swept = {} /\ swept' \subseteq pool /\ pool' = pool \ swept'
          /\ slots' = slots /\ lost' = lost /\ tool' = tool /\ owed' = owed /\ restart' = restart
      BY <1>17 DEF Sweep, Sweepable, Idle
    <2>2. /\ Cardinality(pool') = Cardinality(pool) - Cardinality(swept')
          /\ Cardinality(swept') \in Nat /\ Cardinality(swept) = 0
      <3>1. pool \cap swept' = swept' /\ swept' \in SUBSET Workers
        BY <2>1 DEF TypeOK
      <3>2. IsFiniteSet(pool) /\ Cardinality(swept') \in Nat
        BY <3>1, Counts, Finite
      <3>3. Cardinality(pool \ swept') = Cardinality(pool) - Cardinality(pool \cap swept')
        BY <3>2, FS_Difference
      <3> QED
        BY <2>1, <3>1, <3>2, <3>3, FS_EmptySet
    <2> QED
      BY <1>0, <2>1, <2>2, SweptSlots
  <1>18. CASE Shutdown
    <2>1. /\ swept' = pool /\ pool' = {} /\ lost' = lost + Cardinality(swept)
          /\ slots' = slots /\ tool' = tool /\ owed' = owed /\ restart' = restart
      BY <1>18 DEF Shutdown
    <2>2. Cardinality(pool') = 0 /\ Cardinality(swept) \in Nat
      BY <2>1, Counts, FS_EmptySet
    <2> QED
      BY <1>0, <2>1, <2>2, SweptSlots
  <1>19. CASE SweepOne
    <2>1. PICK w \in swept : slots' = slots + 1 /\ swept' = swept \ {w}
      BY <1>19 DEF SweepOne
    <2>2. Cardinality(swept') = Cardinality(swept) - 1 /\ Cardinality(swept) \in Nat
      BY <2>1, Counts, FS_RemoveElement
    <2>3. pool' = pool /\ lost' = lost /\ tool' = tool /\ owed' = owed /\ restart' = restart
      BY <1>19 DEF SweepOne
    <2> QED
      BY <1>0, <2>1, <2>2, <2>3, SweptSlots
  <1>20. CASE (\E w \in Workers : WorkerDies(w)) \/ UNCHANGED vars
    <2>1. /\ slots' = slots /\ lost' = lost /\ pool' = pool /\ swept' = swept /\ tool' = tool
          /\ owed' = owed /\ restart' = restart
      BY <1>20 DEF WorkerDies, vars
    <2> QED
      BY <1>0, <2>1, SweptSlots
  <1> QED
    BY <1>2, <1>3, <1>4, <1>5, <1>6, <1>7, <1>9, <1>10, <1>11, <1>12, <1>13, <1>14, <1>15,
       <1>16, <1>17, <1>18, <1>19, <1>20 DEF Next

-----------------------------------------------------------------------------
(* The theorems.                                                           *)

\* The invariant holds when the actor starts.
LEMMA InitInv == Init => IInv
  <1> SUFFICES ASSUME Init PROVE IInv
    OBVIOUS
  <1>1. TypeOK
    BY PoolAssumption DEF Init, TypeOK, ToolPhases
  <1>2. Phases /\ LeaseLockIsHeld
    BY PoolAssumption DEF Init, Phases, LeaseLockIsHeld, InsideLock
  <1>3. Owned
    BY DEF Init, Owned, LeasesAreOwn, UsesAreOwn, JoiningAreOwn, VictimsAreOut, Uses, Joining
  <1>4. SlotsAccounted
    <2>1. pool = {} /\ swept = {} /\ Starting = {} /\ Owing = {} /\ Victims = {}
      BY DEF Init, Starting, Owing, Victims
    <2> QED
      BY <2>1, FS_EmptySet, PoolAssumption
         DEF Init, SlotsAccounted, Outstanding, LeasedHaveOwners, StrandedHaveNone
  <1> QED
    BY <1>1, <1>2, <1>3, <1>4 DEF IInv

\* Every step keeps the invariant.
LEMMA StepInv == IInv /\ [Next]_vars => IInv'
  <1> SUFFICES ASSUME IInv, [Next]_vars PROVE IInv'
    OBVIOUS
  <1>1. TypeOK' /\ Phases' /\ LeaseLockIsHeld' /\ (taken' \/ Owned')
    BY TypeStep, PhasesStep, OwnedStep DEF IInv
  <1>2. taken => taken'
    BY DEF IInv, Next, vars, history, WorkerDies, Execute, Acquire, TakeSlot, AcquireFails,
           SpawnFails, Spawned, Join, Unjoin, CodeReturns, CodeFails, Drop, Ended, DropIsCut,
           Close, Release, ResetDone, ResetFails, CloseIsCut, Purge, PurgeOne, PurgeIsCut,
           Sweep, Shutdown, SweepOne
  <1>3. ASSUME ~taken' PROVE slots' + Outstanding' + lost' = MaxWorkers /\ Kept'
    <2>1. Owned /\ slots + Outstanding + lost = MaxWorkers /\ Kept
      BY <1>2, <1>3 DEF IInv, SlotsAccounted, Kept
    <2> QED
      BY <1>1, <2>1, SlotsStep, KeptStep DEF IInv
  <1> QED
    BY <1>1, <1>3 DEF IInv, SlotsAccounted, Kept

\* The inductive invariant: types, phases, lease locks, claims and the account of the slots.
THEOREM KernelPoolInvariant == Spec => []IInv
  BY InitInv, StepInv, PTL DEF Spec

\* Every variable of the pool keeps its type.
THEOREM KernelPoolTypes == Spec => []TypeOK
  <1>1. IInv => TypeOK
    BY DEF IInv
  <1> QED
    BY <1>1, KernelPoolInvariant, PTL

\* A lease lock is held exactly while an operation that takes it is suspended inside, and
\* never by the tool and a restart of one conversation at once (KernelPool._lease_locks).
THEOREM LeaseLocksAreHeld == Spec => []LeaseLockIsHeld
  <1>1. IInv => LeaseLockIsHeld
    BY DEF IInv
  <1> QED
    BY <1>1, KernelPoolInvariant, PTL

\* No path through the pool returns a slot of the limiter twice; every kernel that has one
\* is idle, leased, being reset, or one of the stranded, which nobody ever has again.
THEOREM SlotsAccountedAlways == Spec => []SlotsAccounted
  <1>1. IInv => SlotsAccounted
    BY DEF IInv
  <1> QED
    BY <1>1, KernelPoolInvariant, PTL

\* Two conversations never run code in one kernel, nor reset a kernel the other runs code in.
THEOREM ExclusiveUnlessTakenAlways == Spec => []ExclusiveUnlessTaken
  <1>1. IInv => ExclusiveUnlessTaken
    BY PoolAssumption DEF IInv, Owned, UsesAreOwn, ExclusiveUnlessTaken, TypeOK
  <1> QED
    BY <1>1, KernelPoolInvariant, PTL

\* The idle loop and another conversation's restart never shut down a kernel in use.
THEOREM OthersAreSparedAlways == Spec => []OthersAreSpared
  <1>1. IInv => OthersAreSpared
    BY PoolAssumption DEF IInv, Owned, UsesAreOwn, OthersAreSpared, TypeOK
  <1> QED
    BY <1>1, KernelPoolInvariant, PTL
=============================================================================
