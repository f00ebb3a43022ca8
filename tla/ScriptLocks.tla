----------------------------- MODULE ScriptLocks -----------------------------
(***************************************************************************)
(* asCThreadReadWriteLock of AngelScript (source/as_thread.cpp) as it is   *)
(* built for Windows, from a semaphore of maxReaders slots and a critical  *)
(* section: the lock behind asAcquireSharedLock and                        *)
(* asAcquireExclusiveLock.  The semaphore is its set of free slots.  Locks *)
(* are not nested: no thread asks for one while it has one.                *)
(***************************************************************************)
EXTENDS Integers

CONSTANTS
  Threads,  \* those that use the lock
  Writers,  \* those of them that ask for it exclusively as well
  Slots,    \* the maxReaders slots of the semaphore
  NoThread

ASSUME LockAssumption ==
  /\ Slots # {}
  /\ NoThread \notin Threads
  /\ Writers \subseteq Threads

VARIABLES
  readLocks, \* free slots of the semaphore
  writeLock, \* who has the critical section
  taken,     \* the slots each thread has
  at         \* where each thread is

lockVars == <<readLocks, writeLock, taken, at>>

Move(t, from, to) == at[t] = from /\ at' = [at EXCEPT ![t] = to]

(* WaitForSingleObjectEx on the semaphore, and ReleaseSemaphore.           *)
WaitSlot(t) ==
  \E s \in readLocks :
    /\ readLocks' = readLocks \ {s}
    /\ taken' = [taken EXCEPT ![t] = @ \cup {s}]

ReleaseSlots(t) ==
  /\ readLocks' = readLocks \cup taken[t]
  /\ taken' = [taken EXCEPT ![t] = {}]

Ask(t) ==
  /\ Move(t, "outside", "asking")
  /\ UNCHANGED <<readLocks, writeLock, taken>>

AcquireShared(t) ==
  /\ Move(t, "asking", "reading")
  /\ WaitSlot(t)
  /\ UNCHANGED writeLock

ReleaseShared(t) ==
  /\ Move(t, "reading", "outside")
  /\ ReleaseSlots(t)
  /\ UNCHANGED writeLock

(* AcquireExclusive: writers come one at a time, ...                       *)
EnterWriteLock(t) ==
  /\ t \in Writers
  /\ Move(t, "outside", "locking")
  /\ writeLock = NoThread
  /\ writeLock' = t
  /\ UNCHANGED <<readLocks, taken>>

(* ... lock the readers out slot by slot ...  Slip: all slots at once.     *)
LockReaderOut_atOnce(t) ==
  /\ at[t] = "locking"
  /\ readLocks = Slots
  /\ readLocks' = {}
  /\ taken' = [taken EXCEPT ![t] = Slots]
  /\ UNCHANGED <<writeLock, at>>
LockReaderOut(t) ==
  /\ at[t] = "locking"
  /\ WaitSlot(t)
  /\ UNCHANGED <<writeLock, at>>

(* ... and let the next writer try.  Slip: before the readers are out.     *)
LeaveWriteLock_early(t) ==
  /\ Move(t, "locking", "writing")
  /\ taken[t] # {}
  /\ writeLock' = NoThread
  /\ UNCHANGED <<readLocks, taken>>
LeaveWriteLock(t) ==
  /\ Move(t, "locking", "writing")
  /\ taken[t] = Slots
  /\ writeLock' = NoThread
  /\ UNCHANGED <<readLocks, taken>>

ReleaseExclusive(t) ==
  /\ Move(t, "writing", "outside")
  /\ ReleaseSlots(t)
  /\ UNCHANGED writeLock

LockInit ==
  /\ readLocks = Slots /\ writeLock = NoThread
  /\ taken = [t \in Threads |-> {}]
  /\ at = [t \in Threads |-> "outside"]

(* What a thread that has begun goes on to do. *)
Proceed(t) ==
  \/ ReleaseShared(t) \/ LeaveWriteLock(t) \/ ReleaseExclusive(t)
Waits(t) == AcquireShared(t) \/ LockReaderOut(t)

LockStep(t) == Ask(t) \/ EnterWriteLock(t) \/ Proceed(t) \/ Waits(t)
LockNext == \E t \in Threads : LockStep(t)

(* Threads let go of the lock, and the semaphore passes over no one        *)
(* forever: threads wait in its queue.                                     *)
LockFairness == \A t \in Threads : WF_lockVars(Proceed(t)) /\ SF_lockVars(Waits(t))

LockSpec == LockInit /\ [][LockNext]_lockVars /\ LockFairness

-----------------------------------------------------------------------------
LockTypeOK ==
  /\ readLocks \subseteq Slots
  /\ writeLock \in Threads \cup {NoThread}
  /\ taken \in [Threads -> SUBSET Slots]
  /\ at \in [Threads -> {"outside", "asking", "reading", "locking", "writing"}]

(* A writer is alone: with the lock held exclusively, nobody reads or      *)
(* writes.                                                                 *)
WriterAlone ==
  \A t, u \in Threads : t # u /\ at[t] = "writing" => at[u] \notin {"reading", "writing"}

(* However readers overlap, a writer that has begun to lock them out gets  *)
(* the lock: that is why slots are taken one by one.                       *)
WriterGetsIn == \A t \in Writers : at[t] = "locking" ~> at[t] = "writing"
=============================================================================
