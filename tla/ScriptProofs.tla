------------------------------- MODULE ScriptProofs -------------------------
(***************************************************************************)
(* Proofs about what AngelScript's threads share, part by part.            *)
(*                                                                         *)
(* ScriptLocks: its type invariant, and that a writer is alone, for any    *)
(* number of threads and of slots.  What makes a writer alone is that      *)
(* every slot is in one place: free, or taken by one thread.               *)
(*                                                                         *)
(* ScriptWeakRef: however many threads share the object, it ends in order. *)
(* Its reference count is exact all the time, so that the last one to      *)
(* release it can tell; and what the last one finds out stays true until   *)
(* it is done, unless somebody else releases as well.                      *)
(*                                                                         *)
(* ScriptCoroutines: no context is lost or run twice by the context        *)
(* manager, for any number of contexts, threads and sleeps.  What a        *)
(* co-routine's end takes from the lists is what it puts back into the     *)
(* pool only if the one that executes is the thread's current one; the     *)
(* invariant says so for as long as no script went on after passing the    *)
(* turn, and that there is a current one even then.                        *)
(***************************************************************************)
EXTENDS ScriptLocks, ScriptWeakRef, ScriptCoroutines, FiniteSetTheorems, SequenceTheorems, TLAPS

(* No slot is free and taken, or taken twice. *)
SlotsApart ==
  /\ \A t \in Threads : taken[t] \cap readLocks = {}
  /\ \A t, u \in Threads : t # u => taken[t] \cap taken[u] = {}

(* A reader has a slot, a writer has all of them. *)
HaveSlots ==
  \A t \in Threads :
    /\ at[t] = "reading" => taken[t] # {}
    /\ at[t] = "writing" => taken[t] = Slots

LockInv == LockTypeOK /\ SlotsApart /\ HaveSlots

-----------------------------------------------------------------------------
(* Taking a free slot keeps every slot in one place. *)
LEMMA WaitSlotKeepsApart ==
  ASSUME NEW t \in Threads, LockTypeOK, SlotsApart, WaitSlot(t)
  PROVE  /\ readLocks' \subseteq Slots
         /\ taken' \in [Threads -> SUBSET Slots]
         /\ SlotsApart'
         /\ taken'[t] # {}
         /\ \A u \in Threads \ {t} : taken'[u] = taken[u]
<1>1. PICK s \in readLocks : /\ readLocks' = readLocks \ {s}
                             /\ taken' = [taken EXCEPT ![t] = @ \cup {s}]
  BY DEF WaitSlot
<1>2. taken'[t] = taken[t] \cup {s} /\ \A u \in Threads \ {t} : taken'[u] = taken[u]
  BY <1>1 DEF LockTypeOK
<1>3. \A u \in Threads : s \notin taken[u]
  BY DEF SlotsApart
<1>4. SlotsApart'
  <2>1. \A u \in Threads : taken'[u] \cap readLocks' = {}
    BY <1>1, <1>2 DEF SlotsApart
  <2>2. ASSUME NEW u \in Threads, NEW v \in Threads, u # v
        PROVE  taken'[u] \cap taken'[v] = {}
    BY <1>2, <1>3, <2>2 DEF SlotsApart
  <2> QED  BY <2>1, <2>2 DEF SlotsApart
<1> QED  BY <1>1, <1>2, <1>4 DEF LockTypeOK

(* So does giving back all one has. *)
LEMMA ReleaseSlotsKeepsApart ==
  ASSUME NEW t \in Threads, LockTypeOK, SlotsApart, ReleaseSlots(t)
  PROVE  /\ readLocks' \subseteq Slots
         /\ taken' \in [Threads -> SUBSET Slots]
         /\ SlotsApart'
         /\ \A u \in Threads \ {t} : taken'[u] = taken[u]
<1>1. taken'[t] = {} /\ \A u \in Threads \ {t} : taken'[u] = taken[u]
  BY DEF ReleaseSlots, LockTypeOK
<1>2. readLocks' = readLocks \cup taken[t]
  BY DEF ReleaseSlots
<1>3. SlotsApart'
  <2>1. \A u \in Threads : taken'[u] \cap readLocks' = {}
    BY <1>1, <1>2 DEF SlotsApart
  <2>2. \A u, v \in Threads : u # v => taken'[u] \cap taken'[v] = {}
    BY <1>1 DEF SlotsApart
  <2> QED  BY <2>1, <2>2 DEF SlotsApart
<1> QED  BY <1>1, <1>3 DEF ReleaseSlots, LockTypeOK

-----------------------------------------------------------------------------
LEMMA InitLockInv == LockInit => LockInv
  BY DEF LockInit, LockInv, LockTypeOK, SlotsApart, HaveSlots

LEMMA NextLockInv == LockInv /\ [LockNext]_lockVars => LockInv'
<1> SUFFICES ASSUME LockInv, [LockNext]_lockVars PROVE LockInv'
  OBVIOUS
<1> USE DEF LockInv
<1>1. CASE UNCHANGED lockVars
  BY <1>1 DEF lockVars, LockTypeOK, SlotsApart, HaveSlots
<1>2. CASE LockNext
  <2>1. PICK t \in Threads : LockStep(t)
    BY <1>2 DEF LockNext
  <2>2. CASE Ask(t)
    BY <2>2 DEF Ask, Move, LockTypeOK, SlotsApart, HaveSlots
  <2>3. CASE EnterWriteLock(t)
    BY <2>3 DEF EnterWriteLock, Move, LockTypeOK, SlotsApart, HaveSlots
  <2>4. CASE AcquireShared(t)
    BY <2>4, WaitSlotKeepsApart DEF AcquireShared, Move, LockTypeOK, HaveSlots
  <2>5. CASE LockReaderOut(t)
    BY <2>5, WaitSlotKeepsApart DEF LockReaderOut, LockTypeOK, HaveSlots
  <2>6. CASE LeaveWriteLock(t)
    BY <2>6 DEF LeaveWriteLock, Move, LockTypeOK, SlotsApart, HaveSlots
  <2>7. CASE ReleaseShared(t)
    BY <2>7, ReleaseSlotsKeepsApart DEF ReleaseShared, Move, LockTypeOK, HaveSlots
  <2>8. CASE ReleaseExclusive(t)
    BY <2>8, ReleaseSlotsKeepsApart DEF ReleaseExclusive, Move, LockTypeOK, HaveSlots
  <2> QED  BY <2>1, <2>2, <2>3, <2>4, <2>5, <2>6, <2>7, <2>8 DEF LockStep, Proceed, Waits
<1> QED  BY <1>1, <1>2

LEMMA LockInvWriterAlone == LockInv => WriterAlone
<1> SUFFICES ASSUME LockInv, NEW t \in Threads, NEW u \in Threads, t # u, at[t] = "writing",
                    at[u] \in {"reading", "writing"}
             PROVE  FALSE
  BY DEF WriterAlone
<1>1. taken[t] = Slots /\ taken[t] \cap taken[u] = {}
  BY DEF LockInv, HaveSlots, SlotsApart
<1>2. taken[u] # {} /\ taken[u] \subseteq Slots
  BY LockAssumption DEF LockInv, HaveSlots, LockTypeOK
<1> QED  BY <1>1, <1>2

-----------------------------------------------------------------------------
(* The lock's type invariant, for any number of threads and slots. *)
THEOREM LockTyped == LockSpec => []LockTypeOK
<1>1. LockInv => LockTypeOK
  BY DEF LockInv
<1> QED  BY InitLockInv, NextLockInv, <1>1, PTL DEF LockSpec

(* asAcquireExclusiveLock excludes readers and other writers although      *)
(* several writers and readers compete for the slots.                      *)
THEOREM WriterIsAlone == LockSpec => []WriterAlone
  BY InitLockInv, NextLockInv, LockInvWriterAlone, PTL DEF LockSpec

-----------------------------------------------------------------------------
(* Those whose reference is counted: by a handle, or by a Release that has  *)
(* not got to the count yet.                                                *)
Owners == {t \in Holders : t \in strong \/ doing[t] \in Releasing}

ObjectRecord == [refCount : Nat, destructed : BOOLEAN, gone : BOOLEAN]

Typed ==
  /\ object \in ObjectRecord
  /\ weakRefFlag \in 0 .. Len(flags) /\ flags \in Seq(BOOLEAN)
  /\ locked \in Holders \cup {Nobody}
  /\ strong \subseteq Holders
  /\ weak \in [Holders -> Nat]
  /\ doing \in [Holders -> Releasing \cup {"idle", "create", "get", "unlock"}]

Counted == IsFiniteSet(Owners) /\ object.refCount = Cardinality(Owners)

(* Where a thread is tells what it has. *)
Places ==
  \A t \in Holders :
    /\ doing[t] \in Releasing \cup {"get"} => t \notin strong
    /\ doing[t] = "create" => t \in strong
    /\ doing[t] \in {"get", "unlock"} => locked = t /\ weak[t] # 0
    /\ doing[t] = "setFlag" => weakRefFlag # 0

OneFlag == \A t \in Holders : weak[t] # 0 => weak[t] = weakRefFlag

FlagSet == weakRefFlag # 0 => flags[weakRefFlag]

(* What the last one in Release has found out. *)
InOrder ==
  /\ \A t, u \in Holders : doing[t] \in Releasing /\ doing[u] \in Releasing => t = u
  /\ \A t \in Holders :
       /\ doing[t] = "checkDestruct" /\ object.refCount = 1 => FlagSet
       /\ doing[t] = "decrement" /\ object.refCount = 1 => FlagSet /\ object.destructed
  /\ object.gone => Owners = {} /\ FlagSet /\ object.destructed

WeakInv == Typed /\ Counted /\ Places /\ OneFlag /\ (overlapped \/ InOrder)

-----------------------------------------------------------------------------
(* What a count of one, or none, says about the owners. *)
LEMMA Counts ==
  ASSUME WeakInv
  PROVE  /\ \A t, u \in Owners : object.refCount = 1 => t = u
         /\ object.refCount = 0 => Owners = {}
         /\ object.refCount = 1 => \E t \in Holders : Owners = {t}
<1>1. IsFiniteSet(Owners) /\ object.refCount = Cardinality(Owners)
  BY DEF WeakInv, Counted
<1>2. object.refCount = 0 => Owners = {}
  BY <1>1, FS_EmptySet
<1>3. object.refCount = 1 => \E t : Owners = {t}
  BY <1>1, FS_Singleton
<1> QED  BY <1>2, <1>3 DEF Owners

(* The object stays a record. *)
LEMMA RecordKept ==
  ASSUME NEW o \in ObjectRecord, NEW n \in Nat, NEW g \in BOOLEAN
  PROVE  [o EXCEPT !.refCount = n, !.gone = g] \in ObjectRecord
  BY DEF ObjectRecord

(* Steps that leave the owners, the object and the flags alone. *)
LEMMA Aside ==
  ASSUME WeakInv, Owners' = Owners, UNCHANGED <<object, weakRefFlag, flags, overlapped>>,
         \A t \in Holders : doing'[t] # doing[t] => doing'[t] \notin Releasing
  PROVE  Counted' /\ (overlapped' \/ InOrder')
<1>1. Counted'
  BY DEF WeakInv, Counted
<1>2. ASSUME InOrder PROVE InOrder'
  <2>1. FlagSet' <=> FlagSet
    BY DEF FlagSet
  <2>2. \A t \in Holders : doing'[t] \in Releasing => doing[t] = doing'[t]
    OBVIOUS
  <2> QED  BY <1>2, <2>1, <2>2 DEF InOrder, Releasing
<1> QED  BY <1>1, <1>2 DEF WeakInv

LEMMA ShareWeakInv ==
  ASSUME WeakInv, NEW t \in Holders, NEW u \in Holders, Share(t, u)
  PROVE  WeakInv'
<1>1. Typed' /\ Places' /\ OneFlag'
  <2>1. Typed'
    BY DEF WeakInv, Share, Typed, ObjectRecord
  <2> QED  BY <2>1 DEF WeakInv, Share, Typed, ObjectRecord, Places, OneFlag, Releasing
<1>2. Owners' = Owners \cup {u} /\ u \notin Owners /\ t \in Owners
  BY DEF WeakInv, Share, Typed, ObjectRecord, Owners, Releasing
<1>3. object' = [object EXCEPT !.refCount = @ + 1]
  BY DEF Share
<1>4. Counted'
  BY <1>2, <1>3, FS_AddElement DEF WeakInv, Counted, Typed, ObjectRecord
<1>5. object'.refCount # 1
  BY <1>2, <1>3, Counts DEF WeakInv, Typed, ObjectRecord
<1>6. ASSUME InOrder PROVE InOrder'
  <2>1. ~object.gone /\ object'.gone = object.gone
    BY <1>2, <1>3, <1>6 DEF InOrder, WeakInv, Typed, ObjectRecord
  <2> QED  BY <1>5, <1>6, <2>1 DEF InOrder, Share
<1> QED  BY <1>1, <1>4, <1>6 DEF WeakInv, Share

LEMMA ReleaseWeakInv ==
  ASSUME WeakInv, NEW t \in Holders, Release(t)
  PROVE  WeakInv'
<1>1. Typed' /\ Places' /\ OneFlag'
  BY DEF WeakInv, Release, Goes, Typed, ObjectRecord, Places, OneFlag, Releasing
<1>2. Owners' = Owners /\ t \in Owners
  BY DEF WeakInv, Release, Goes, Typed, ObjectRecord, Owners, Releasing
<1>3. Counted'
  BY <1>2 DEF WeakInv, Counted, Release
<1>4. ASSUME ~overlapped' PROVE InOrder'
  <2>1. InOrder /\ \A u \in Holders : doing[u] \notin Releasing
    BY <1>4 DEF WeakInv, Release
  <2>2. \A u \in Holders : doing'[u] \in Releasing => u = t /\ doing'[u] = "release"
    BY <2>1 DEF WeakInv, Typed, ObjectRecord, Release, Goes
  <2>3. ~object'.gone
    BY <1>2, <2>1 DEF InOrder, Release
  <2> QED  BY <2>2, <2>3 DEF InOrder, Releasing
<1> QED  BY <1>1, <1>3, <1>4 DEF WeakInv

LEMMA CheckFlagWeakInv ==
  ASSUME WeakInv, NEW t \in Holders, CheckFlag(t)
  PROVE  WeakInv'
<1>1. Typed' /\ Places' /\ OneFlag'
  BY DEF WeakInv, CheckFlag, Goes, Typed, ObjectRecord, Places, OneFlag, Releasing
<1>2. Owners' = Owners
  BY DEF WeakInv, CheckFlag, Goes, Typed, ObjectRecord, Owners, Releasing
<1>3. Counted'
  BY <1>2 DEF WeakInv, Counted, CheckFlag
<1>4. ASSUME InOrder PROVE InOrder'
  <2>1. /\ doing[t] = "release" /\ UNCHANGED <<object, weakRefFlag, flags>>
        /\ doing'[t] \in {"setFlag", "checkDestruct"}
        /\ doing'[t] = "checkDestruct" => object.refCount # 1 \/ weakRefFlag = 0
        /\ \A u \in Holders : u # t => doing'[u] = doing[u]
    BY DEF WeakInv, Typed, ObjectRecord, CheckFlag, Goes
  <2>2. FlagSet' <=> FlagSet
    BY <2>1 DEF FlagSet
  <2> QED  BY <1>2, <1>4, <2>1, <2>2 DEF InOrder, Releasing, FlagSet
<1> QED  BY <1>1, <1>3, <1>4 DEF WeakInv, CheckFlag

LEMMA SetFlagWeakInv ==
  ASSUME WeakInv, NEW t \in Holders, SetFlag(t)
  PROVE  WeakInv'
<1>1. Typed' /\ Places' /\ OneFlag'
  <2>1. flags' \in Seq(BOOLEAN) /\ Len(flags') = Len(flags)
    BY DEF WeakInv, SetFlag, Typed, ObjectRecord, Places, Goes
  <2> QED  BY <2>1 DEF WeakInv, SetFlag, Goes, Typed, ObjectRecord, Places, OneFlag, Releasing
<1>2. Owners' = Owners
  BY DEF WeakInv, SetFlag, Goes, Typed, ObjectRecord, Owners, Releasing
<1>3. Counted'
  BY <1>2 DEF WeakInv, Counted, SetFlag
<1>4. ASSUME InOrder PROVE InOrder'
  <2>1. FlagSet'
    BY DEF WeakInv, Typed, ObjectRecord, Places, SetFlag, Goes, FlagSet
  <2>2. /\ doing[t] = "setFlag" /\ doing'[t] = "checkDestruct" /\ UNCHANGED object
        /\ \A u \in Holders : u # t => doing'[u] = doing[u]
    BY DEF WeakInv, Typed, ObjectRecord, SetFlag, Goes
  <2> QED  BY <1>2, <1>4, <2>1, <2>2 DEF InOrder, Releasing
<1> QED  BY <1>1, <1>3, <1>4 DEF WeakInv, SetFlag

LEMMA CheckDestructWeakInv ==
  ASSUME WeakInv, NEW t \in Holders, CheckDestruct(t)
  PROVE  WeakInv'
<1>1. /\ doing[t] = "checkDestruct" /\ doing'[t] = "decrement"
      /\ \A u \in Holders : u # t => doing'[u] = doing[u]
      /\ object'.refCount = object.refCount /\ object'.gone = object.gone
      /\ object.destructed => object'.destructed
      /\ object.refCount = 1 => object'.destructed
      /\ UNCHANGED <<weakRefFlag, flags>>
  BY DEF WeakInv, Typed, ObjectRecord, CheckDestruct, Goes
<1>2. Typed' /\ Places' /\ OneFlag'
  BY DEF WeakInv, CheckDestruct, Goes, Typed, ObjectRecord, Places, OneFlag, Releasing
<1>3. Owners' = Owners
  BY DEF WeakInv, CheckDestruct, Goes, Typed, ObjectRecord, Owners, Releasing
<1>4. Counted'
  BY <1>1, <1>3 DEF WeakInv, Counted
<1>5. ASSUME InOrder PROVE InOrder'
  <2>1. FlagSet' <=> FlagSet
    BY <1>1 DEF FlagSet
  <2> QED  BY <1>1, <1>3, <1>5, <2>1 DEF InOrder, Releasing
<1> QED  BY <1>2, <1>4, <1>5 DEF WeakInv, CheckDestruct

LEMMA DecrementWeakInv ==
  ASSUME WeakInv, NEW t \in Holders, Decrement(t)
  PROVE  WeakInv'
<1>1. /\ doing[t] = "decrement" /\ doing'[t] = "idle"
      /\ \A u \in Holders : u # t => doing'[u] = doing[u]
      /\ object' = [object EXCEPT !.refCount = @ - 1, !.gone = @ \/ object.refCount = 1]
      /\ UNCHANGED <<weakRefFlag, flags, strong, overlapped>>
  BY DEF WeakInv, Typed, ObjectRecord, Decrement, Goes
<1>2. t \in Owners /\ t \notin strong /\ Owners' = Owners \ {t}
  BY <1>1 DEF WeakInv, Owners, Releasing, Places
<1>3. object.refCount # 0
  BY <1>2, Counts
<1>4. Typed' /\ Places' /\ OneFlag'
  <2>1. object' \in ObjectRecord
    <3>1. object \in ObjectRecord /\ object.refCount - 1 \in Nat
          /\ (object.gone \/ object.refCount = 1) \in BOOLEAN
      BY <1>3 DEF WeakInv, Typed, ObjectRecord
    <3> QED  BY <1>1, <3>1, RecordKept
  <2>2. Typed'
    BY <1>1, <2>1 DEF WeakInv, Decrement, Goes, Typed, ObjectRecord, Releasing
  <2> QED  BY <1>1, <2>2 DEF WeakInv, Decrement, Typed, ObjectRecord, Places, OneFlag, Releasing
<1>5. Counted'
  BY <1>1, <1>2, FS_RemoveElement DEF WeakInv, Counted, Typed, ObjectRecord
<1>6. ASSUME InOrder PROVE InOrder'
  <2>1. \A u \in Holders : doing'[u] \notin Releasing
    BY <1>1, <1>6 DEF InOrder, Releasing
  <2>2. ~object.gone
    BY <1>2, <1>6 DEF InOrder
  <2>3. ASSUME object'.gone PROVE Owners' = {} /\ FlagSet' /\ object'.destructed
    <3>1. object.refCount = 1
      BY <1>1, <2>2, <2>3 DEF WeakInv, Typed, ObjectRecord
    <3>2. FlagSet /\ object.destructed /\ object'.destructed = object.destructed
      BY <1>1, <1>6, <3>1 DEF InOrder, WeakInv, Typed, ObjectRecord
    <3>3. Owners' = {}
      BY <1>2, <3>1, Counts
    <3> QED  BY <1>1, <3>2, <3>3 DEF FlagSet
  <2> QED  BY <2>1, <2>3 DEF InOrder, Releasing
<1> QED  BY <1>1, <1>4, <1>5, <1>6 DEF WeakInv

-----------------------------------------------------------------------------
LEMMA HoldWeakInv ==
  ASSUME WeakInv, NEW t \in Holders, Hold(t)
  PROVE  WeakInv'
<1>1. Typed' /\ Places' /\ OneFlag'
  <2>1. Typed'
    BY SMTT(30) DEF WeakInv, Hold, Goes, Typed, ObjectRecord
  <2>2. Places'
    BY DEF WeakInv, Hold, Goes, Typed, ObjectRecord, Places, Releasing
  <2>3. OneFlag'
    BY DEF WeakInv, Hold, Typed, ObjectRecord, OneFlag
  <2> QED  BY <2>1, <2>2, <2>3
<1>2. Owners' = Owners
  BY DEF WeakInv, Hold, Goes, Typed, ObjectRecord, Owners, Releasing
<1>3. /\ UNCHANGED <<object, weakRefFlag, flags, overlapped>>
      /\ \A u \in Holders : doing'[u] # doing[u] => doing'[u] \notin Releasing
  BY DEF WeakInv, Hold, Goes, Typed, ObjectRecord, Releasing
<1> QED  BY <1>1, <1>2, <1>3, Aside DEF WeakInv

LEMMA CreateWeakInv ==
  ASSUME WeakInv, NEW t \in Holders, Create(t)
  PROVE  WeakInv'
<1>1. CASE weakRefFlag # 0
  <2>1. Typed' /\ Places' /\ OneFlag'
    <3>1. Typed'
      BY <1>1 DEF WeakInv, Create, Goes, Typed, ObjectRecord
    <3>2. Places'
      BY <1>1 DEF WeakInv, Create, Goes, Typed, ObjectRecord, Places, Releasing
    <3>3. OneFlag'
      BY <1>1 DEF WeakInv, Create, Typed, ObjectRecord, OneFlag
    <3> QED  BY <3>1, <3>2, <3>3
  <2>2. Owners' = Owners
    BY DEF WeakInv, Create, Goes, Typed, ObjectRecord, Owners, Releasing
  <2>3. /\ UNCHANGED <<object, weakRefFlag, flags, overlapped>>
        /\ \A u \in Holders : doing'[u] # doing[u] => doing'[u] \notin Releasing
    BY <1>1 DEF WeakInv, Create, Goes, Typed, ObjectRecord, Releasing
  <2> QED  BY <2>1, <2>2, <2>3, Aside DEF WeakInv
<1>2. CASE weakRefFlag = 0
  <2>1. /\ flags' = Append(flags, FALSE) /\ weakRefFlag' = Len(flags) + 1
        /\ weak' = [weak EXCEPT ![t] = Len(flags) + 1]
        /\ doing[t] = "create" /\ doing' = [doing EXCEPT ![t] = "idle"]
        /\ UNCHANGED <<object, locked, strong, overlapped>>
    BY <1>2 DEF Create, NewFlag, Goes
  <2>2. flags' \in Seq(BOOLEAN) /\ Len(flags') = Len(flags) + 1 /\ Len(flags) \in Nat
    BY <2>1 DEF WeakInv, Typed, ObjectRecord
  <2>3. Typed' /\ Places'
    BY <2>1, <2>2 DEF WeakInv, Typed, ObjectRecord, Places, Releasing
  <2>4. OneFlag'
    BY <1>2, <2>1 DEF WeakInv, Typed, ObjectRecord, OneFlag
  <2>5. t \in Owners /\ Owners' = Owners
    BY <2>1 DEF WeakInv, Typed, ObjectRecord, Places, Owners, Releasing
  <2>6. Counted'
    BY <2>1, <2>5 DEF WeakInv, Counted
  <2>7. \A u \in Holders : doing'[u] \in Releasing =>
          u # t /\ doing[u] = doing'[u] /\ u \in Owners /\ object.refCount # 1
    BY <2>1, <2>5, Counts DEF WeakInv, Typed, ObjectRecord, Owners, Releasing
  <2>8. ASSUME InOrder PROVE InOrder'
    BY <2>1, <2>5, <2>7, <2>8 DEF InOrder, Releasing
  <2> QED  BY <2>1, <2>3, <2>4, <2>6, <2>8 DEF WeakInv
<1> QED  BY <1>1, <1>2

LEMMA LockWeakInv ==
  ASSUME WeakInv, NEW t \in Holders, Lock(t)
  PROVE  WeakInv'
<1>1. Typed' /\ Places' /\ OneFlag'
  BY WeakRefAssumption DEF WeakInv, Lock, Goes, Typed, ObjectRecord, Places, OneFlag, Releasing
<1>2. Owners' = Owners
  BY DEF WeakInv, Lock, Goes, Typed, ObjectRecord, Owners, Releasing
<1>3. /\ UNCHANGED <<object, weakRefFlag, flags, overlapped>>
      /\ \A u \in Holders : doing'[u] # doing[u] => doing'[u] \notin Releasing
  BY DEF WeakInv, Lock, Goes, Typed, ObjectRecord, Releasing
<1> QED  BY <1>1, <1>2, <1>3, Aside DEF WeakInv

LEMMA UnlockWeakInv ==
  ASSUME WeakInv, NEW t \in Holders, Unlock(t)
  PROVE  WeakInv'
<1>1. Typed' /\ Places' /\ OneFlag'
  BY DEF WeakInv, Unlock, Goes, Typed, ObjectRecord, Places, OneFlag, Releasing
<1>2. Owners' = Owners
  BY DEF WeakInv, Unlock, Goes, Typed, ObjectRecord, Owners, Releasing
<1>3. /\ UNCHANGED <<object, weakRefFlag, flags, overlapped>>
      /\ \A u \in Holders : doing'[u] # doing[u] => doing'[u] \notin Releasing
  BY DEF WeakInv, Unlock, Goes, Typed, ObjectRecord, Releasing
<1> QED  BY <1>1, <1>2, <1>3, Aside DEF WeakInv

LEMMA GetWeakInv ==
  ASSUME WeakInv, NEW t \in Holders, Get(t)
  PROVE  WeakInv'
<1>1. CASE flags[weak[t]]
  <2>1. Typed' /\ Places' /\ OneFlag'
    BY <1>1 DEF WeakInv, Get, Goes, Typed, ObjectRecord, Places, OneFlag, Releasing
  <2>2. Owners' = Owners
    BY <1>1 DEF WeakInv, Get, Goes, Typed, ObjectRecord, Owners, Releasing
  <2>3. /\ UNCHANGED <<object, weakRefFlag, flags, overlapped>>
        /\ \A u \in Holders : doing'[u] # doing[u] => doing'[u] \notin Releasing
    BY <1>1 DEF WeakInv, Get, Goes, Typed, ObjectRecord, Releasing
  <2> QED  BY <2>1, <2>2, <2>3, Aside DEF WeakInv
<1>2. CASE ~flags[weak[t]]
  <2>1. /\ object' = [object EXCEPT !.refCount = @ + 1] /\ strong' = strong \cup {t}
        /\ doing[t] = "get" /\ doing' = [doing EXCEPT ![t] = "unlock"]
        /\ UNCHANGED <<weakRefFlag, flags, locked, weak, overlapped>>
    BY <1>2 DEF Get, Goes
  <2>2. Typed' /\ Places' /\ OneFlag'
    <3>1. Typed'
      <4>1. object' \in ObjectRecord
        <5>1. object \in ObjectRecord /\ object.refCount + 1 \in Nat
          BY DEF WeakInv, Typed, ObjectRecord
        <5> QED  BY <2>1, <5>1 DEF ObjectRecord
      <4> QED  BY <2>1, <4>1 DEF WeakInv, Typed, ObjectRecord
    <3>2. Places'
      BY <2>1 DEF WeakInv, Typed, ObjectRecord, Places, Releasing
    <3>3. OneFlag'
      BY <2>1 DEF WeakInv, OneFlag
    <3> QED  BY <3>1, <3>2, <3>3
  <2>3. Owners' = Owners \cup {t} /\ t \notin Owners
    BY <2>1 DEF WeakInv, Typed, ObjectRecord, Places, Owners, Releasing
  <2>4. Counted'
    BY <2>1, <2>3, FS_AddElement DEF WeakInv, Counted, Typed, ObjectRecord
  <2>5. weak[t] # 0 /\ weak[t] = weakRefFlag /\ ~FlagSet
    BY <1>2, <2>1 DEF WeakInv, Places, OneFlag, FlagSet
  <2>6. \A u \in Holders : doing'[u] \in Releasing => doing[u] = doing'[u] /\ u \in Owners
    BY <2>1 DEF WeakInv, Typed, ObjectRecord, Owners, Releasing
  <2>7. \A u \in Holders : doing'[u] \in Releasing => object'.refCount # 1
    BY <2>1, <2>6, Counts DEF WeakInv, Typed, ObjectRecord
  <2>8. ASSUME InOrder PROVE InOrder'
    <3>1. ~object'.gone
      BY <2>1, <2>5, <2>8 DEF InOrder, WeakInv, Typed, ObjectRecord
    <3> QED  BY <2>6, <2>7, <2>8, <3>1 DEF InOrder, Releasing
  <2> QED  BY <2>1, <2>2, <2>4, <2>8 DEF WeakInv
<1> QED  BY <1>1, <1>2

-----------------------------------------------------------------------------
LEMMA InitWeakInv == WeakRefInit => WeakInv
<1> SUFFICES ASSUME WeakRefInit PROVE WeakInv
  OBVIOUS
<1>1. PICK t \in Holders : strong = {t}
  BY DEF WeakRefInit
<1>2. Owners = {t}
  BY <1>1 DEF WeakRefInit, Owners, Releasing
<1>3. Counted
  BY <1>2, FS_Singleton DEF WeakRefInit, Counted
<1>4. Typed /\ Places /\ OneFlag /\ InOrder
  BY <1>1 DEF WeakRefInit, Typed, ObjectRecord, Places, OneFlag, InOrder, Releasing
<1> QED  BY <1>3, <1>4 DEF WeakInv

LEMMA NextWeakInv == WeakInv /\ [WeakRefNext]_weakVars => WeakInv'
<1> SUFFICES ASSUME WeakInv, [WeakRefNext]_weakVars PROVE WeakInv'
  OBVIOUS
<1>1. CASE UNCHANGED weakVars
  BY <1>1 DEF weakVars, WeakInv, Typed, ObjectRecord, Counted, Places, OneFlag, InOrder,
     Owners, FlagSet
<1>2. CASE WeakRefNext
  BY <1>2, ShareWeakInv, ReleaseWeakInv, CheckFlagWeakInv, SetFlagWeakInv,
     CheckDestructWeakInv, DecrementWeakInv,
     HoldWeakInv, CreateWeakInv, LockWeakInv, GetWeakInv, UnlockWeakInv DEF WeakRefNext
<1> QED  BY <1>1, <1>2

(* With any number of threads, as long as no two give up handles at once,  *)
(* the object's destructor is called before it goes, and no weak reference *)
(* gives a handle to it afterwards (GetWeakRefFlag, Release and            *)
(* CScriptWeakRef::Get).                                                   *)
THEOREM ObjectEndsInOrder == WeakRefSpec => []WeakRefsEnd
<1>1. WeakInv => WeakRefsEnd
  BY DEF WeakInv, OneFlag, InOrder, Owners, FlagSet, WeakRefsEnd, Typed, ObjectRecord
<1> QED  BY InitWeakInv, NextWeakInv, <1>1, PTL DEF WeakRefSpec

-----------------------------------------------------------------------------
(* The lists of co-routines and the pool.                                  *)
Slot == Contexts \cup {NoContext}
ThreadRecord == [coRoutines : Seq(Slot), current : Nat, sleepUntil : Nat]

ListsTyped ==
  /\ threads \in Seq(ThreadRecord)
  /\ pool \subseteq Contexts
  /\ currentThread \in 0 .. Len(threads) + 1
  /\ executing \in Nat
  /\ time \in [now : 0 .. MaxTime, seen : 0 .. MaxTime]
  /\ early \in BOOLEAN

(* Every thread has a current co-routine, and what executes is a context.  *)
CurrentPlaces ==
  /\ \A t \in 1 .. Len(threads) : threads[t].current \in 1 .. Len(threads[t].coRoutines)
  /\ executing # 0 =>
       /\ currentThread \in 1 .. Len(threads)
       /\ executing \in 1 .. Len(Thread.coRoutines)
       /\ Ctx \in Contexts

(* Slot i of the list of thread t, and what is there.                      *)
Held(t, i) == t \in 1 .. Len(threads) /\ i \in 1 .. Len(threads[t].coRoutines)
At(t, i) == threads[t].coRoutines[i]

Apart ==
  /\ \A t, i \in Nat : Held(t, i) => At(t, i) \in Contexts \ pool
  /\ \A t, i, u, j \in Nat : Held(t, i) /\ Held(u, j) /\ At(t, i) = At(u, j) => t = u /\ i = j
Complete == \A c \in Contexts \ pool : \E t, i \in Nat : Held(t, i) /\ At(t, i) = c

ListsExact == (executing # 0 => executing = Thread.current) /\ Apart /\ Complete

ListsInv == ListsTyped /\ CurrentPlaces /\ (early \/ ListsExact)

-----------------------------------------------------------------------------
(* What RemoveAt leaves: the elements before, and those after moved up.    *)
Shift(i, pos) == IF i < pos THEN i ELSE i + 1
Unshift(j, pos) == IF j < pos THEN j ELSE j - 1

LEMMA ShiftSkips ==
  ASSUME NEW n \in Nat, NEW pos \in 1 .. n
  PROVE  /\ \A i \in 1 .. n - 1 : Shift(i, pos) \in 1 .. n /\ Shift(i, pos) # pos
         /\ \A j \in 1 .. n : j # pos => Unshift(j, pos) \in 1 .. n - 1 /\ Shift(Unshift(j, pos), pos) = j
  BY DEF Shift, Unshift

LEMMA UnshiftShift ==
  ASSUME NEW n \in Nat, NEW pos \in 1 .. n, NEW j \in 1 .. n, j # pos
  PROVE  Unshift(j, pos) \in 1 .. n - 1 /\ Shift(Unshift(j, pos), pos) = j
  BY DEF Shift, Unshift

LEMMA RemoveAtProperties ==
  ASSUME NEW S, NEW s \in Seq(S), NEW pos \in 1 .. Len(s)
  PROVE  /\ RemoveAt(s, pos) \in Seq(S)
         /\ Len(RemoveAt(s, pos)) = Len(s) - 1
         /\ \A i \in 1 .. Len(s) - 1 : RemoveAt(s, pos)[i] = s[Shift(i, pos)]
<1> DEFINE a == SubSeq(s, 1, pos - 1)
           b == SubSeq(s, pos + 1, Len(s))
<1>1. /\ a \in Seq(S) /\ Len(a) = pos - 1 /\ \A i \in 1 .. pos - 1 : a[i] = s[i]
  BY SubSeqProperties
<1>2. /\ b \in Seq(S) /\ Len(b) = Len(s) - pos
      /\ \A i \in 1 .. Len(s) - pos : b[i] = s[pos + i]
  <2>1. CASE pos = Len(s)
    BY <2>1
  <2>2. CASE pos # Len(s)
    BY <2>2, SubSeqProperties
  <2> QED  BY <2>1, <2>2
<1>3. RemoveAt(s, pos) = a \o b
  BY DEF RemoveAt
<1> HIDE DEF a, b
<1>4. /\ a \o b \in Seq(S) /\ Len(a \o b) = Len(s) - 1
      /\ \A i \in 1 .. Len(s) - 1 : (a \o b)[i] = IF i <= pos - 1 THEN a[i] ELSE b[i - (pos - 1)]
  <2>1. Len(a \o b) = Len(a) + Len(b) /\ a \o b \in Seq(S)
    BY <1>1, <1>2, ConcatProperties
  <2>2. \A i \in 1 .. Len(a) + Len(b) : (a \o b)[i] = IF i <= Len(a) THEN a[i] ELSE b[i - Len(a)]
    BY <1>1, <1>2, ConcatProperties
  <2> QED  BY <1>1, <1>2, <2>1, <2>2
<1>5. \A i \in 1 .. Len(s) - 1 : (a \o b)[i] = s[Shift(i, pos)]
  BY <1>1, <1>2, <1>4 DEF Shift
<1> QED  BY <1>3, <1>4, <1>5

LEMMA ShiftInjective ==
  ASSUME NEW pos \in Nat, NEW i \in Nat, NEW j \in Nat, Shift(i, pos) = Shift(j, pos)
  PROVE  i = j
  BY DEF Shift

-----------------------------------------------------------------------------
(* Steps that leave the lists and the pool alone, but may pass the turn.   *)
LEMMA ListsKept ==
  ASSUME ListsExact, pool' = pool, Len(threads') = Len(threads),
         \A t \in 1 .. Len(threads) : threads'[t].coRoutines = threads[t].coRoutines,
         executing' # 0 => executing' = Thread.current'
  PROVE  ListsExact'
<1>1. \A t, i \in Nat : Held(t, i)' <=> Held(t, i)
  BY DEF Held
<1>2. \A t, i \in Nat : Held(t, i) => At(t, i)' = At(t, i)
  BY DEF Held, At
<1>3. Apart'
  BY <1>1, <1>2 DEF ListsExact, Apart
<1>4. Complete'
  BY <1>1, <1>2 DEF ListsExact, Complete
<1> QED  BY <1>3, <1>4 DEF ListsExact

LEMMA InitListsInv == CoroutineInit => ListsInv
<1> SUFFICES ASSUME CoroutineInit PROVE ListsInv
  OBVIOUS
<1>1. threads \in Seq(ThreadRecord) /\ Len(threads) = 0
  BY DEF CoroutineInit
<1>2. ListsTyped
  <2>1. time \in [now : 0 .. MaxTime, seen : 0 .. MaxTime]
    BY CoroutineAssumption DEF CoroutineInit
  <2>2. pool \subseteq Contexts /\ currentThread = 0 /\ executing = 0 /\ early \in BOOLEAN
    BY DEF CoroutineInit
  <2> QED  BY <1>1, <2>1, <2>2 DEF ListsTyped
<1>3. CurrentPlaces
  BY <1>1 DEF CoroutineInit, CurrentPlaces
<1>4. ListsExact
  BY <1>1 DEF CoroutineInit, ListsExact, Apart, Complete, Held
<1> QED  BY <1>2, <1>3, <1>4 DEF ListsInv

-----------------------------------------------------------------------------
(* The application, and ExecuteScripts between two co-routines.            *)
LEMMA AddContextListsInv ==
  ASSUME ListsInv, NEW c \in Contexts, AddContext(c)
  PROVE  ListsInv'
<1> DEFINE new == [coRoutines |-> <<c>>, current |-> 1, sleepUntil |-> 0]
<1>0. Len(threads) \in Nat
  BY LenProperties DEF ListsInv, ListsTyped
<1> PICK last \in Nat : last = Len(threads) + 1
  BY <1>0
<1>1. /\ currentThread = 0 /\ c \in pool /\ pool' = pool \ {c}
      /\ threads' = Append(threads, new)
      /\ UNCHANGED <<currentThread, executing, time, early>>
  BY DEF AddContext
<1>2. new \in ThreadRecord /\ Len(new.coRoutines) = 1 /\ new.coRoutines[1] = c /\ new.current = 1
  BY DEF ThreadRecord, Slot
<1> HIDE DEF new
<1>3. /\ threads' \in Seq(ThreadRecord) /\ Len(threads') = last /\ Len(threads) \in Nat
      /\ \A t \in 1 .. Len(threads) : threads'[t] = threads[t]
      /\ threads'[last] = new
  BY <1>1, <1>2, AppendProperties DEF ListsInv, ListsTyped
<1>4. executing = 0
  BY <1>1 DEF ListsInv, CurrentPlaces
<1>5. ListsTyped'
  BY <1>1, <1>3 DEF ListsInv, ListsTyped
<1>6. CurrentPlaces'
  BY <1>1, <1>2, <1>3, <1>4 DEF ListsInv, CurrentPlaces
<1>7. ASSUME ListsExact PROVE ListsExact'
  <2>1. \A t, i \in Nat : Held(t, i)' <=> Held(t, i) \/ (t = last /\ i = 1)
    <3> TAKE t \in Nat, i \in Nat
    <3>1. CASE t = last
      <4>1. threads'[t] = new /\ t \in 1 .. Len(threads') /\ t \notin 1 .. Len(threads)
        BY <1>0, <1>3, <3>1
      <4>2. Held(t, i)' <=> i \in 1 .. 1
        BY <1>2, <4>1 DEF Held
      <4> QED  BY <3>1, <4>1, <4>2 DEF Held
    <3>2. CASE t # last
      BY <1>0, <1>2, <1>3, <3>2 DEF Held
    <3> QED  BY <3>1, <3>2
  <2>2. \A t, i \in Nat : Held(t, i) => At(t, i)' = At(t, i) /\ At(t, i) # c /\ t # last
    BY <1>1, <1>3, <1>7 DEF Held, At, ListsExact, Apart
  <2>3. At(last, 1)' = c /\ last \in Nat
    BY <1>2, <1>3 DEF At
  <2>4. Apart'
    <3>1. ASSUME NEW t \in Nat, NEW i \in Nat, Held(t, i)' PROVE At(t, i)' \in Contexts \ pool'
      BY <1>1, <1>7, <2>1, <2>2, <2>3, <3>1 DEF ListsExact, Apart
    <3>2. ASSUME NEW t \in Nat, NEW i \in Nat, NEW u \in Nat, NEW j \in Nat,
                 Held(t, i)', Held(u, j)', At(t, i)' = At(u, j)'
          PROVE  t = u /\ i = j
      BY <1>7, <2>1, <2>2, <2>3, <3>2 DEF ListsExact, Apart
    <3> QED  BY <3>1, <3>2 DEF Apart
  <2>5. Complete'
    BY <1>1, <1>7, <2>1, <2>2, <2>3 DEF ListsExact, Complete
  <2> QED  BY <1>1, <1>4, <2>4, <2>5 DEF ListsExact
<1> QED  BY <1>1, <1>5, <1>6, <1>7 DEF ListsInv

LEMMA AbortAllListsInv ==
  ASSUME ListsInv, AbortAll
  PROVE  ListsInv'
<1> DEFINE listed == {c \in Contexts : \E t \in DOMAIN threads : c \in Range(threads[t].coRoutines)}
<1>0. DOMAIN threads = 1 .. Len(threads)
  BY LenProperties DEF ListsInv, ListsTyped
<1>1. /\ currentThread = 0 /\ pool' = pool \cup listed /\ threads' = <<>>
      /\ UNCHANGED <<currentThread, executing, time, early>>
  BY DEF AbortAll
<1>2. /\ threads' \in Seq(ThreadRecord) /\ Len(threads') = 0 /\ executing = 0
  BY <1>1 DEF ListsInv, CurrentPlaces
<1>3. ASSUME ListsExact, NEW c \in Contexts \ pool PROVE c \in listed
  <2>1. PICK t \in Nat, i \in Nat : Held(t, i) /\ At(t, i) = c
    BY <1>3 DEF ListsExact, Complete
  <2>2. t \in 1 .. Len(threads) /\ i \in 1 .. Len(threads[t].coRoutines)
    BY <2>1 DEF Held
  <2>3. threads[t].coRoutines \in Seq(Slot)
    <3>1. threads[t] \in ThreadRecord
      BY <2>2, ElementOfSeq DEF ListsInv, ListsTyped
    <3> QED  BY <3>1 DEF ThreadRecord
  <2>4. c \in Range(threads[t].coRoutines)
    BY <2>1, <2>2, <2>3, LenProperties DEF At, Range
  <2>5. t \in DOMAIN threads
    BY <1>0, <2>2, Zenon
  <2> QED  BY <1>3, <2>4, <2>5
<1>4. listed \subseteq Contexts
  OBVIOUS
<1> HIDE DEF listed
<1>6. ListsTyped'
  BY <1>1, <1>2, <1>4 DEF ListsInv, ListsTyped
<1>7. CurrentPlaces'
  BY <1>1, <1>2 DEF CurrentPlaces
<1>8. ListsExact => ListsExact'
  BY <1>1, <1>2, <1>3 DEF ListsExact, Apart, Complete, Held
<1> QED  BY <1>1, <1>6, <1>7, <1>8 DEF ListsInv

LEMMA GoOnListsInv ==
  ASSUME ListsInv, GoOn \/ Tick
  PROVE  ListsInv'
<1>1. /\ UNCHANGED <<threads, pool, early>>
      /\ time' \in [now : 0 .. MaxTime, seen : 0 .. MaxTime]
  BY CoroutineAssumption DEF GoOn, ExecuteScripts, EndExecuteScripts, SkipThread, RunThread,
     Tick, ListsInv, ListsTyped
<1>2. Len(threads) \in Nat
  BY DEF ListsInv, ListsTyped
<1>3. CASE RunThread
  <2>1. /\ currentThread \in 1 .. Len(threads) /\ currentThread' = currentThread
        /\ executing' = Thread.current /\ Thread.coRoutines[Thread.current] # NoContext
    BY <1>3 DEF RunThread, Between, ListsInv, ListsTyped
  <2>2. /\ Thread \in ThreadRecord
        /\ Thread.current \in 1 .. Len(Thread.coRoutines)
        /\ Thread' = Thread
    BY <1>1, <2>1, ElementOfSeq DEF ListsInv, ListsTyped, CurrentPlaces, Thread
  <2>3. executing' \in 1 .. Len(Thread.coRoutines)' /\ Ctx' \in Contexts
    BY <2>1, <2>2, ElementOfSeq DEF ThreadRecord, Slot, Ctx
  <2>4. ListsExact => ListsExact'
    BY <1>1, <2>1, <2>2, ListsKept
  <2> QED  BY <1>1, <2>1, <2>2, <2>3, <2>4 DEF ListsInv, ListsTyped, CurrentPlaces, ThreadRecord
<1>4. CASE ~RunThread
  <2>1. CASE executing = 0
    <3>1. executing' = 0 /\ currentThread' \in 0 .. Len(threads) + 1
      BY <1>2, <1>4, <2>1 DEF GoOn, ExecuteScripts, EndExecuteScripts, SkipThread, Tick,
         Between, ListsInv, ListsTyped
    <3>2. ListsExact => ListsExact'
      BY <1>1, <3>1, ListsKept
    <3> QED  BY <1>1, <3>1, <3>2 DEF ListsInv, ListsTyped, CurrentPlaces
  <2>2. CASE executing # 0
    <3>1. currentThread \in 1 .. Len(threads)
      BY <2>2 DEF ListsInv, CurrentPlaces
    <3>2. UNCHANGED <<currentThread, executing>>
      BY <1>2, <1>4, <2>2, <3>1
      DEF GoOn, ExecuteScripts, EndExecuteScripts, SkipThread, Tick, Between
    <3>3. Thread' = Thread /\ Ctx' = Ctx
      BY <1>1, <3>2 DEF Thread, Ctx
    <3>4. ListsExact => ListsExact'
      BY <1>1, <3>2, <3>3, ListsKept DEF ListsExact
    <3> QED  BY <1>1, <3>2, <3>3, <3>4 DEF ListsInv, ListsTyped, CurrentPlaces
  <2> QED  BY <2>1, <2>2
<1> QED  BY <1>3, <1>4

-----------------------------------------------------------------------------
(* The end of a script.  The record it ends in is its thread's, after a    *)
(* yield() perhaps; only what it makes of the current co-routine matters.  *)
LEMMA RunningThread ==
  ASSUME ListsInv, Running
  PROVE  /\ currentThread \in 1 .. Len(threads) /\ executing \in 1 .. Len(Thread.coRoutines)
         /\ Thread \in ThreadRecord /\ Thread.coRoutines \in Seq(Slot) /\ Ctx \in Contexts
         /\ Thread.current \in 1 .. Len(Thread.coRoutines)
         /\ Len(threads) \in Nat /\ Len(Thread.coRoutines) \in Nat
<1>1. /\ currentThread \in 1 .. Len(threads) /\ executing \in 1 .. Len(Thread.coRoutines)
      /\ Ctx \in Contexts
  BY DEF ListsInv, CurrentPlaces, Running
<1>2. Thread \in ThreadRecord /\ Len(threads) \in Nat
  BY <1>1, ElementOfSeq, LenProperties DEF ListsInv, ListsTyped, Thread
<1>3. Thread.coRoutines \in Seq(Slot) /\ Len(Thread.coRoutines) \in Nat
  BY <1>2, LenProperties DEF ThreadRecord
<1>4. Thread.current \in 1 .. Len(Thread.coRoutines)
  BY <1>1 DEF ListsInv, CurrentPlaces, Thread
<1> QED  BY <1>1, <1>2, <1>3, <1>4

LEMMA NextCurrent ==
  ASSUME NEW n \in Nat, NEW pos \in 1 .. n
  PROVE  n # 1 => (IF pos >= n THEN 1 ELSE pos) \in 1 .. n - 1
  OBVIOUS

LEMMA ErasedProperties ==
  ASSUME NEW thread \in ThreadRecord, NEW e \in 1 .. Len(thread.coRoutines),
         executing = e, thread.current \in 1 .. Len(thread.coRoutines)
  PROVE  /\ Erased(thread) \in ThreadRecord
         /\ Len(Erased(thread).coRoutines) = Len(thread.coRoutines) - 1
         /\ Len(thread.coRoutines) # 1 =>
              Erased(thread).current \in 1 .. Len(thread.coRoutines) - 1
         /\ thread.current = e =>
              \A i \in 1 .. Len(thread.coRoutines) - 1 :
                Erased(thread).coRoutines[i] = thread.coRoutines[Shift(i, e)]
<1> DEFINE list == [thread.coRoutines EXCEPT ![e] = NoContext]
<1>1. thread.coRoutines \in Seq(Slot) /\ thread.current \in Nat /\ thread.sleepUntil \in Nat
  BY DEF ThreadRecord
<1>2. /\ list \in Seq(Slot) /\ Len(list) = Len(thread.coRoutines)
      /\ \A j \in 1 .. Len(thread.coRoutines) : j # e => list[j] = thread.coRoutines[j]
  BY <1>1, ExceptSeq DEF Slot
<1>3. Erased(thread) = [thread EXCEPT !.coRoutines = RemoveAt(list, thread.current),
                          !.current = IF thread.current >= Len(thread.coRoutines) THEN 1
                                      ELSE thread.current]
  BY DEF Erased
<1> HIDE DEF list
<1> PICK n \in Nat, pos \in Nat : n = Len(thread.coRoutines) /\ pos = thread.current
  BY <1>1, LenProperties
<1>4. pos \in 1 .. n /\ Len(list) = n /\ e \in 1 .. n
  BY <1>2
<1>5. RemoveAt(list, pos) \in Seq(Slot) /\ Len(RemoveAt(list, pos)) = n - 1
  BY <1>2, <1>4, RemoveAtProperties
<1>6. \A i \in 1 .. n - 1 : RemoveAt(list, pos)[i] = list[Shift(i, pos)]
  <2>1. list \in Seq(Slot) /\ Len(list) = n /\ pos \in 1 .. Len(list)
    BY <1>2, <1>4
  <2>2. \A i \in 1 .. Len(list) - 1 : RemoveAt(list, pos)[i] = list[Shift(i, pos)]
    BY <2>1, RemoveAtProperties
  <2> QED  BY <2>1, <2>2
<1>7. /\ Erased(thread).coRoutines = RemoveAt(list, pos)
      /\ Erased(thread).current = IF pos >= n THEN 1 ELSE pos
      /\ Erased(thread).sleepUntil = thread.sleepUntil
      /\ Erased(thread) = [coRoutines |-> Erased(thread).coRoutines,
                           current |-> Erased(thread).current,
                           sleepUntil |-> Erased(thread).sleepUntil]
  BY <1>3 DEF ThreadRecord
<1>8. Erased(thread) \in ThreadRecord
  BY <1>1, <1>5, <1>7 DEF ThreadRecord
<1>9. n # 1 => Erased(thread).current \in 1 .. n - 1
  <2>1. PICK cur \in Nat : cur = Erased(thread).current
    BY <1>7
  <2>2. pos \in 1 .. n /\ cur = IF pos >= n THEN 1 ELSE pos
    BY <1>4, <1>7, <2>1
  <2>3. n # 1 => cur \in 1 .. n - 1
    BY <2>2, NextCurrent
  <2> QED  BY <2>1, <2>3
<1>10. ASSUME pos = e, NEW i \in 1 .. n - 1
       PROVE  Erased(thread).coRoutines[i] = thread.coRoutines[Shift(i, e)]
  <2>1. Shift(i, e) \in 1 .. n /\ Shift(i, e) # e
    BY <1>4, ShiftSkips
  <2> QED  BY <1>2, <1>6, <1>7, <1>10, <2>1
<1> QED  BY <1>5, <1>7, <1>8, <1>9, <1>10

LEMMA ThreadGone ==
  ASSUME ListsExact, NEW n \in Nat, NEW pos \in 1 .. n, n = Len(threads),
         NEW c \in Contexts, pool' = pool \cup {c}, executing' = 0,
         \A i \in Nat : Held(pos, i) => At(pos, i) = c,
         \E i \in Nat : Held(pos, i) /\ At(pos, i) = c,
         Len(threads') = n - 1,
         \A t \in 1 .. n - 1 : threads'[t] = threads[Shift(t, pos)]
  PROVE  ListsExact'
<1>1. ASSUME NEW t \in Nat, NEW i \in Nat, Held(t, i)'
      PROVE  /\ Shift(t, pos) \in Nat /\ Held(Shift(t, pos), i) /\ At(t, i)' = At(Shift(t, pos), i)
             /\ At(t, i)' # c
  <2>1. t \in 1 .. n - 1 /\ Shift(t, pos) \in 1 .. n /\ Shift(t, pos) # pos
    BY <1>1, ShiftSkips DEF Held
  <2> PICK u \in Nat : u = Shift(t, pos)
    BY <2>1
  <2>3. threads'[t] = threads[u] /\ u \in 1 .. n /\ u # pos
    BY <2>1
  <2>2. Held(u, i) /\ At(t, i)' = At(u, i)
    BY <1>1, <2>3 DEF Held, At
  <2> QED  BY <2>2, <2>3 DEF ListsExact, Apart
<1>2. ASSUME NEW u \in Nat, NEW i \in Nat, Held(u, i), At(u, i) # c
      PROVE  \E t \in Nat : Held(t, i)' /\ At(t, i)' = At(u, i)
  <2>0. u \in 1 .. n /\ u # pos
    BY <1>2 DEF Held
  <2> PICK t : t = Unshift(u, pos)
    OBVIOUS
  <2>1. t \in 1 .. n - 1 /\ Shift(t, pos) = u
    BY <2>0, ShiftSkips
  <2>2. t \in Nat /\ threads'[t] = threads[u] /\ t \in 1 .. Len(threads')
    BY <2>1
  <2>3. Held(t, i)' /\ At(t, i)' = At(u, i)
    BY <1>2, <2>2 DEF Held, At
  <2> QED  BY <2>2, <2>3
<1>3. Apart'
  <2>1. \A t, i \in Nat : Held(t, i)' => At(t, i)' \in Contexts \ pool'
    BY <1>1 DEF ListsExact, Apart
  <2>2. ASSUME NEW t \in Nat, NEW i \in Nat, NEW u \in Nat, NEW j \in Nat,
               Held(t, i)', Held(u, j)', At(t, i)' = At(u, j)'
        PROVE  t = u /\ i = j
    BY <1>1, <2>2, ShiftInjective DEF ListsExact, Apart
  <2> QED  BY <2>1, <2>2 DEF Apart
<1>4. Complete'
  <2> SUFFICES ASSUME NEW d \in Contexts \ pool'
               PROVE  \E t, i \in Nat : Held(t, i)' /\ At(t, i)' = d
    BY DEF Complete
  <2>1. PICK u \in Nat, i \in Nat : Held(u, i) /\ At(u, i) = d
    BY DEF ListsExact, Complete
  <2>2. At(u, i) # c
    BY <2>1
  <2>3. PICK t \in Nat : Held(t, i)' /\ At(t, i)' = At(u, i)
    BY <1>2, <2>1, <2>2
  <2> QED  BY <2>1, <2>3
<1> QED  BY <1>3, <1>4 DEF ListsExact

SlotTaken(n, pos, size, e) ==
  /\ n = Len(threads) /\ Len(threads') = n
  /\ size = Len(threads[pos].coRoutines) /\ Len(threads'[pos].coRoutines) = size - 1
  /\ \A t \in 1 .. n : t # pos => threads'[t] = threads[t]
  /\ \A i \in 1 .. size - 1 :
       threads'[pos].coRoutines[i] = threads[pos].coRoutines[Shift(i, e)]

LEMMA SlotGone ==
  ASSUME ListsExact, NEW n \in Nat, NEW pos \in 1 .. n, NEW size \in Nat, NEW e \in 1 .. size,
         pool' = pool \cup {At(pos, e)}, executing' = 0,
         SlotTaken(n, pos, size, e)
  PROVE  ListsExact'
<1>1. PICK c : c = At(pos, e)
  OBVIOUS
<1>2. /\ Held(pos, e)
      /\ \A t, i \in Nat : Held(t, i) /\ At(t, i) = c => t = pos /\ i = e
  <2>1. Held(pos, e) /\ pos \in Nat /\ e \in Nat
    BY DEF Held, SlotTaken
  <2>2. \A t, i, u, j \in Nat : Held(t, i) /\ Held(u, j) /\ At(t, i) = At(u, j) => t = u /\ i = j
    BY DEF ListsExact, Apart
  <2> QED  BY <1>1, <2>1, <2>2
<1>3. ASSUME NEW t \in Nat, NEW i \in Nat, Held(t, i)', t # pos
      PROVE  Held(t, i) /\ At(t, i)' = At(t, i) /\ At(t, i)' # c
  <2>1. Held(t, i) /\ At(t, i)' = At(t, i)
    BY <1>3 DEF Held, At, SlotTaken
  <2> QED  BY <1>2, <1>3, <2>1
<1>4. ASSUME NEW i \in Nat, Held(pos, i)'
      PROVE  Shift(i, e) \in Nat /\ Held(pos, Shift(i, e)) /\ At(pos, i)' = At(pos, Shift(i, e))
             /\ At(pos, i)' # c
  <2>1. i \in 1 .. size - 1 /\ Shift(i, e) \in 1 .. size /\ Shift(i, e) # e
    BY <1>4, ShiftSkips DEF Held, SlotTaken
  <2>2. Shift(i, e) \in Nat /\ Held(pos, Shift(i, e))
    BY <2>1 DEF Held, SlotTaken
  <2>3. At(pos, i)' = At(pos, Shift(i, e))
    BY <2>1 DEF At, SlotTaken
  <2> QED  BY <1>2, <2>1, <2>2, <2>3
<1>5. ASSUME NEW t \in Nat, NEW i \in Nat, Held(t, i), At(t, i) # c
      PROVE  \E j \in Nat : Held(t, j)' /\ At(t, j)' = At(t, i)
  <2>1. CASE t # pos
    BY <1>5, <2>1 DEF Held, At, SlotTaken
  <2>2. CASE t = pos
    <3>1. i \in 1 .. size /\ i # e
      BY <1>1, <1>5, <2>2 DEF Held, SlotTaken
    <3> PICK j : j = Unshift(i, e)
      OBVIOUS
    <3>2. j \in 1 .. size - 1 /\ Shift(j, e) = i
      BY <3>1, UnshiftShift
    <3>3. j \in Nat /\ j \in 1 .. Len(threads'[pos].coRoutines) /\ pos \in 1 .. Len(threads')
      BY <3>2 DEF SlotTaken
    <3>5. threads'[pos].coRoutines[j] = threads[pos].coRoutines[i]
      BY <3>2 DEF SlotTaken
    <3>4. Held(pos, j)' /\ At(pos, j)' = At(pos, i)
      BY <3>3, <3>5 DEF Held, At, SlotTaken
    <3> QED  BY <2>2, <3>3, <3>4
  <2> QED  BY <2>1, <2>2
<1>6. Apart'
  <2>1. \A t, i \in Nat : Held(t, i)' => At(t, i)' \in Contexts \ pool'
    BY <1>1, <1>3, <1>4 DEF ListsExact, Apart
  <2>2. ASSUME NEW t \in Nat, NEW i \in Nat, NEW u \in Nat, NEW j \in Nat,
               Held(t, i)', Held(u, j)', At(t, i)' = At(u, j)'
        PROVE  t = u /\ i = j
    <3>1. CASE t # pos /\ u # pos
      BY <1>3, <2>2, <3>1 DEF ListsExact, Apart
    <3>2. CASE t = pos /\ u = pos
      BY <1>4, <2>2, <3>2, ShiftInjective DEF ListsExact, Apart
    <3>3. CASE t = pos /\ u # pos
      BY <1>3, <1>4, <2>2, <3>3 DEF ListsExact, Apart
    <3>4. CASE t # pos /\ u = pos
      BY <1>3, <1>4, <2>2, <3>4 DEF ListsExact, Apart
    <3> QED  BY <3>1, <3>2, <3>3, <3>4
  <2> QED  BY <2>1, <2>2 DEF Apart
<1>7. Complete'
  <2> SUFFICES ASSUME NEW d \in Contexts \ pool'
               PROVE  \E t, i \in Nat : Held(t, i)' /\ At(t, i)' = d
    BY DEF Complete
  <2>1. PICK t \in Nat, i \in Nat : Held(t, i) /\ At(t, i) = d
    BY DEF ListsExact, Complete
  <2> QED  BY <1>1, <1>5, <2>1
<1> QED  BY <1>6, <1>7 DEF ListsExact

(* The record that ends is the thread's but for its current co-routine;    *)
(* unless it comes early, that is the one that ends.                       *)
LEMMA EndsListsInv ==
  ASSUME ListsInv, Running, NEW thread \in ThreadRecord, thread.coRoutines = Thread.coRoutines,
         thread.current \in 1 .. Len(thread.coRoutines), Ends(thread),
         early' \in BOOLEAN, early' \/ (~early /\ thread.current = executing)
  PROVE  ListsInv'
<1> PICK n \in Nat, size \in Nat, cur \in Nat, e \in Nat :
      n = Len(threads) /\ size = Len(thread.coRoutines) /\ cur = currentThread /\ e = executing
  BY RunningThread DEF ListsInv, ListsTyped
<1> PICK c, erased : c \in Contexts /\ c = Ctx /\ erased = Erased(thread)
  BY RunningThread
<1>1. /\ cur \in 1 .. n /\ e \in 1 .. size /\ e # 0 /\ threads \in Seq(ThreadRecord)
      /\ threads[cur].coRoutines = thread.coRoutines
      /\ Thread.coRoutines[e] = c
  BY RunningThread DEF ListsInv, ListsTyped, Thread, Ctx
<1>2. /\ pool' = pool \cup {c}
      /\ threads' = IF erased.coRoutines = <<>> THEN RemoveAt(threads, cur)
                    ELSE [threads EXCEPT ![cur] = erased]
      /\ currentThread' = IF erased.coRoutines = <<>> THEN cur ELSE cur + 1
      /\ executing' = 0 /\ time' = time
  BY DEF Ends
<1>3. /\ erased \in ThreadRecord /\ Len(erased.coRoutines) = size - 1
      /\ size # 1 => erased.current \in 1 .. size - 1
  BY <1>1, ErasedProperties
<1>4. erased.coRoutines = <<>> <=> size = 1
  <2>1. erased.coRoutines \in Seq(Slot)
    BY <1>3 DEF ThreadRecord
  <2>2. erased.coRoutines = <<>> <=> Len(erased.coRoutines) = 0
    BY <2>1, EmptySeq
  <2> QED  BY <1>3, <2>2
<1>5. ASSUME ~early' PROVE thread.current = e /\ ListsExact
  BY <1>5 DEF ListsInv
<1>6. CASE size = 1
  <2>1. threads' = RemoveAt(threads, cur) /\ currentThread' = cur
    BY <1>2, <1>4, <1>6
  <2>2. threads' \in Seq(ThreadRecord) /\ Len(threads') = n - 1
    BY <1>1, <2>1, RemoveAtProperties
  <2>3. \A t \in 1 .. n - 1 : threads'[t] = threads[Shift(t, cur)]
    BY <1>1, <2>1, RemoveAtProperties
  <2>4. \A t \in 1 .. n - 1 : Shift(t, cur) \in 1 .. n
    BY <1>1, ShiftSkips
  <2>5. ListsTyped'
    BY <1>1, <1>2, <2>1, <2>2 DEF ListsInv, ListsTyped
  <2>6. CurrentPlaces'
    BY SMTT(30), <1>2, <2>2, <2>3, <2>4 DEF ListsInv, CurrentPlaces
  <2>7. ASSUME ~early' PROVE ListsExact'
    <3>1. Held(cur, 1) /\ At(cur, 1) = c /\ \A i \in Nat : Held(cur, i) => At(cur, i) = c
      BY <1>1, <1>6 DEF Held, At, Thread
    <3>2. \E i \in Nat : Held(cur, i) /\ At(cur, i) = c
      BY <3>1
    <3>3. ListsExact /\ cur \in 1 .. n /\ pool' = pool \cup {c} /\ executing' = 0
      BY <1>1, <1>2, <1>5, <2>7
    <3> QED  BY <2>2, <2>3, <3>1, <3>2, <3>3, ThreadGone
  <2> QED  BY <2>5, <2>6, <2>7 DEF ListsInv
<1>7. CASE size # 1
  <2>1. threads' = [threads EXCEPT ![cur] = erased] /\ currentThread' = cur + 1
    BY <1>2, <1>4, <1>7
  <2>2. threads' \in Seq(ThreadRecord) /\ Len(threads') = n
        /\ \A t \in 1 .. n : threads'[t] = IF t = cur THEN erased ELSE threads[t]
    BY <1>1, <1>3, <2>1, ExceptSeq
  <2>3. ListsTyped'
    BY <1>1, <1>2, <2>1, <2>2 DEF ListsInv, ListsTyped
  <2>4. CurrentPlaces'
    BY SMTT(30), <1>1, <1>2, <1>3, <1>7, <2>2 DEF ListsInv, CurrentPlaces
  <2>5. ASSUME ~early' PROVE ListsExact'
    <3>1. \A i \in 1 .. size - 1 : erased.coRoutines[i] = thread.coRoutines[Shift(i, e)]
      BY <1>1, <1>5, <2>5, ErasedProperties
    <3>2. At(cur, e) = c
      BY <1>1 DEF At, Thread
    <3>3. ListsExact /\ pool' = pool \cup {At(cur, e)} /\ executing' = 0
      BY <1>2, <1>5, <2>5, <3>2
    <3>4. SlotTaken(n, cur, size, e)
      BY <1>1, <1>3, <2>2, <3>1 DEF SlotTaken
    <3> QED  BY <1>1, <3>3, <3>4, SlotGone
  <2> QED  BY <2>3, <2>4, <2>5 DEF ListsInv
<1> QED  BY <1>6, <1>7

LEMMA YieldedProperties ==
  ASSUME NEW thread \in ThreadRecord, thread.current \in 1 .. Len(thread.coRoutines)
  PROVE  /\ Yielded(thread) \in ThreadRecord
         /\ Yielded(thread).coRoutines = thread.coRoutines
         /\ Yielded(thread).current \in 1 .. Len(thread.coRoutines)
<1>1. thread.coRoutines \in Seq(Slot) /\ Len(thread.coRoutines) \in Nat
  BY LenProperties DEF ThreadRecord
<1> PICK n \in Nat, pos \in Nat : n = Len(thread.coRoutines) /\ pos = thread.current
  BY <1>1
<1>2. pos \in 1 .. n /\ NextOf(thread) = IF pos >= n THEN 1 ELSE pos + 1
  BY DEF NextOf
<1>3. NextOf(thread) \in 1 .. n
  BY <1>2
<1>4. Yielded(thread) = [thread EXCEPT !.current = NextOf(thread)]
  BY DEF Yielded
<1> QED  BY <1>3, <1>4 DEF ThreadRecord

LEMMA ScriptEndsListsInv ==
  ASSUME ListsInv, ScriptEnds \/ ScriptYieldsAborted
  PROVE  ListsInv'
<1>1. Running
  BY DEF ScriptEnds, ScriptYieldsAborted
<1> PICK thread \in ThreadRecord : thread = Thread
  BY <1>1, RunningThread
<1>2. thread.current \in 1 .. Len(thread.coRoutines) /\ early \in BOOLEAN
  BY <1>1, RunningThread DEF ListsInv, ListsTyped
<1>3. early \/ thread.current = executing
  BY <1>1 DEF ListsInv, ListsExact, Running
<1>4. CASE ScriptEnds
  <2>1. Ends(thread) /\ early' = early
    BY <1>4 DEF ScriptEnds
  <2>2. early' \in BOOLEAN /\ (early' \/ (~early /\ thread.current = executing))
    BY <1>2, <1>3, <2>1
  <2> QED  BY <1>1, <1>2, <2>1, <2>2, EndsListsInv
<1>5. CASE ScriptYieldsAborted
  <2> PICK yielded \in ThreadRecord :
        /\ yielded = Yielded(Thread) /\ yielded.coRoutines = Thread.coRoutines
        /\ yielded.current \in 1 .. Len(yielded.coRoutines)
    BY <1>2, YieldedProperties
  <2>1. Ends(yielded) /\ early' = (early \/ yielded.current # executing)
    BY <1>5 DEF ScriptYieldsAborted, Passed
  <2>2. early' \in BOOLEAN /\ (early' \/ (~early /\ yielded.current = executing))
    BY <1>2, <2>1
  <2> QED  BY <1>1, <2>1, <2>2, EndsListsInv
<1> QED  BY <1>4, <1>5

LEMMA ScriptYieldsListsInv ==
  ASSUME ListsInv, ScriptYields \/ ScriptYieldsNested
  PROVE  ListsInv'
<1>1. Running
  BY DEF ScriptYields, ScriptYieldsNested
<1> PICK n \in Nat, cur \in Nat, e \in Nat :
      n = Len(threads) /\ cur = currentThread /\ e = executing
  BY <1>1, RunningThread DEF ListsInv, ListsTyped
<1> PICK thread \in ThreadRecord : thread = Thread
  BY <1>1, RunningThread
<1>2. /\ cur \in 1 .. n /\ e \in 1 .. Len(thread.coRoutines) /\ e # 0
      /\ thread = threads[cur] /\ thread.current \in 1 .. Len(thread.coRoutines)
      /\ thread.coRoutines[e] \in Contexts
      /\ threads \in Seq(ThreadRecord) /\ early \in BOOLEAN
  BY <1>1, RunningThread DEF ListsInv, ListsTyped, Thread, Ctx, Running
<1> PICK yielded \in ThreadRecord :
      /\ yielded = Yielded(Thread) /\ yielded.coRoutines = thread.coRoutines
      /\ yielded.current \in 1 .. Len(thread.coRoutines)
  BY <1>2, YieldedProperties
<1>3. threads' = [threads EXCEPT ![cur] = yielded] /\ pool' = pool /\ time' = time
  BY DEF ScriptYields, ScriptYieldsNested, Suspended, Thread
<1>4. threads' \in Seq(ThreadRecord) /\ Len(threads') = n
      /\ \A t \in 1 .. n : threads'[t] = IF t = cur THEN yielded ELSE threads[t]
  <2>1. threads \in Seq(ThreadRecord) /\ cur \in 1 .. Len(threads)
    BY <1>2
  <2> QED  BY <1>3, <2>1, ExceptSeq
<1>5. \A t \in 1 .. Len(threads) : threads'[t].coRoutines = threads[t].coRoutines
  BY <1>2, <1>4
<1>6. CASE ScriptYields
  <2>1. executing' = 0 /\ currentThread' = cur + 1 /\ early' = early
    BY <1>6 DEF ScriptYields, Suspended
  <2>2. ListsTyped'
    BY <1>2, <1>3, <1>4, <2>1 DEF ListsInv, ListsTyped
  <2>3. CurrentPlaces'
    BY <1>2, <1>4, <2>1 DEF ListsInv, CurrentPlaces
  <2>4. ListsExact => ListsExact'
    BY <1>3, <1>4, <1>5, <2>1, ListsKept
  <2> QED  BY <2>1, <2>2, <2>3, <2>4 DEF ListsInv
<1>7. CASE ScriptYieldsNested
  <2>1. executing' = e /\ currentThread' = cur /\ early' = (early \/ yielded.current # e)
    BY <1>7 DEF ScriptYieldsNested, Passed
  <2>2. Thread' = yielded
    BY <1>2, <1>4, <2>1 DEF Thread
  <2>3. ListsTyped'
    BY <1>2, <1>3, <1>4, <2>1 DEF ListsInv, ListsTyped
  <2>4. Ctx' \in Contexts /\ executing' \in 1 .. Len(Thread'.coRoutines)
    BY <1>2, <2>1, <2>2 DEF Ctx
  <2>5. CurrentPlaces'
    BY <1>2, <1>4, <2>1, <2>2, <2>4 DEF ListsInv, CurrentPlaces
  <2>6. ASSUME ~early' PROVE ListsExact'
    <3>1. ListsExact /\ executing' = Thread.current'
      BY <1>2, <2>1, <2>2, <2>6 DEF ListsInv
    <3> QED  BY <1>3, <1>4, <1>5, <3>1, ListsKept
  <2> QED  BY <2>3, <2>5, <2>6 DEF ListsInv
<1> QED  BY <1>6, <1>7

LEMMA ScriptSleepsListsInv ==
  ASSUME ListsInv, NEW ms \in Delays, ScriptSleeps(ms)
  PROVE  ListsInv'
<1>1. Running /\ time.now + ms \in Nat
  BY CoroutineAssumption DEF ScriptSleeps, ListsInv, ListsTyped
<1> PICK n \in Nat, cur \in Nat : n = Len(threads) /\ cur = currentThread
  BY <1>1, RunningThread DEF ListsInv, ListsTyped
<1> PICK until, found : until \in Nat /\ until = time.now + ms /\ found = Found
  BY <1>1
<1>2. /\ cur \in 1 .. n /\ threads \in Seq(ThreadRecord)
      /\ DOMAIN threads = 1 .. n /\ \A t \in 1 .. n : threads[t] \in ThreadRecord
  BY <1>1, RunningThread, LenProperties, ElementOfSeq DEF ListsInv, ListsTyped
<1>3. /\ threads' = [t \in 1 .. n |-> IF t \in found THEN [threads[t] EXCEPT !.sleepUntil = until]
                                      ELSE threads[t]]
      /\ pool' = pool /\ time' = time /\ early' = early
      /\ executing' = 0 /\ currentThread' = cur + 1
  BY <1>2 DEF ScriptSleeps, Suspended
<1>4. \A t \in 1 .. n : [threads[t] EXCEPT !.sleepUntil = until] \in ThreadRecord
        /\ [threads[t] EXCEPT !.sleepUntil = until].coRoutines = threads[t].coRoutines
        /\ [threads[t] EXCEPT !.sleepUntil = until].current = threads[t].current
  BY <1>2 DEF ThreadRecord
<1>5. /\ \A t \in 1 .. n : /\ threads'[t] \in ThreadRecord
                           /\ threads'[t].coRoutines = threads[t].coRoutines
                           /\ threads'[t].current = threads[t].current
      /\ threads' = [t \in 1 .. n |-> threads'[t]]
  BY <1>2, <1>3, <1>4
<1>6. threads' \in Seq(ThreadRecord) /\ Len(threads') = n
  BY <1>5
<1>7. ListsTyped'
  BY <1>2, <1>3, <1>6 DEF ListsInv, ListsTyped
<1>8. CurrentPlaces'
  BY <1>3, <1>5, <1>6 DEF ListsInv, CurrentPlaces
<1>9. ListsExact => ListsExact'
  BY <1>3, <1>5, <1>6, ListsKept
<1> QED  BY <1>3, <1>7, <1>8, <1>9 DEF ListsInv

(* Unless it comes early, the new co-routine joins the thread of the one   *)
(* that creates it and no other.                                           *)
LEMMA FoundAlone ==
  ASSUME ListsInv, Running, ListsExact
  PROVE  Found = {currentThread}
<1>1. /\ currentThread \in 1 .. Len(threads) /\ executing = Thread.current
      /\ DOMAIN threads = 1 .. Len(threads) /\ Len(threads) \in Nat
      /\ \A t \in 1 .. Len(threads) : threads[t].current \in Nat
      /\ \A t \in 1 .. Len(threads) : Held(t, threads[t].current)
  <2>1. currentThread \in 1 .. Len(threads) /\ executing = Thread.current /\ Len(threads) \in Nat
    BY RunningThread DEF ListsExact, Running
  <2>2. DOMAIN threads = 1 .. Len(threads)
    BY LenProperties DEF ListsInv, ListsTyped
  <2>3. \A t \in 1 .. Len(threads) : threads[t].current \in Nat
    <3>1. \A t \in 1 .. Len(threads) : threads[t] \in ThreadRecord
      BY ElementOfSeq DEF ListsInv, ListsTyped
    <3> QED  BY <3>1 DEF ThreadRecord
  <2>4. \A t \in 1 .. Len(threads) : Held(t, threads[t].current)
    BY DEF ListsInv, CurrentPlaces, Held
  <2> QED  BY <2>1, <2>2, <2>3, <2>4
<1>2. Ctx = At(currentThread, threads[currentThread].current)
  BY <1>1 DEF Ctx, Thread, At
<1>3. ASSUME NEW t \in 1 .. Len(threads), At(t, threads[t].current) = Ctx PROVE t = currentThread
  <2>1. t \in Nat /\ currentThread \in Nat
    BY <1>1
  <2> QED  BY <1>1, <1>2, <1>3, <2>1 DEF ListsExact, Apart
<1> QED  BY <1>1, <1>2, <1>3 DEF Found, At

(* Context c appended to the list of thread pos. *)
SlotAdded(n, pos, size, c) ==
  /\ n = Len(threads) /\ Len(threads') = n
  /\ size = Len(threads[pos].coRoutines) /\ Len(threads'[pos].coRoutines) = size + 1
  /\ \A t \in 1 .. n : t # pos => threads'[t] = threads[t]
  /\ \A i \in 1 .. size : threads'[pos].coRoutines[i] = threads[pos].coRoutines[i]
  /\ threads'[pos].coRoutines[size + 1] = c

LEMMA SlotNew ==
  ASSUME ListsExact, NEW n \in Nat, NEW pos \in 1 .. n, NEW size \in Nat, NEW c \in pool,
         c \in Contexts,
         pool' = pool \ {c}, SlotAdded(n, pos, size, c),
         executing' # 0 => executing' = Thread.current'
  PROVE  ListsExact'
<1>1. ASSUME NEW t \in Nat, NEW i \in Nat, Held(t, i)
      PROVE  /\ Held(t, i)' /\ At(t, i)' = At(t, i) /\ At(t, i) # c
             /\ ~(t = pos /\ i = size + 1)
  <2>1. CASE t # pos
    BY <1>1, <2>1 DEF Held, At, SlotAdded, ListsExact, Apart
  <2>2. CASE t = pos
    <3>1. i \in 1 .. size /\ pos \in 1 .. Len(threads')
      BY <1>1, <2>2 DEF Held, SlotAdded
    <3>2. Held(t, i)' /\ At(t, i)' = At(t, i)
      BY <2>2, <3>1 DEF Held, At, SlotAdded
    <3>3. At(t, i) # c
      BY <1>1 DEF ListsExact, Apart
    <3> QED  BY <3>1, <3>2, <3>3
  <2> QED  BY <2>1, <2>2
<1>2. size + 1 \in Nat /\ pos \in Nat /\ Held(pos, size + 1)' /\ At(pos, size + 1)' = c
  BY DEF Held, At, SlotAdded
<1>3. ASSUME NEW t \in Nat, NEW i \in Nat, Held(t, i)'
      PROVE  Held(t, i) \/ (t = pos /\ i = size + 1)
  <2>1. CASE t # pos
    BY <1>3, <2>1 DEF Held, SlotAdded
  <2>2. CASE t = pos
    <3>1. i \in 1 .. size + 1
      BY <1>3, <2>2 DEF Held, SlotAdded
    <3> QED  BY <2>2, <3>1 DEF Held, SlotAdded
  <2> QED  BY <2>1, <2>2
<1>4. Apart'
  <2>1. \A t, i \in Nat : Held(t, i)' => At(t, i)' \in Contexts \ pool'
    BY <1>1, <1>2, <1>3 DEF ListsExact, Apart
  <2>2. ASSUME NEW t \in Nat, NEW i \in Nat, NEW u \in Nat, NEW j \in Nat,
               Held(t, i)', Held(u, j)', At(t, i)' = At(u, j)'
        PROVE  t = u /\ i = j
    <3>1. CASE Held(t, i) /\ Held(u, j)
      BY <1>1, <2>2, <3>1 DEF ListsExact, Apart
    <3>2. CASE ~Held(t, i)
      BY <1>1, <1>2, <1>3, <2>2, <3>2
    <3>3. CASE ~Held(u, j)
      BY <1>1, <1>2, <1>3, <2>2, <3>3
    <3> QED  BY <3>1, <3>2, <3>3
  <2> QED  BY <2>1, <2>2 DEF Apart
<1>5. Complete'
  <2> SUFFICES ASSUME NEW d \in Contexts \ pool'
               PROVE  \E t, i \in Nat : Held(t, i)' /\ At(t, i)' = d
    BY DEF Complete
  <2>1. CASE d = c
    BY <1>2, <2>1
  <2>2. CASE d # c
    <3>1. PICK t \in Nat, i \in Nat : Held(t, i) /\ At(t, i) = d
      BY <2>2 DEF ListsExact, Complete
    <3> QED  BY <1>1, <3>1
  <2> QED  BY <2>1, <2>2
<1> QED  BY <1>4, <1>5 DEF ListsExact

LEMMA ScriptCreatesListsInv ==
  ASSUME ListsInv, NEW c \in Contexts, ScriptCreates(c)
  PROVE  ListsInv'
<1>1. Running
  BY DEF ScriptCreates
<1> PICK n \in Nat, cur \in Nat, e \in Nat :
      n = Len(threads) /\ cur = currentThread /\ e = executing
  BY <1>1, RunningThread DEF ListsInv, ListsTyped
<1> PICK found : found = Found
  OBVIOUS
<1>2. /\ cur \in 1 .. n /\ threads \in Seq(ThreadRecord)
      /\ DOMAIN threads = 1 .. n /\ \A t \in 1 .. n : threads[t] \in ThreadRecord
  BY <1>1, RunningThread, LenProperties, ElementOfSeq DEF ListsInv, ListsTyped
<1>3. /\ threads' = [t \in 1 .. n |-> IF t \in found THEN [threads[t] EXCEPT !.coRoutines = Append(@, c)]
                                      ELSE threads[t]]
      /\ c \in pool /\ pool' = pool \ {c} /\ time' = time /\ early' = early
      /\ executing' = e /\ currentThread' = cur
  BY <1>2 DEF ScriptCreates
<1>4. ASSUME NEW t \in 1 .. n
      PROVE  /\ threads'[t] \in ThreadRecord /\ threads'[t].current = threads[t].current
             /\ Len(threads[t].coRoutines) \in Nat
             /\ Len(threads'[t].coRoutines) = IF t \in found THEN Len(threads[t].coRoutines) + 1
                                              ELSE Len(threads[t].coRoutines)
             /\ \A i \in 1 .. Len(threads[t].coRoutines) :
                  threads'[t].coRoutines[i] = threads[t].coRoutines[i]
             /\ t \in found => threads'[t].coRoutines[Len(threads[t].coRoutines) + 1] = c
  <2>1. threads[t] \in ThreadRecord /\ threads[t].coRoutines \in Seq(Slot) /\ c \in Slot
    BY <1>2 DEF ThreadRecord, Slot
  <2> PICK list \in Seq(Slot) : list = threads[t].coRoutines
    BY <2>1
  <2>2. /\ Append(list, c) \in Seq(Slot) /\ Len(list) \in Nat
        /\ Len(Append(list, c)) = Len(list) + 1
        /\ \A i \in 1 .. Len(list) : Append(list, c)[i] = list[i]
        /\ Append(list, c)[Len(list) + 1] = c
    BY <2>1, AppendProperties, LenProperties
  <2>3. CASE t \in found
    <3>1. threads'[t] = [threads[t] EXCEPT !.coRoutines = Append(list, c)]
      BY <1>3, <2>3
    <3>2. /\ threads'[t] \in ThreadRecord /\ threads'[t].current = threads[t].current
          /\ threads'[t].coRoutines = Append(list, c)
      BY <2>1, <2>2, <3>1 DEF ThreadRecord
    <3> QED  BY <2>2, <2>3, <3>2
  <2>4. CASE t \notin found
    <3>1. threads'[t] = threads[t]
      BY <1>3, <2>4
    <3> QED  BY <2>1, <2>2, <2>4, <3>1
  <2> QED  BY <2>3, <2>4
<1>5. threads' \in Seq(ThreadRecord) /\ Len(threads') = n
  <2>1. threads' = [t \in 1 .. n |-> threads'[t]]
    BY <1>3
  <2> QED  BY <1>4, <2>1
<1>6. ListsTyped'
  BY <1>2, <1>3, <1>5 DEF ListsInv, ListsTyped
<1>7. \A t \in 1 .. n : threads'[t].current \in 1 .. Len(threads'[t].coRoutines)
  <2> TAKE t \in 1 .. n
  <2> PICK size \in Nat : size = Len(threads[t].coRoutines)
    BY <1>4
  <2>1. threads[t].current \in 1 .. size
    BY DEF ListsInv, CurrentPlaces
  <2>2. Len(threads'[t].coRoutines) \in {size, size + 1} /\ threads'[t].current = threads[t].current
    BY <1>4
  <2> QED  BY <2>1, <2>2
<1>8. executing' \in 1 .. Len(Thread'.coRoutines) /\ Ctx' \in Contexts
  <2> PICK size \in Nat : size = Len(threads[cur].coRoutines)
    BY <1>2, <1>4
  <2>1. e \in 1 .. size /\ threads[cur].coRoutines[e] \in Contexts
    BY <1>1, RunningThread DEF Thread, Ctx
  <2>2. Len(threads'[cur].coRoutines) \in {size, size + 1}
        /\ threads'[cur].coRoutines[e] = threads[cur].coRoutines[e]
    BY <1>2, <1>4, <2>1
  <2>3. Thread' = threads'[cur] /\ Ctx' = threads'[cur].coRoutines[e]
    BY <1>3 DEF Thread, Ctx
  <2> QED  BY <1>3, <2>1, <2>2, <2>3
<1>9. CurrentPlaces'
  BY <1>2, <1>3, <1>5, <1>7, <1>8 DEF CurrentPlaces
<1>10. ASSUME ListsExact PROVE ListsExact'
  <2>1. found = {cur}
    BY <1>1, <1>10, FoundAlone
  <2> PICK size \in Nat : size = Len(threads[cur].coRoutines)
    BY <1>2, <1>4
  <2>2. \A t \in 1 .. n : t # cur => threads'[t] = threads[t]
    BY <1>3, <2>1
  <2>3. SlotAdded(n, cur, size, c)
    BY <1>2, <1>4, <1>5, <2>1, <2>2 DEF SlotAdded
  <2>4. executing' = Thread.current'
    BY <1>1, <1>2, <1>3, <1>4, <1>10 DEF ListsExact, Running, Thread
  <2> QED  BY <1>2, <1>3, <1>10, <2>3, <2>4, SlotNew
<1> QED  BY <1>3, <1>6, <1>9, <1>10 DEF ListsInv

-----------------------------------------------------------------------------
LEMMA NextListsInv == ListsInv /\ [CoroutineNext]_coroutineVars => ListsInv'
<1> SUFFICES ASSUME ListsInv, [CoroutineNext]_coroutineVars PROVE ListsInv'
  OBVIOUS
<1>1. CASE UNCHANGED coroutineVars
  <2>1. ListsTyped' /\ CurrentPlaces'
    BY <1>1 DEF coroutineVars, ListsInv, ListsTyped, CurrentPlaces, Thread, Ctx
  <2>2. ListsExact => ListsExact'
    BY <1>1, ListsKept DEF coroutineVars, ListsExact, Thread
  <2> QED  BY <1>1, <2>1, <2>2 DEF coroutineVars, ListsInv
<1>2. CASE CoroutineNext
  BY <1>2, GoOnListsInv, ScriptEndsListsInv, ScriptYieldsListsInv, AbortAllListsInv,
     AddContextListsInv,
     ScriptCreatesListsInv, ScriptSleepsListsInv
  DEF CoroutineNext, GivesUp
<1> QED  BY <1>1, <1>2

LEMMA ListsInvContextsAccounted == ListsInv => ContextsAccounted
<1> SUFFICES ASSUME ListsInv PROVE ContextsAccounted
  OBVIOUS
<1>1. /\ DOMAIN threads = 1 .. Len(threads) /\ Len(threads) \in Nat
      /\ \A t \in 1 .. Len(threads) : threads[t].coRoutines \in Seq(Slot)
      /\ \A t \in 1 .. Len(threads) :
           DOMAIN threads[t].coRoutines = 1 .. Len(threads[t].coRoutines)
  <2>1. DOMAIN threads = 1 .. Len(threads) /\ Len(threads) \in Nat
    BY LenProperties DEF ListsInv, ListsTyped
  <2>2. \A t \in 1 .. Len(threads) : threads[t].coRoutines \in Seq(Slot)
    <3>1. \A t \in 1 .. Len(threads) : threads[t] \in ThreadRecord
      BY ElementOfSeq DEF ListsInv, ListsTyped
    <3> QED  BY <3>1 DEF ThreadRecord
  <2> QED  BY <2>1, <2>2, LenProperties
<1>2. CoroutineTypeOK
  BY <1>1 DEF CoroutineTypeOK, ListsInv, ListsTyped, Slot
<1>3. ASSUME ListsExact, NEW c \in Contexts
      PROVE  LET slots == UNION {{t} \X {i \in DOMAIN threads[t].coRoutines :
                                           threads[t].coRoutines[i] = c} : t \in DOMAIN threads}
             IN IF c \in pool THEN slots = {} ELSE \E s \in slots : slots = {s}
  <2> DEFINE slots == UNION {{t} \X {i \in DOMAIN threads[t].coRoutines :
                                       threads[t].coRoutines[i] = c} : t \in DOMAIN threads}
  <2>1. \A s : s \in slots <=> \E t, i \in Nat : Held(t, i) /\ At(t, i) = c /\ s = <<t, i>>
    <3> TAKE s
    <3>1. ASSUME s \in slots PROVE \E t, i \in Nat : Held(t, i) /\ At(t, i) = c /\ s = <<t, i>>
      <4>1. PICK t \in DOMAIN threads : s \in {t} \X {i \in DOMAIN threads[t].coRoutines :
                                                        threads[t].coRoutines[i] = c}
        BY <3>1
      <4>2. PICK i \in DOMAIN threads[t].coRoutines : threads[t].coRoutines[i] = c /\ s = <<t, i>>
        BY <4>1
      <4>3. t \in Nat /\ i \in Nat /\ Held(t, i) /\ At(t, i) = c
        BY <1>1, <4>2 DEF Held, At
      <4> QED  BY <4>2, <4>3
    <3>2. ASSUME NEW t \in Nat, NEW i \in Nat, Held(t, i), At(t, i) = c, s = <<t, i>>
          PROVE  s \in slots
      <4>1. t \in DOMAIN threads /\ i \in {k \in DOMAIN threads[t].coRoutines :
                                             threads[t].coRoutines[k] = c}
        BY <1>1, <3>2 DEF Held, At
      <4> QED  BY <3>2, <4>1
    <3> QED  BY <3>1, <3>2
  <2> HIDE DEF slots
  <2>2. CASE c \in pool
    <3>1. \A t, i \in Nat : ~(Held(t, i) /\ At(t, i) = c)
      BY <1>3, <2>2 DEF ListsExact, Apart
    <3>2. slots = {}
      BY <2>1, <3>1
    <3> QED  BY <2>2, <3>2 DEF slots
  <2>3. CASE c \notin pool
    <3>1. PICK t \in Nat, i \in Nat : Held(t, i) /\ At(t, i) = c
      BY <1>3, <2>3 DEF ListsExact, Complete
    <3>2. \A u, j \in Nat : Held(u, j) /\ At(u, j) = c => u = t /\ j = i
      BY <1>3, <3>1 DEF ListsExact, Apart
    <3>3. <<t, i>> \in slots
      BY <2>1, <3>1
    <3>4. slots = {<<t, i>>}
      BY <2>1, <3>2, <3>3
    <3> QED  BY <2>3, <3>3, <3>4 DEF slots
  <2> QED  BY <2>2, <2>3 DEF slots
<1>4. ListsExact =>
        /\ \A t \in DOMAIN threads : threads[t].current \in DOMAIN threads[t].coRoutines
        /\ executing # 0 => executing = Thread.current
  BY <1>1 DEF ListsInv, CurrentPlaces, ListsExact
<1> QED  BY <1>2, <1>3, <1>4 DEF ContextsAccounted, ListsInv

(* However scripts yield, sleep, end, are aborted and create one another,  *)
(* no context is lost by the manager, listed twice, or listed and given    *)
(* back, and every thread has a current co-routine, the one that executes  *)
(* (CContextMgr::ExecuteScripts and what scripts call).                    *)
THEOREM NoContextLost == CoroutineSpec => []ContextsAccounted
<1> QED  BY InitListsInv, NextListsInv, ListsInvContextsAccounted, PTL DEF CoroutineSpec

=============================================================================
