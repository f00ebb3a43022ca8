---------------------------- MODULE ScriptWeakRef ----------------------------
(***************************************************************************)
(* One script object, the handles and weak references several threads have *)
(* to it, and how it ends: asCScriptObject::Release and GetWeakRefFlag,    *)
(* asCLockableSharedBool (source/as_scriptobject.cpp) and CScriptWeakRef   *)
(* (add_on/weakref), in the steps a thread can be interrupted between.     *)
(* The collector of objects is not there.                                  *)
(***************************************************************************)
EXTENDS Integers, Sequences

CONSTANTS Holders, Nobody, MaxFlags  \* bound: flags created
ASSUME WeakRefAssumption == Nobody \notin Holders

VARIABLES
  object,   \* reference count, whether its destructor was called and it is gone
  weakRefFlag, \* the object's flag: an index of flags, or 0
  flags,    \* the values of the flags created
  locked,   \* who has the flag locked
  strong,   \* who has a handle
  weak,     \* the flag of the weak reference each has, or 0
  doing,    \* where each is
  overlapped \* history: two have been in Release at once

weakVars == <<object, weakRefFlag, flags, locked, strong, weak, doing, overlapped>>

Goes(t, from, to) == doing[t] = from /\ doing' = [doing EXCEPT ![t] = to]
Releasing == {"release", "setFlag", "checkDestruct", "decrement"}

(* A handle is handed to another thread. *)
Share(t, u) ==
  /\ doing[t] = "idle" /\ doing[u] = "idle"
  /\ t \in strong /\ u \notin strong
  /\ object' = [object EXCEPT !.refCount = @ + 1]
  /\ strong' = strong \cup {u}
  /\ UNCHANGED <<weakRefFlag, flags, locked, weak, doing, overlapped>>

-----------------------------------------------------------------------------
(* Release, from the handle that is given up on.                           *)
Release(t) ==
  /\ t \in strong
  /\ Goes(t, "idle", "release")
  /\ strong' = strong \ {t}
  /\ overlapped' = (overlapped \/ \E u \in Holders : doing[u] \in Releasing)
  /\ UNCHANGED <<object, weakRefFlag, flags, locked, weak>>

CheckFlag(t) ==
  /\ Goes(t, "release", IF object.refCount = 1 /\ weakRefFlag # 0 THEN "setFlag"
                        ELSE "checkDestruct")
  /\ UNCHANGED <<object, weakRefFlag, flags, locked, strong, weak, overlapped>>

(* Set locks the flag.                                                     *)
SetFlag(t) ==
  /\ Goes(t, "setFlag", "checkDestruct")
  /\ locked = Nobody
  /\ flags' = [flags EXCEPT ![weakRefFlag] = TRUE]
  /\ UNCHANGED <<object, weakRefFlag, locked, strong, weak, overlapped>>

CheckDestruct(t) ==
  /\ Goes(t, "checkDestruct", "decrement")
  /\ object' = [object EXCEPT !.destructed = @ \/ object.refCount = 1]
  /\ UNCHANGED <<weakRefFlag, flags, locked, strong, weak, overlapped>>

Decrement(t) ==
  /\ Goes(t, "decrement", "idle")
  /\ object' = [object EXCEPT !.refCount = @ - 1, !.gone = @ \/ object.refCount = 1]
  /\ UNCHANGED <<weakRefFlag, flags, locked, strong, weak, overlapped>>

-----------------------------------------------------------------------------
(* CScriptWeakRef of a handle: GetWeakRefFlag creates the flag under the   *)
(* exclusive lock, and looks again once it has that.                       *)
Hold(t) ==
  /\ t \in strong /\ weak[t] = 0
  /\ IF weakRefFlag = 0 THEN Goes(t, "idle", "create") /\ UNCHANGED weak
     ELSE Goes(t, "idle", "idle") /\ weak' = [weak EXCEPT ![t] = weakRefFlag]
  /\ UNCHANGED <<object, weakRefFlag, flags, locked, strong, overlapped>>

NewFlag(t) ==
  /\ Len(flags) < MaxFlags
  /\ flags' = Append(flags, FALSE)
  /\ weakRefFlag' = Len(flags) + 1
  /\ weak' = [weak EXCEPT ![t] = Len(flags) + 1]

(* Slip: it does not look again. *)
Create_unchecked(t) ==
  /\ Goes(t, "create", "idle")
  /\ NewFlag(t)
  /\ UNCHANGED <<object, locked, strong, overlapped>>
Create(t) ==
  /\ Goes(t, "create", "idle")
  /\ IF weakRefFlag = 0 THEN NewFlag(t)
     ELSE weak' = [weak EXCEPT ![t] = weakRefFlag] /\ UNCHANGED <<flags, weakRefFlag>>
  /\ UNCHANGED <<object, locked, strong, overlapped>>

(* CScriptWeakRef::Get, with the flag locked.                              *)
Lock(t) ==
  /\ weak[t] # 0 /\ t \notin strong
  /\ Goes(t, "idle", "get")
  /\ locked = Nobody /\ locked' = t
  /\ UNCHANGED <<object, weakRefFlag, flags, strong, weak, overlapped>>

Get(t) ==
  /\ Goes(t, "get", "unlock")
  /\ IF flags[weak[t]] THEN UNCHANGED <<object, strong>>
     ELSE /\ object' = [object EXCEPT !.refCount = @ + 1]
          /\ strong' = strong \cup {t}
  /\ UNCHANGED <<weakRefFlag, flags, locked, weak, overlapped>>

Unlock(t) ==
  /\ Goes(t, "unlock", "idle")
  /\ locked' = Nobody
  /\ UNCHANGED <<object, weakRefFlag, flags, strong, weak, overlapped>>

WeakRefInit ==
  /\ \E t \in Holders : strong = {t}
  /\ object = [refCount |-> 1, destructed |-> FALSE, gone |-> FALSE]
  /\ weakRefFlag = 0 /\ flags = <<>> /\ locked = Nobody
  /\ weak = [t \in Holders |-> 0]
  /\ doing = [t \in Holders |-> "idle"]
  /\ overlapped = FALSE

WeakRefNext ==
  \E t \in Holders :
    \/ \E u \in Holders : Share(t, u)
    \/ Release(t) \/ CheckFlag(t) \/ SetFlag(t) \/ CheckDestruct(t) \/ Decrement(t)
    \/ Hold(t) \/ Create(t) \/ Lock(t) \/ Get(t) \/ Unlock(t)

WeakRefSpec == WeakRefInit /\ [][WeakRefNext]_weakVars

-----------------------------------------------------------------------------
WeakRefTypeOK ==
  /\ object.refCount \in Nat
  /\ weakRefFlag \in 0 .. Len(flags) /\ Len(flags) <= MaxFlags
  /\ locked \in Holders \cup {Nobody}
  /\ strong \subseteq Holders
  /\ weak \in [Holders -> 0 .. MaxFlags]

(* Unless two threads give up handles at the same time, the object ends in *)
(* order, whatever weak references are followed meanwhile: its destructor  *)
(* was called, and no weak reference, all of which share its one flag,     *)
(* leads to it.                                                            *)
WeakRefsEnd ==
  /\ \A t \in Holders : weak[t] # 0 => weak[t] = weakRefFlag
  /\ object.gone /\ ~overlapped =>
       object.destructed /\ strong = {} /\ (weakRefFlag # 0 => flags[weakRefFlag])
=============================================================================
