----------------------- MODULE M68KBreakpointsProofs -----------------------
(***************************************************************************)
(* Proofs about the breakpoint table, for an array of any length: the      *)
(* types and the uniqueness of identifiers form one inductive invariant,   *)
(* and from it every step of the table is a step of BreakpointSet.         *)
(***************************************************************************)
EXTENDS M68KBreakpoints, FiniteSetTheorems, TLAPS

Inv == TypeOK /\ UniqueIds

(* Identifiers being unique, the loop of m68k_del_breakpoint stops at the  *)
(* only slot that carries the identifier.                                  *)
LEMMA FirstWithIdIsTheOne ==
  ASSUME Inv, NEW id, HasId(id)
  PROVE  /\ FirstWithId(id) \in 0 .. s_breakpointCount - 1
         /\ s_breakpoints[FirstWithId(id)].id = id
         /\ \A j \in 0 .. s_breakpointCount - 1 :
              s_breakpoints[j].id = id => j = FirstWithId(id)
<1>1. PICK i \in 0 .. s_breakpointCount - 1 : s_breakpoints[i].id = id
  BY DEF HasId
<1>2. \A j \in 0 .. i - 1 : s_breakpoints[j].id # id
  BY <1>1 DEF Inv, TypeOK, UniqueIds
<1>3. \E k \in 0 .. s_breakpointCount - 1 :
        /\ s_breakpoints[k].id = id
        /\ \A j \in 0 .. k - 1 : s_breakpoints[j].id # id
  BY <1>1, <1>2
<1>4. /\ FirstWithId(id) \in 0 .. s_breakpointCount - 1
      /\ s_breakpoints[FirstWithId(id)].id = id
  BY <1>3 DEF FirstWithId
<1>5. QED
  BY <1>4 DEF Inv, UniqueIds

LEMMA InitInv == Init => Inv
<1> SUFFICES ASSUME Init PROVE Inv
  OBVIOUS
<1>1. 0 .. s_breakpointCount - 1 = {}
  BY DEF Init
<1>2. DOMAIN s_breakpoints = Slots
  BY DEF Init
<1>3. TypeOK
  <2>1. overrun \in BOOLEAN
    BY Zenon DEF Init
  <2>2. \A i \in 0 .. s_breakpointCount - 1 : s_breakpoints[i] \in M68KBreakpoint
    BY <1>1
  <2>3. s_breakpointCount \in 0 .. Capacity /\ s_breakpointId \in 0 .. MaxId /\ ret \in Int
    BY BreakpointAssumption DEF Init
  <2>4. QED
    BY <1>2, <2>1, <2>2, <2>3 DEF TypeOK
<1>4. UniqueIds
  BY <1>1 DEF UniqueIds
<1>5. QED
  BY <1>3, <1>4 DEF Inv

LEMMA AddResolvedInv ==
  ASSUME Inv, NEW loc \in Locations, NEW pc \in PCs, AddResolved(loc, pc)
  PROVE  Inv'
<1>0. s_breakpointCount \in Slots
  BY BreakpointAssumption DEF Inv, TypeOK, AddResolved, Slots
<1>1. \A i \in Slots : s_breakpoints'[i] =
        IF i = s_breakpointCount THEN [loc |-> loc, pc |-> pc, id |-> s_breakpointId]
                                 ELSE s_breakpoints[i]
  BY DEF Inv, TypeOK, AddResolved
<1>2. TypeOK'
  <2>1. [loc |-> loc, pc |-> pc, id |-> s_breakpointId] \in M68KBreakpoint
    BY DEF Inv, TypeOK, M68KBreakpoint
  <2>2. \A i \in 0 .. s_breakpointCount' - 1 : s_breakpoints'[i] \in M68KBreakpoint
    BY <1>0, <1>1, <2>1, BreakpointAssumption DEF Inv, TypeOK, AddResolved, Slots
  <2>3. DOMAIN s_breakpoints' = Slots
    BY DEF Inv, TypeOK, AddResolved
  <2>4. QED
    BY <2>2, <2>3, BreakpointAssumption DEF Inv, TypeOK, AddResolved
<1>3. UniqueIds'
  <2>1. \A i \in 0 .. s_breakpointCount - 1 :
          s_breakpoints[i].id \in Int /\ s_breakpoints[i].id < s_breakpointId
    BY DEF Inv, TypeOK, UniqueIds, M68KBreakpoint
  <2>2. \A i \in 0 .. s_breakpointCount : s_breakpoints'[i].id =
          IF i = s_breakpointCount THEN s_breakpointId ELSE s_breakpoints[i].id
    BY <1>0, <1>1, BreakpointAssumption DEF Slots
  <2>3. /\ s_breakpointCount' = s_breakpointCount + 1
        /\ s_breakpointId' = s_breakpointId + 1
        /\ s_breakpointId \in Int /\ s_breakpointCount \in Nat
    BY BreakpointAssumption DEF Inv, TypeOK, AddResolved
  <2>4. QED
    BY <2>1, <2>2, <2>3 DEF Inv, UniqueIds
<1>4. QED
  BY <1>2, <1>3 DEF Inv

(* What deleting leaves in the slots that still count. *)
LEMMA DeleteSlots ==
  ASSUME Inv, NEW id, HasId(id), m68k_del_breakpoint(id)
  PROVE  /\ s_breakpointCount' = s_breakpointCount - 1
         /\ s_breakpointCount \in 1 .. Capacity
         /\ DOMAIN s_breakpoints' = Slots
         /\ \A i \in 0 .. s_breakpointCount - 1 : s_breakpoints'[i] =
              IF i = FirstWithId(id) THEN s_breakpoints[s_breakpointCount - 1]
                                     ELSE s_breakpoints[i]
<1>1. FirstWithId(id) \in 0 .. s_breakpointCount - 1
  BY FirstWithIdIsTheOne
<1>2. s_breakpoints' = [s_breakpoints EXCEPT
         ![FirstWithId(id)] = s_breakpoints[s_breakpointCount - 1]]
  BY DEF m68k_del_breakpoint
<1>3. \A i \in 0 .. s_breakpointCount - 1 : i \in DOMAIN s_breakpoints
  BY BreakpointAssumption DEF Inv, TypeOK, Slots
<1>4. s_breakpointCount' = s_breakpointCount - 1
  BY DEF m68k_del_breakpoint
<1>5. s_breakpointCount \in 1 .. Capacity
  BY <1>1, BreakpointAssumption DEF Inv, TypeOK
<1>6. QED
  BY <1>1, <1>2, <1>3, <1>4, <1>5 DEF Inv, TypeOK

LEMMA DeleteInv ==
  ASSUME Inv, NEW id \in 0 .. MaxId, m68k_del_breakpoint(id)
  PROVE  Inv'
<1>1. CASE HasId(id)
  <2>1. TypeOK'
    BY <1>1, DeleteSlots, BreakpointAssumption
    DEF Inv, TypeOK, m68k_del_breakpoint
  <2>2. \A i \in 0 .. s_breakpointCount' - 1 :
          /\ s_breakpoints'[i].id < s_breakpointId'
          /\ \A j \in 0 .. s_breakpointCount' - 1 :
               s_breakpoints'[i].id = s_breakpoints'[j].id => i = j
    BY <1>1, DeleteSlots, BreakpointAssumption
    DEF Inv, TypeOK, UniqueIds, m68k_del_breakpoint
  <2>3. QED
    BY <2>1, <2>2 DEF Inv, UniqueIds
<1>2. CASE ~HasId(id)
  BY <1>2 DEF Inv, TypeOK, UniqueIds, m68k_del_breakpoint
<1>3. QED
  BY <1>1, <1>2

LEMMA NextInv == Inv /\ [Next]_vars => Inv'
<1> SUFFICES ASSUME Inv, [Next]_vars PROVE Inv'
  OBVIOUS
<1>1. ASSUME NEW loc \in Locations, NEW resolved \in PCs \cup {NoPC},
             m68k_add_breakpoint(loc, resolved)
      PROVE  Inv'
  <2>1. CASE resolved \in PCs /\ AddResolved(loc, resolved)
    BY <2>1, AddResolvedInv
  <2>2. CASE AddPastEnd
    BY <2>2 DEF AddPastEnd, Inv, TypeOK, UniqueIds
  <2>3. CASE AddUnresolved
    BY <2>3 DEF AddUnresolved, tableVars, Inv, TypeOK, UniqueIds
  <2>4. QED
    BY <1>1, <2>1, <2>2, <2>3 DEF m68k_add_breakpoint
<1>2. ASSUME NEW id \in 0 .. MaxId, m68k_del_breakpoint(id)
      PROVE  Inv'
  BY <1>2, DeleteInv
<1>3. CASE UNCHANGED vars
  BY <1>3 DEF vars, Inv, TypeOK, UniqueIds
<1>4. QED
  BY <1>1, <1>2, <1>3 DEF Next

(* The table is well-formed in every reachable state, for every capacity:  *)
(* the count never passes the array unnoticed and each counted slot holds  *)
(* a breakpoint that was written.                                          *)
THEOREM TableTyped == Spec => []TypeOK
<1>1. Init => Inv
  BY InitInv
<1>2. Inv /\ [Next]_vars => Inv'
  BY NextInv
<1>3. Inv => TypeOK
  BY DEF Inv
<1>4. QED
  BY <1>1, <1>2, <1>3, PTL DEF Spec

(* No sequence of m68k_add_breakpoint and m68k_del_breakpoint calls gives  *)
(* two live breakpoints one identifier.                                    *)
THEOREM TableIdsUnique == Spec => []UniqueIds
<1>1. Init => Inv
  BY InitInv
<1>2. Inv /\ [Next]_vars => Inv'
  BY NextInv
<1>3. Inv => UniqueIds
  BY DEF Inv
<1>4. QED
  BY <1>1, <1>2, <1>3, PTL DEF Spec

-----------------------------------------------------------------------------
(* The refinement.  The live set has as many members as slots count.       *)
LEMMA LiveCardinality ==
  ASSUME Inv
  PROVE  Cardinality(m68k_get_breakpoints) = s_breakpointCount
<1> DEFINE f == [i \in 0 .. s_breakpointCount - 1 |-> s_breakpoints[i]]
<1>1. f \in Bijection(0 .. s_breakpointCount - 1, m68k_get_breakpoints)
  <2>1. f \in [0 .. s_breakpointCount - 1 -> m68k_get_breakpoints]
    BY DEF m68k_get_breakpoints
  <2>2. \A i, j \in 0 .. s_breakpointCount - 1 : f[i] = f[j] => i = j
    BY DEF Inv, UniqueIds
  <2>3. \A b \in m68k_get_breakpoints :
          \E i \in 0 .. s_breakpointCount - 1 : f[i] = b
    BY DEF m68k_get_breakpoints
  <2>4. QED
    BY <2>1, <2>2, <2>3 DEF Bijection, Injection, Surjection, IsInjective
<1>2. /\ IsFiniteSet(0 .. s_breakpointCount - 1)
      /\ Cardinality(0 .. s_breakpointCount - 1) = s_breakpointCount
  <2>1. s_breakpointCount \in Nat
    BY BreakpointAssumption DEF Inv, TypeOK
  <2>2. QED
    BY <2>1, FS_Interval
<1>3. ExistsBijection(0 .. s_breakpointCount - 1, m68k_get_breakpoints)
  BY <1>1 DEF ExistsBijection
<1>4. QED
  BY <1>2, <1>3, FS_Bijection

(* BreakpointSet's instance has its own copy of the standard operator.     *)
LEMMA PromiseCardinality ==
  ASSUME NEW S PROVE Promise!Cardinality(S) = Cardinality(S)
BY DEF Cardinality, Promise!Cardinality

LEMMA InitRefines == Init => Promise!Init
BY DEF Init, Promise!Init, m68k_get_breakpoints

LEMMA AddRefines ==
  ASSUME Inv, Inv', NEW loc \in Locations, NEW pc \in PCs, AddResolved(loc, pc)
  PROVE  Promise!Add(loc, pc)
<1> DEFINE new == [loc |-> loc, pc |-> pc, id |-> s_breakpointId]
<1>1. \A i \in Slots : s_breakpoints'[i] =
        IF i = s_breakpointCount THEN new ELSE s_breakpoints[i]
  BY DEF Inv, TypeOK, AddResolved
<1>2. s_breakpointCount \in Slots /\ s_breakpointCount' = s_breakpointCount + 1
  BY BreakpointAssumption DEF Inv, TypeOK, AddResolved, Slots
<1>3. m68k_get_breakpoints' = m68k_get_breakpoints \cup {new}
  <2>1. \A i \in 0 .. s_breakpointCount : s_breakpoints'[i] =
          IF i = s_breakpointCount THEN new ELSE s_breakpoints[i]
    BY <1>1, <1>2, BreakpointAssumption DEF Slots
  <2>2. m68k_get_breakpoints' = {s_breakpoints'[i] : i \in 0 .. s_breakpointCount}
    BY <1>2, BreakpointAssumption DEF m68k_get_breakpoints, Slots
  <2>3. \A b : b \in m68k_get_breakpoints' <=> b \in m68k_get_breakpoints \cup {new}
    BY <1>2, <2>1, <2>2, BreakpointAssumption DEF m68k_get_breakpoints, Slots
  <2>4. QED
    BY <2>3
<1>4. Promise!Cardinality(m68k_get_breakpoints) < Capacity
  BY LiveCardinality, PromiseCardinality DEF AddResolved
<1>5. QED
  BY <1>3, <1>4 DEF AddResolved, Promise!Add

LEMMA DeleteRefines ==
  ASSUME Inv, NEW id \in 0 .. MaxId, m68k_del_breakpoint(id)
  PROVE  Promise!Delete(id)
<1> DEFINE last == s_breakpointCount - 1
<1>1. CASE HasId(id)
  <2>1. /\ FirstWithId(id) \in 0 .. last
        /\ s_breakpoints[FirstWithId(id)].id = id
        /\ \A j \in 0 .. last : s_breakpoints[j].id = id => j = FirstWithId(id)
    BY <1>1, FirstWithIdIsTheOne
  <2>2. /\ s_breakpointCount' = last /\ s_breakpointCount \in 1 .. Capacity
        /\ \A i \in 0 .. last : s_breakpoints'[i] =
             IF i = FirstWithId(id) THEN s_breakpoints[last] ELSE s_breakpoints[i]
    BY <1>1, DeleteSlots
  <2>3. m68k_get_breakpoints' = {s_breakpoints'[i] : i \in 0 .. last - 1}
    BY <2>2 DEF m68k_get_breakpoints
  <2>4. ASSUME NEW b \in m68k_get_breakpoints'
        PROVE  b \in m68k_get_breakpoints /\ b.id # id
    <3>1. PICK i \in 0 .. last - 1 : b = s_breakpoints'[i]
      BY <2>3, <2>4
    <3>2. i \in 0 .. last /\ last \in 0 .. last /\ i # last
      BY <2>2, <3>1, BreakpointAssumption
    <3>3. CASE i = FirstWithId(id)
      BY <2>1, <2>2, <3>1, <3>2, <3>3 DEF m68k_get_breakpoints
    <3>4. CASE i # FirstWithId(id)
      BY <2>1, <2>2, <3>1, <3>2, <3>4 DEF m68k_get_breakpoints
    <3>5. QED
      BY <3>3, <3>4
  <2>5. ASSUME NEW b \in m68k_get_breakpoints, b.id # id
        PROVE  b \in m68k_get_breakpoints'
    <3>1. PICK i \in 0 .. last : b = s_breakpoints[i]
      BY DEF m68k_get_breakpoints
    <3>2. i # FirstWithId(id)
      BY <2>1, <2>5, <3>1
    <3>3. CASE i # last
      <4>1. i \in 0 .. last - 1 /\ b = s_breakpoints'[i]
        BY <2>2, <3>1, <3>2, <3>3, BreakpointAssumption
      <4>2. QED
        BY <2>3, <4>1
    <3>4. CASE i = last
      <4>1. FirstWithId(id) \in 0 .. last - 1 /\ b = s_breakpoints'[FirstWithId(id)]
        BY <2>1, <2>2, <3>1, <3>2, <3>4, BreakpointAssumption
      <4>2. QED
        BY <2>3, <4>1
    <3>5. QED
      BY <3>3, <3>4
  <2>6. m68k_get_breakpoints' = {b \in m68k_get_breakpoints : b.id # id}
    BY <2>4, <2>5
  <2>7. QED
    BY <1>1, <2>6 DEF m68k_del_breakpoint, Promise!Delete
<1>2. CASE ~HasId(id)
  <2>1. UNCHANGED m68k_get_breakpoints
    BY <1>2 DEF m68k_del_breakpoint, m68k_get_breakpoints
  <2>2. m68k_get_breakpoints = {b \in m68k_get_breakpoints : b.id # id}
    BY <1>2 DEF m68k_get_breakpoints, HasId
  <2>3. QED
    BY <1>2, <2>1, <2>2 DEF m68k_del_breakpoint, Promise!Delete
<1>3. QED
  BY <1>1, <1>2

(* Deleting a breakpoint loses and changes no other, for every capacity.   *)
THEOREM TableDeletesExactly == Spec => DeletesExactly
<1>1. Init => Inv
  BY InitInv
<1>2. Inv /\ [Next]_vars => Inv'
  BY NextInv
<1>3. ASSUME Inv, NEW id \in 0 .. MaxId, m68k_del_breakpoint(id)
      PROVE  m68k_get_breakpoints' = {b \in m68k_get_breakpoints : b.id # id}
  BY <1>3, DeleteRefines DEF Promise!Delete
<1>4. Inv => [\A id \in 0 .. MaxId :
                m68k_del_breakpoint(id) =>
                  m68k_get_breakpoints' = {b \in m68k_get_breakpoints : b.id # id}]_vars
  BY <1>3
<1>5. QED
  BY <1>1, <1>2, <1>4, PTL DEF Spec, DeletesExactly

LEMMA StepRefines ==
  ASSUME Inv, Inv', [Next]_vars
  PROVE  [Promise!Next]_(Promise!vars)
<1>1. ASSUME NEW loc \in Locations, NEW resolved \in PCs \cup {NoPC},
             m68k_add_breakpoint(loc, resolved)
      PROVE  Promise!Next
  <2>1. CASE resolved \in PCs /\ AddResolved(loc, resolved)
    BY <2>1, AddRefines DEF Promise!Next
  <2>2. CASE AddPastEnd
    <3>1. UNCHANGED m68k_get_breakpoints
      BY <2>2 DEF AddPastEnd, m68k_get_breakpoints
    <3>2. Promise!AddBeyondCapacity
      BY <2>2, <3>1, LiveCardinality, PromiseCardinality DEF AddPastEnd, Promise!AddBeyondCapacity
    <3>3. QED
      BY <3>2 DEF Promise!Next
  <2>3. CASE AddUnresolved
    <3>1. UNCHANGED m68k_get_breakpoints
      BY <2>3 DEF AddUnresolved, tableVars, m68k_get_breakpoints
    <3>2. Promise!AddUnresolved
      BY <2>3, <3>1 DEF AddUnresolved, tableVars, Promise!AddUnresolved
    <3>3. QED
      BY <3>2 DEF Promise!Next
  <2>4. QED
    BY <1>1, <2>1, <2>2, <2>3 DEF m68k_add_breakpoint
<1>2. ASSUME NEW id \in 0 .. MaxId, m68k_del_breakpoint(id)
      PROVE  Promise!Next
  BY <1>2, DeleteRefines DEF Promise!Next
<1>3. CASE UNCHANGED vars
  BY <1>3 DEF vars, Promise!vars, m68k_get_breakpoints
<1>4. QED
  BY <1>1, <1>2, <1>3 DEF Next

(* The array with its swap-with-last deletion implements the abstract set  *)
(* of breakpoints, for every capacity.                                     *)
THEOREM TableImplementsSet == Spec => ImplementsSet
<1>1. Init => Inv /\ Promise!Init
  BY InitInv, InitRefines
<1>2. Inv /\ [Next]_vars => Inv'
  BY NextInv
<1>3. Inv /\ Inv' /\ [Next]_vars => [Promise!Next]_(Promise!vars)
  BY StepRefines
<1>4. QED
  BY <1>1, <1>2, <1>3, PTL DEF Spec, ImplementsSet, Promise!Spec
=============================================================================
