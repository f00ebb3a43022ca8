--------------------------- MODULE BreakpointSet ---------------------------
(***************************************************************************)
(* What the breakpoint interface of m68k_debug.h promises its callers: a   *)
(* set of breakpoints, each named by the identifier m68k_add_breakpoint    *)
(* returned for it, until that identifier is passed to                     *)
(* m68k_del_breakpoint.  M68KBreakpoints is shown to implement it.         *)
(*                                                                         *)
(* The promise ends with the call that would need more than Capacity live  *)
(* breakpoints: from then on nothing is promised ("undefined").            *)
(***************************************************************************)
EXTENDS Integers, FiniteSets

CONSTANTS
  Locations,  \* the <<file, line>> pairs a caller may name
  PCs,        \* addresses in 68k memory
  Capacity,   \* how many breakpoints may be live at once
  MaxId       \* bound: how many breakpoints are ever added

VARIABLES
  live,       \* the live breakpoints
  issued,     \* identifiers handed out so far are 0 .. issued - 1
  undefined,  \* the promise has ended
  ret         \* what the last call returned

vars == <<live, issued, undefined, ret>>

Breakpoint == [loc : Locations, pc : PCs, id : 0 .. MaxId]

Init ==
  /\ live = {}
  /\ issued = 0
  /\ undefined = FALSE
  /\ ret = 0

(* A new breakpoint gets an identifier no other breakpoint ever had. *)
Add(loc, pc) ==
  /\ ~undefined
  /\ issued < MaxId
  /\ Cardinality(live) < Capacity
  /\ live' = live \cup {[loc |-> loc, pc |-> pc, id |-> issued]}
  /\ issued' = issued + 1
  /\ ret' = issued
  /\ UNCHANGED undefined

AddUnresolved ==
  /\ ~undefined
  /\ ret' = -1
  /\ UNCHANGED <<live, issued, undefined>>

AddBeyondCapacity ==
  /\ ~undefined
  /\ Cardinality(live) = Capacity
  /\ undefined' = TRUE
  /\ UNCHANGED <<live, issued, ret>>

(* Exactly the named breakpoint goes; every other one keeps its fields. *)
Delete(id) ==
  /\ ~undefined
  /\ live' = {b \in live : b.id # id}
  /\ ret' = 1
  /\ UNCHANGED <<issued, undefined>>

Next ==
  \/ \E loc \in Locations, pc \in PCs : Add(loc, pc)
  \/ AddUnresolved
  \/ AddBeyondCapacity
  \/ \E id \in 0 .. MaxId : Delete(id)

Spec == Init /\ [][Next]_vars
=============================================================================
