-------------------------- MODULE M68KBreakpoints --------------------------
(***************************************************************************)
(* The breakpoint table of musashi_addon/src/m68k_debug.c: a static array  *)
(* of 512 slots filled from the front, a count, and a counter identifiers  *)
(* are taken from.  Nothing checks the count against the array's length,   *)
(* and deleting moves the last slot into the hole.                         *)
(***************************************************************************)
EXTENDS Integers, FiniteSets

CONSTANTS
  Locations,  \* the <<file, line>> pairs a caller may name
  PCs,        \* addresses in 68k memory
  NoPC,       \* m68k_resolve_pc_line_file found nothing
  ZeroSlot,   \* a slot of the zero-initialised array that was never written
  Capacity,   \* length of s_breakpoints (512 in the code)
  MaxId       \* bound: value at which s_breakpointId stops being incremented

ASSUME BreakpointAssumption ==
  /\ Capacity \in Nat \ {0}
  /\ MaxId \in Nat
  /\ NoPC \notin PCs

VARIABLES
  s_breakpoints,      \* the array; only slots below the count are meaningful
  s_breakpointCount,
  s_breakpointId,
  overrun,            \* a slot past the end of the array has been written
  ret                 \* what the last call returned

tableVars == <<s_breakpoints, s_breakpointCount, s_breakpointId, overrun>>
vars == <<s_breakpoints, s_breakpointCount, s_breakpointId, overrun, ret>>

Slots == 0 .. Capacity - 1
M68KBreakpoint == [loc : Locations, pc : PCs, id : 0 .. MaxId]

Init ==
  /\ s_breakpoints = [i \in Slots |-> ZeroSlot]
  /\ s_breakpointCount = 0
  /\ s_breakpointId = 0
  /\ overrun = FALSE
  /\ ret = 0

(* Slip: the count as identifier, which deletions make repeat. *)
AddResolved_countAsId(loc, pc) ==
  /\ ~overrun /\ s_breakpointId < MaxId /\ s_breakpointCount < Capacity
  /\ s_breakpoints' = [s_breakpoints EXCEPT
       ![s_breakpointCount] = [loc |-> loc, pc |-> pc, id |-> s_breakpointCount]]
  /\ s_breakpointCount' = s_breakpointCount + 1
  /\ s_breakpointId' = s_breakpointId + 1
  /\ ret' = s_breakpointCount
  /\ UNCHANGED overrun

(***************************************************************************)
(* m68k_add_breakpoint, for a location that resolves to pc.  With every    *)
(* slot taken the code writes past the array: what the program does from   *)
(* there on is undefined, so nothing follows.                              *)
(***************************************************************************)
AddResolved(loc, pc) ==
  /\ ~overrun
  /\ s_breakpointId < MaxId
  /\ s_breakpointCount < Capacity
  /\ s_breakpoints' = [s_breakpoints EXCEPT
       ![s_breakpointCount] = [loc |-> loc, pc |-> pc, id |-> s_breakpointId]]
  /\ s_breakpointCount' = s_breakpointCount + 1
  /\ s_breakpointId' = s_breakpointId + 1
  /\ ret' = s_breakpointId
  /\ UNCHANGED overrun

AddPastEnd ==
  /\ ~overrun
  /\ s_breakpointCount = Capacity
  /\ overrun' = TRUE
  /\ UNCHANGED <<s_breakpoints, s_breakpointCount, s_breakpointId, ret>>

AddUnresolved ==
  /\ ~overrun
  /\ ret' = -1
  /\ UNCHANGED tableVars

m68k_add_breakpoint(loc, resolved) ==
  \/ resolved \in PCs /\ AddResolved(loc, resolved)
  \/ resolved \in PCs /\ AddPastEnd
  \/ resolved = NoPC /\ AddUnresolved

(* The slot the loop of m68k_del_breakpoint stops at: the first match. *)
FirstWithId(id) ==
  CHOOSE i \in 0 .. s_breakpointCount - 1 :
    /\ s_breakpoints[i].id = id
    /\ \A j \in 0 .. i - 1 : s_breakpoints[j].id # id

HasId(id) == \E i \in 0 .. s_breakpointCount - 1 : s_breakpoints[i].id = id

(* Slips: the slot after the last one is moved; nothing is moved. *)
m68k_del_breakpoint_offByOne(id) ==
  /\ ~overrun /\ HasId(id)
  /\ s_breakpoints' = [s_breakpoints EXCEPT
       ![FirstWithId(id)] = s_breakpoints[s_breakpointCount]]
  /\ s_breakpointCount' = s_breakpointCount - 1
  /\ ret' = 1
  /\ UNCHANGED <<s_breakpointId, overrun>>

m68k_del_breakpoint_noSwap(id) ==
  /\ ~overrun /\ HasId(id)
  /\ s_breakpointCount' = s_breakpointCount - 1
  /\ ret' = 1
  /\ UNCHANGED <<s_breakpoints, s_breakpointId, overrun>>

(* m68k_del_breakpoint returns 1 whether or not it found the identifier. *)
m68k_del_breakpoint(id) ==
  /\ ~overrun
  /\ IF HasId(id)
     THEN /\ s_breakpoints' = [s_breakpoints EXCEPT
               ![FirstWithId(id)] = s_breakpoints[s_breakpointCount - 1]]
          /\ s_breakpointCount' = s_breakpointCount - 1
     ELSE UNCHANGED <<s_breakpoints, s_breakpointCount>>
  /\ ret' = 1
  /\ UNCHANGED <<s_breakpointId, overrun>>

(* m68k_get_breakpoints: the array and how many of its slots count. *)
m68k_get_breakpoints == {s_breakpoints[i] : i \in 0 .. s_breakpointCount - 1}

Next ==
  \/ \E loc \in Locations, resolved \in PCs \cup {NoPC} :
       m68k_add_breakpoint(loc, resolved)
  \/ \E id \in 0 .. MaxId : m68k_del_breakpoint(id)

Spec == Init /\ [][Next]_vars

-----------------------------------------------------------------------------
(* Every slot below the count holds a breakpoint; counters are in range.   *)
TypeOK ==
  /\ s_breakpointCount \in 0 .. Capacity
  /\ s_breakpointId \in 0 .. MaxId
  /\ overrun \in BOOLEAN
  /\ ret \in Int
  /\ DOMAIN s_breakpoints = Slots
  /\ \A i \in 0 .. s_breakpointCount - 1 : s_breakpoints[i] \in M68KBreakpoint

(* No two live slots carry the same identifier, whatever sequence of       *)
(* additions and swap-with-last deletions filled them, and none carries    *)
(* one that m68k_add_breakpoint has yet to hand out.                       *)
UniqueIds ==
  \A i \in 0 .. s_breakpointCount - 1 :
    /\ s_breakpoints[i].id < s_breakpointId
    /\ \A j \in 0 .. s_breakpointCount - 1 :
         s_breakpoints[i].id = s_breakpoints[j].id => i = j

(* m68k_del_breakpoint takes the breakpoint it is asked to away and leaves *)
(* every other, although it overwrites a slot with another one.            *)
DeletesExactly ==
  [][ \A id \in 0 .. MaxId :
        m68k_del_breakpoint(id) =>
          m68k_get_breakpoints' = {b \in m68k_get_breakpoints : b.id # id} ]_vars

(* The table behaves as the set of breakpoints its interface promises: it  *)
(* has room until it holds Capacity of them, whatever was deleted in       *)
(* between, and what it holds was added, once, under a fresh identifier.   *)
Promise == INSTANCE BreakpointSet WITH
  live <- m68k_get_breakpoints,
  issued <- s_breakpointId,
  undefined <- overrun

ImplementsSet == Promise!Spec
=============================================================================
