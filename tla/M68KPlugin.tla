----------------------------- MODULE M68KPlugin -----------------------------
(***************************************************************************)
(* The ProDBG backend of musashi_addon: the three callbacks the host calls *)
(* (m68k_prodbg_plugin.c) and the update they share (m68k_debugger.c).     *)
(* The host is one thread; a call of update is modelled in the steps it    *)
(* takes: the instructions executed first, then the host's action, then    *)
(* the events the host queued, then the return.                            *)
(*                                                                         *)
(* The 68k itself is external: one instruction takes pc to one of its      *)
(* Successors.  The breakpoint table is M68KBreakpoints.                   *)
(***************************************************************************)
EXTENDS Integers, Sequences, FiniteSets

CONSTANTS
  Instances,   \* the blocks malloc may return for an m68k_debugger
  NULL,        \* no instance
  Addrs,       \* addresses in 68k memory
  Entry,       \* where m68k_debugger_init puts the pc (address 0)
  Successors,  \* Successors[a]: where the instruction at a may lead
  Burst,       \* instructions executed per update while running (100)
  Locations,   \* the <<file, line>> pairs the host may name
  Resolve,     \* Resolve[loc]: the address of the line, or NoPC
  NoField,     \* an event without the fields the handler looks for
  NoPC, ZeroSlot, Capacity, MaxId, \* of the breakpoint table
  MaxEvents    \* bound: events the host queues for one update

ASSUME PluginAssumption ==
  /\ NULL \notin Instances
  /\ Entry \in Addrs
  /\ Successors \in [Addrs -> SUBSET Addrs]
  /\ Burst \in Nat \ {0}
  /\ NoPC \notin Addrs
  /\ Resolve \in [Locations -> Addrs \cup {NoPC}]
  /\ NoField \notin Locations

VARIABLES
  g_debugger,  \* the instance created last, or NULL
  state,       \* m68k_debugger.state of each block; "Freed" when not allocated
  pc, ppc,     \* REG_PC and REG_PPC of the one cpu
  phase,       \* how far update has come; "idle" outside it
  caller,      \* the instance update was called for
  action,      \* the PDAction it was called with
  left,        \* instructions it has still to execute
  reqs,        \* the events it has read
  sent,        \* what it has written
  location,    \* the exception location the host knows, per instance
  shown,       \* the state update returned last, per instance
  s_breakpoints, s_breakpointCount, s_breakpointId, overrun, ret

tableVars == <<s_breakpoints, s_breakpointCount, s_breakpointId, overrun, ret>>
callVars == <<caller, action, left, reqs, sent>>
vars == <<g_debugger, state, pc, ppc, phase, callVars, location, shown, tableVars>>

Table == INSTANCE M68KBreakpoints WITH PCs <- Addrs

PDDebugState == {"Running", "StopBreakpoint", "StopException", "Trace"}

(* Actions do_action has no case for (None, Stop, StepOut...) are "Other". *)
PDAction == {"Break", "Run", "Step", "Other"}

(* The events update tells apart; every other kind is "Other".             *)
Requests ==
  [kind : {"GetDisassembly", "Other"}]
    \cup [kind : {"GetMemory"}, endAfterStart : BOOLEAN]
    \cup [kind : {"SetBreakpoint"}, loc : Locations \cup {NoField}]

Live == {i \in Instances : state[i] # "Freed"}

Init ==
  /\ g_debugger = NULL
  /\ state = [i \in Instances |-> "Freed"]
  /\ pc = Entry /\ ppc = Entry
  /\ phase = "idle"
  /\ caller = NULL /\ action = "Other" /\ left = 0
  /\ reqs = <<>> /\ sent = <<>>
  /\ location = [i \in Instances |-> NoPC]
  /\ shown = [i \in Instances |-> "None"]
  /\ Table!Init

(* createInstance, with the part of m68k_debugger_init that resets the cpu *)
createInstance(i) ==
  /\ phase = "idle"
  /\ state[i] = "Freed"
  /\ g_debugger' = i
  /\ state' = [state EXCEPT ![i] = "StopException"]
  /\ pc' = Entry
  /\ UNCHANGED <<ppc, phase, callVars, location, shown, tableVars>>

(* Slip: the freed instance stays the global one. *)
destroyInstance_dangling(i) ==
  /\ phase = "idle" /\ i \in Live
  /\ state' = [state EXCEPT ![i] = "Freed"]
  /\ UNCHANGED <<g_debugger, pc, ppc, phase, callVars, location, shown, tableVars>>

(* Whichever instance is destroyed, the global one is forgotten; so is     *)
(* what the host knew of the instance.                                     *)
destroyInstance(i) ==
  /\ phase = "idle"
  /\ i \in Live
  /\ state' = [state EXCEPT ![i] = "Freed"]
  /\ g_debugger' = NULL
  /\ location' = [location EXCEPT ![i] = NoPC]
  /\ shown' = [shown EXCEPT ![i] = "None"]
  /\ UNCHANGED <<pc, ppc, phase, callVars, tableVars>>

(* Slip: the state of the instance update is called for decides. *)
ToExecute_ofCaller(i) ==
  CASE state[i] = "Running" -> Burst
    [] state[i] = "Trace" -> 1
    [] OTHER -> 0

(* Slip: the loop runs once too often. *)
ToExecute_offByOne(i) ==
  IF g_debugger # NULL /\ state[g_debugger] = "Running" THEN Burst + 1 ELSE 0

(***************************************************************************)
(* How many instructions m68k_debugger_update executes when update is      *)
(* called for i: the global instance's state decides, not that of i.       *)
(***************************************************************************)
ToExecute(i) ==
  CASE g_debugger = NULL -> 0
    [] g_debugger # NULL /\ state[g_debugger] = "Running" -> Burst
    [] g_debugger # NULL /\ state[g_debugger] = "Trace" -> 1
    [] OTHER -> 0

update(i, a) ==
  /\ phase = "idle"
  /\ i \in Live
  /\ phase' = "execute"
  /\ caller' = i
  /\ action' = a
  /\ left' = ToExecute(i)
  /\ UNCHANGED <<g_debugger, state, pc, ppc, reqs, sent, location, shown, tableVars>>

(* The loop body of m68k_debugger_update, which m68k_execute_single_instruction *)
(* makes one 68k instruction; tracing ends with it.                        *)
StateAfterInstruction_keepTracing(s) == s
StateAfterInstruction(s) == IF s = "Trace" THEN "StopException" ELSE s

ExecuteInstruction ==
  /\ phase = "execute"
  /\ left > 0
  /\ pc' \in Successors[pc]
  /\ ppc' = pc
  /\ left' = left - 1
  /\ state' = [state EXCEPT ![g_debugger] = StateAfterInstruction(@)]
  /\ UNCHANGED <<g_debugger, phase, caller, action, reqs, sent, location, shown, tableVars>>

(* The state do_action leaves; an action it does not list changes nothing. *)
Switch == [Break |-> "StopException", Run |-> "Running", Step |-> "Trace"]

Reporting_breakSilent(a) == a = "Step"
Reporting(a) == a \in {"Break", "Step"}

sendState == <<"SetExceptionLocation", "SetRegisters">>

(***************************************************************************)
(* do_action and the test after it.  A step is reported before it is       *)
(* taken.  The branch for StopBreakpoint, a state nothing in the plugin    *)
(* sets, returns without reading the events.                               *)
(***************************************************************************)
do_action ==
  LET switched == IF action \in DOMAIN Switch THEN Switch[action] ELSE state[caller]
      stopped == switched = "StopBreakpoint"
      final == IF stopped THEN "StopException" ELSE switched
  IN /\ phase = "execute"
     /\ left = 0
     /\ state' = [state EXCEPT ![caller] = final]
     /\ sent' = sent \o (IF Reporting(action) THEN sendState ELSE <<>>)
                     \o (IF stopped THEN sendState ELSE <<>>)
     /\ location' = IF Reporting(action) \/ stopped
                    THEN [location EXCEPT ![caller] = pc] ELSE location
     /\ phase' = IF stopped THEN "return" ELSE "events"
     /\ UNCHANGED <<g_debugger, pc, ppc, caller, action, left, reqs, shown, tableVars>>

ReadEvent(r) ==
  /\ phase = "events"
  /\ Len(reqs) < MaxEvents
  /\ reqs' = Append(reqs, r)
  /\ UNCHANGED <<g_debugger, state, pc, ppc, caller, action, left, location, shown>>

getDisassembly(r) ==
  /\ ReadEvent(r)
  /\ r.kind = "GetDisassembly"
  /\ sent' = Append(sent, "SetDisassembly")
  /\ UNCHANGED <<phase, tableVars>>

(* The data is written as it is, with no event begun around it. *)
getMemory(r) ==
  /\ ReadEvent(r)
  /\ r.kind = "GetMemory"
  /\ sent' = IF r.endAfterStart
             THEN Append(sent, "no event") ELSE sent
  /\ UNCHANGED <<phase, tableVars>>

(***************************************************************************)
(* setBreakpoint.  Without a "filename" and a "line" in the event its      *)
(* locals stay uninitialised: they name any location, none, or crash the   *)
(* host.  Nothing is written back, and an addition past the end of the     *)
(* table is as undefined here as there.                                    *)
(***************************************************************************)
setBreakpoint(r) ==
  /\ ReadEvent(r)
  /\ r.kind = "SetBreakpoint"
  /\ \/ \E loc \in (IF r.loc = NoField THEN Locations ELSE {r.loc}) :
          Table!m68k_add_breakpoint(loc, Resolve[loc])
     \/ r.loc = NoField /\ Table!AddUnresolved
  /\ phase' = IF overrun' THEN "crashed" ELSE phase
  /\ UNCHANGED sent

CrashOnGarbage(r) ==
  /\ ReadEvent(r)
  /\ r.kind = "SetBreakpoint" /\ r.loc = NoField
  /\ phase' = "crashed"
  /\ UNCHANGED <<sent, tableVars>>

IgnoreEvent(r) ==
  /\ ReadEvent(r)
  /\ r.kind = "Other"
  /\ UNCHANGED <<sent, phase, tableVars>>

HandleEvent ==
  \E r \in Requests :
    getDisassembly(r) \/ getMemory(r) \/ setBreakpoint(r) \/ CrashOnGarbage(r)
      \/ IgnoreEvent(r)

(* Slip: the state of the global instance is returned. *)
Return_ofGlobal ==
  /\ phase \in {"events", "return"} /\ g_debugger # NULL
  /\ phase' = "idle"
  /\ shown' = [shown EXCEPT ![caller] = state[g_debugger]]
  /\ caller' = NULL /\ action' = "Other" /\ left' = 0 /\ reqs' = <<>> /\ sent' = <<>>
  /\ UNCHANGED <<g_debugger, state, pc, ppc, location, tableVars>>

(* PDRead_get_event has returned 0: the call ends, and its parameters and  *)
(* streams with it.                                                        *)
Return ==
  /\ phase \in {"events", "return"}
  /\ phase' = "idle"
  /\ shown' = [shown EXCEPT ![caller] = state[caller]]
  /\ caller' = NULL /\ action' = "Other" /\ left' = 0 /\ reqs' = <<>> /\ sent' = <<>>
  /\ UNCHANGED <<g_debugger, state, pc, ppc, location, tableVars>>

Inside == ExecuteInstruction \/ do_action \/ HandleEvent \/ Return
HostPolls == \E i \in Instances, a \in PDAction : update(i, a)

Next ==
  \/ \E i \in Instances : createInstance(i) \/ destroyInstance(i)
  \/ HostPolls
  \/ Inside

Spec == Init /\ [][Next]_vars

(* A call of update runs to its end, and while an instance is alive the    *)
(* host, which polls its backends, calls update again.                     *)
FairSpec == Spec /\ WF_vars(Inside) /\ WF_vars(HostPolls)

-----------------------------------------------------------------------------
TypeOK ==
  /\ g_debugger \in Instances \cup {NULL}
  /\ state \in [Instances -> PDDebugState \cup {"Freed"}]
  /\ pc \in Addrs /\ ppc \in Addrs
  /\ phase \in {"idle", "execute", "events", "return", "crashed"}
  /\ caller \in Instances \cup {NULL}
  /\ action \in PDAction
  /\ left \in 0 .. Burst
  /\ location \in [Instances -> Addrs \cup {NoPC}]
  /\ shown \in [Instances -> PDDebugState \cup {"None"}]

(* g_debugger, which m68k_debugger_update dereferences, never outlives its *)
(* block, in whatever order instances are created, updated and destroyed;  *)
(* nor does the instance an update in progress was called for.             *)
NoDanglingDebugger ==
  /\ g_debugger # NULL => g_debugger \in Live
  /\ phase # "idle" => caller \in Live

(* The location the host shows for the current instance is never more than *)
(* one instruction old when the target is stopped (a step reports the pc   *)
(* before it executes), current while a step is pending, and absent only   *)
(* if nothing has run since the instance was created.                      *)
LocationLag ==
  g_debugger # NULL =>
    /\ state[g_debugger] = "StopException" =>
         \/ location[g_debugger] \in {pc, ppc}
         \/ location[g_debugger] = NoPC /\ pc = Entry
    /\ state[g_debugger] = "Trace" => location[g_debugger] = pc

(* Between calls the host's idea of an instance's state is what the        *)
(* instance is in, but for a step another instance's update has completed. *)
HostViewCurrent ==
  phase = "idle" =>
    \A i \in Live :
      \/ shown[i] = state[i]
      \/ shown[i] = "Trace" /\ state[i] = "StopException"
      \/ shown[i] = "None" /\ state[i] = "StopException"

(* A target the host has stopped stays where it is: pc moves only when the *)
(* current instance runs or steps, or when creating one resets the cpu.    *)
StoppedStaysPut ==
  [][ pc' # pc =>
        \/ g_debugger # NULL /\ state[g_debugger] \in {"Running", "Trace"}
        \/ g_debugger' # g_debugger /\ pc' = Entry ]_vars

(* A step the host asked of the current instance is taken, provided the    *)
(* host goes on polling.                                                   *)
StepCompletes ==
  \A i \in Instances :
    (g_debugger = i /\ state[i] = "Trace")
      ~> (g_debugger # i \/ state[i] # "Trace" \/ phase = "crashed")

-----------------------------------------------------------------------------
Handled(kind) == {k \in 1 .. Len(reqs) : reqs[k].kind = kind}
Written(event) == {k \in 1 .. Len(sent) : sent[k] = event}

(* pd_backend.h: the backend replies to SetBreakpoint whether it worked.   *)
BreakpointReplied ==
  [][ Return => Cardinality(Written("ReplyBreakpoint"))
                  = Cardinality(Handled("SetBreakpoint")) ]_vars

(* m68k_prodbg_plugin.c: a breakpoint set from the outside stops the       *)
(* target: a running burst executes nothing more once it has come to one.  *)
BreakpointStops ==
  [][ ExecuteInstruction /\ state[g_debugger] = "Running" /\ left < Burst =>
        \A b \in Table!m68k_get_breakpoints : b.pc # pc ]_vars
=============================================================================
