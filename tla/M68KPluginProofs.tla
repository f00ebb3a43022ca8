-------------------------- MODULE M68KPluginProofs --------------------------
(***************************************************************************)
(* Proofs about the backend plugin, for any number of instances, any guest *)
(* program and any burst.  LocationLag is not inductive by itself: it needs *)
(* PendingWork (instructions are left to execute only for an instance that *)
(* runs, or one that traces and then exactly one) and FreedForgotten (a    *)
(* block malloc returns again brings no location with it).                 *)
(***************************************************************************)
EXTENDS M68KPlugin, TLAPS

PendingWork ==
  left > 0 =>
    /\ phase = "execute"
    /\ g_debugger # NULL
    /\ state[g_debugger] = "Running" \/ (state[g_debugger] = "Trace" /\ left = 1)

FreedForgotten == \A i \in Instances : state[i] = "Freed" => location[i] = NoPC

Inv == TypeOK /\ NoDanglingDebugger /\ LocationLag /\ PendingWork /\ FreedForgotten

LEMMA InitInv == Init => Inv
<1> SUFFICES ASSUME Init PROVE Inv
  OBVIOUS
<1>1. TypeOK
  BY PluginAssumption DEF Init, TypeOK, PDDebugState, PDAction
<1>2. NoDanglingDebugger /\ LocationLag /\ PendingWork /\ FreedForgotten
  BY DEF Init, NoDanglingDebugger, LocationLag, PendingWork, FreedForgotten
<1>3. QED
  BY <1>1, <1>2 DEF Inv

LEMMA CreateInv ==
  ASSUME Inv, NEW i \in Instances, createInstance(i)
  PROVE  Inv'
<1>1. TypeOK'
  BY PluginAssumption DEF Inv, TypeOK, createInstance, callVars, PDDebugState
<1>2. NoDanglingDebugger'
  BY PluginAssumption
  DEF Inv, TypeOK, NoDanglingDebugger, createInstance, callVars, Live
<1>3. LocationLag'
  BY DEF Inv, TypeOK, LocationLag, FreedForgotten, createInstance
<1>4. PendingWork'
  BY DEF Inv, TypeOK, PendingWork, createInstance, callVars
<1>5. FreedForgotten'
  BY DEF Inv, TypeOK, FreedForgotten, createInstance
<1>6. QED
  BY <1>1, <1>2, <1>3, <1>4, <1>5 DEF Inv

LEMMA DestroyInv ==
  ASSUME Inv, NEW i \in Instances, destroyInstance(i)
  PROVE  Inv'
<1>1. TypeOK'
  BY PluginAssumption DEF Inv, TypeOK, destroyInstance, callVars
<1>2. NoDanglingDebugger' /\ LocationLag'
  BY DEF NoDanglingDebugger, LocationLag, destroyInstance
<1>3. PendingWork'
  BY DEF Inv, TypeOK, PendingWork, destroyInstance, callVars
<1>4. FreedForgotten'
  BY DEF Inv, TypeOK, FreedForgotten, destroyInstance
<1>5. QED
  BY <1>1, <1>2, <1>3, <1>4 DEF Inv

LEMMA UpdateInv ==
  ASSUME Inv, NEW i \in Instances, NEW a \in PDAction, update(i, a)
  PROVE  Inv'
<1>1. ToExecute(i) \in 0 .. Burst
  BY PluginAssumption DEF ToExecute
<1>2. TypeOK'
  BY <1>1 DEF Inv, TypeOK, update
<1>3. NoDanglingDebugger' /\ LocationLag' /\ FreedForgotten'
  BY DEF Inv, NoDanglingDebugger, LocationLag, FreedForgotten, update, Live
<1>4. PendingWork'
  BY PluginAssumption DEF PendingWork, ToExecute, update
<1>5. QED
  BY <1>2, <1>3, <1>4 DEF Inv

LEMMA ExecuteInv ==
  ASSUME Inv, ExecuteInstruction
  PROVE  Inv'
<1>1. /\ g_debugger \in Live
      /\ state[g_debugger] = "Running" \/ (state[g_debugger] = "Trace" /\ left = 1)
      /\ left \in 1 .. Burst
  BY PluginAssumption
  DEF Inv, TypeOK, NoDanglingDebugger, PendingWork, ExecuteInstruction
<1>2. \A i \in Instances : state'[i] =
        IF i = g_debugger /\ state[i] = "Trace" THEN "StopException" ELSE state[i]
  BY <1>1 DEF Inv, TypeOK, ExecuteInstruction, StateAfterInstruction, Live
<1>3. TypeOK'
  <2>1. state' \in [Instances -> PDDebugState \cup {"Freed"}]
    BY <1>1, <1>2
    DEF Inv, TypeOK, ExecuteInstruction, StateAfterInstruction, PDDebugState
  <2>2. pc' \in Addrs /\ ppc' \in Addrs
    BY PluginAssumption DEF Inv, TypeOK, ExecuteInstruction
  <2>3. left' \in 0 .. Burst
    BY <1>1, PluginAssumption DEF ExecuteInstruction
  <2>4. QED
    BY <2>1, <2>2, <2>3 DEF Inv, TypeOK, ExecuteInstruction
<1>4. NoDanglingDebugger'
  BY <1>1, <1>2 DEF Inv, TypeOK, NoDanglingDebugger, ExecuteInstruction, Live
<1>5. LocationLag'
  BY <1>1, <1>2 DEF Inv, TypeOK, LocationLag, ExecuteInstruction, Live
<1>6. PendingWork'
  BY <1>1, <1>2 DEF Inv, TypeOK, PendingWork, ExecuteInstruction, Live
<1>7. FreedForgotten'
  BY <1>2 DEF Inv, FreedForgotten, ExecuteInstruction
<1>8. QED
  BY <1>3, <1>4, <1>5, <1>6, <1>7 DEF Inv

LEMMA ActionInv ==
  ASSUME Inv, do_action
  PROVE  Inv'
<1> DEFINE switched == IF action \in DOMAIN Switch THEN Switch[action] ELSE state[caller]
           stopped == switched = "StopBreakpoint"
           final == IF stopped THEN "StopException" ELSE switched
<1>1. caller \in Live
  BY DEF Inv, NoDanglingDebugger, do_action
<1>2. /\ state' = [state EXCEPT ![caller] = final]
      /\ location' = IF Reporting(action) \/ stopped
                     THEN [location EXCEPT ![caller] = pc] ELSE location
      /\ phase' = IF stopped THEN "return" ELSE "events"
      /\ left = 0
      /\ UNCHANGED <<g_debugger, pc, ppc, caller, action, left, shown>>
  BY DEF do_action
<1>3. /\ action = "Break" => final = "StopException" /\ Reporting(action)
      /\ action = "Step" => final = "Trace" /\ Reporting(action)
      /\ action = "Run" => final = "Running" /\ ~ Reporting(action)
      /\ action = "Other" => ~ Reporting(action)
           /\ (final = state[caller] \/ (stopped /\ final = "StopException"))
      /\ final \in PDDebugState
  BY <1>1 DEF Inv, TypeOK, Switch, Reporting, PDDebugState, PDAction, Live
<1> HIDE DEF final, stopped, switched
<1>4. action \in {"Break", "Run", "Step", "Other"}
  BY DEF Inv, TypeOK, PDAction
<1>5. TypeOK'
  BY <1>2, <1>3 DEF Inv, TypeOK
<1>6. NoDanglingDebugger'
  BY <1>1, <1>2, <1>3 DEF Inv, TypeOK, NoDanglingDebugger, Live, PDDebugState
<1>7. LocationLag'
  <2>1. CASE g_debugger = caller
    BY <1>1, <1>2, <1>3, <1>4, <2>1 DEF Inv, TypeOK, LocationLag, Live
  <2>2. CASE g_debugger # caller
    BY <1>1, <1>2, <2>2 DEF Inv, TypeOK, LocationLag, Live
  <2>3. QED
    BY <2>1, <2>2
<1>8. PendingWork'
  BY <1>2 DEF PendingWork
<1>9. FreedForgotten'
  BY <1>1, <1>2, <1>3 DEF Inv, TypeOK, FreedForgotten, Live, PDDebugState
<1>10. QED
  BY <1>5, <1>6, <1>7, <1>8, <1>9 DEF Inv

LEMMA EventInv ==
  ASSUME Inv, HandleEvent
  PROVE  Inv'
<1>1. /\ UNCHANGED <<g_debugger, state, pc, ppc, caller, action, left, location, shown>>
      /\ phase' \in {phase, "crashed"}
      /\ phase = "events"
  BY DEF HandleEvent, ReadEvent, getDisassembly, getMemory, setBreakpoint,
         CrashOnGarbage, IgnoreEvent
<1>2. TypeOK'
  BY <1>1 DEF Inv, TypeOK
<1>3. NoDanglingDebugger' /\ LocationLag' /\ FreedForgotten'
  BY <1>1 DEF Inv, NoDanglingDebugger, LocationLag, FreedForgotten, Live
<1>4. PendingWork'
  BY <1>1 DEF Inv, PendingWork
<1>5. QED
  BY <1>2, <1>3, <1>4 DEF Inv

LEMMA ReturnInv ==
  ASSUME Inv, Return
  PROVE  Inv'
<1>1. caller \in Live
  BY DEF Inv, NoDanglingDebugger, Return
<1>2. TypeOK'
  BY <1>1, PluginAssumption DEF Inv, TypeOK, Return, Live, PDAction
<1>3. NoDanglingDebugger' /\ LocationLag' /\ FreedForgotten' /\ PendingWork'
  BY DEF Inv, NoDanglingDebugger, LocationLag, FreedForgotten, PendingWork, Return, Live
<1>4. QED
  BY <1>2, <1>3 DEF Inv

LEMMA StutterInv == Inv /\ UNCHANGED vars => Inv'
<1> SUFFICES ASSUME Inv, UNCHANGED vars PROVE Inv'
  OBVIOUS
<1>1. TypeOK'
  BY DEF Inv, TypeOK, vars, callVars
<1>2. NoDanglingDebugger' /\ LocationLag' /\ FreedForgotten' /\ PendingWork'
  BY DEF Inv, NoDanglingDebugger, LocationLag, FreedForgotten, PendingWork, Live,
         vars, callVars
<1>3. QED
  BY <1>1, <1>2 DEF Inv

LEMMA NextInv == Inv /\ [Next]_vars => Inv'
<1>1. ASSUME Inv, Next PROVE Inv'
  BY <1>1, CreateInv, DestroyInv, UpdateInv, ExecuteInv, ActionInv, EventInv, ReturnInv
  DEF Next, HostPolls, Inside
<1>2. QED
  BY <1>1, StutterInv

(* m68k_debugger_update never follows a pointer to a destroyed instance.   *)
THEOREM DebuggerNeverDangles == Spec => []NoDanglingDebugger
<1>1. Inv => NoDanglingDebugger
  BY DEF Inv
<1>2. QED
  BY <1>1, InitInv, NextInv, PTL DEF Spec

(* The types of the plugin's state.                                        *)
THEOREM PluginTyped == Spec => []TypeOK
<1>1. Inv => TypeOK
  BY DEF Inv
<1>2. QED
  BY <1>1, InitInv, NextInv, PTL DEF Spec

(* The location the host knows of a stopped target is at most one          *)
(* instruction old, whatever the program, the burst and the instances.     *)
THEOREM LocationAtMostOneBehind == Spec => []LocationLag
<1>1. Inv => LocationLag
  BY DEF Inv
<1>2. QED
  BY <1>1, InitInv, NextInv, PTL DEF Spec

(* The pc of a stopped target moves only when an instance is created.      *)
THEOREM StoppedTargetStaysPut == Spec => StoppedStaysPut
<1>1. ASSUME Inv, [Next]_vars, pc' # pc
      PROVE  \/ g_debugger # NULL /\ state[g_debugger] \in {"Running", "Trace"}
             \/ g_debugger' # g_debugger /\ pc' = Entry
  <2>1. CASE ExecuteInstruction
    BY <1>1, <2>1 DEF Inv, TypeOK, PendingWork, ExecuteInstruction
  <2>2. ASSUME NEW i \in Instances, createInstance(i)
        PROVE  g_debugger' # g_debugger /\ pc' = Entry
    BY <1>1, <2>2, PluginAssumption DEF Inv, NoDanglingDebugger, createInstance, Live
  <2>3. CASE (\E i \in Instances : destroyInstance(i)) \/ HostPolls \/ do_action
               \/ HandleEvent \/ Return \/ UNCHANGED vars
    BY <1>1, <2>3
    DEF destroyInstance, HostPolls, update, do_action, HandleEvent, ReadEvent,
        getDisassembly, getMemory, setBreakpoint, CrashOnGarbage, IgnoreEvent,
        Return, vars
  <2>4. QED
    BY <1>1, <2>1, <2>2, <2>3 DEF Next, Inside
<1>2. Inv /\ [Next]_vars
        => [pc' # pc =>
              \/ g_debugger # NULL /\ state[g_debugger] \in {"Running", "Trace"}
              \/ g_debugger' # g_debugger /\ pc' = Entry]_vars
  BY <1>1
<1>3. QED
  BY <1>2, InitInv, NextInv, PTL DEF Spec, StoppedStaysPut

-----------------------------------------------------------------------------
(* What the host was shown of an instance is its state, but for a step that *)
(* was taken, and nothing of one that is new: at all times, of all but the *)
(* instance whose update is under way.                                     *)
Agrees(i) ==
  \/ shown[i] = state[i]
  \/ shown[i] \in {"Trace", "None"} /\ state[i] = "StopException"

Viewed ==
  /\ phase = "idle" => caller = NULL
  /\ \A i \in Instances : state[i] = "Freed" => shown[i] = "None"
  /\ \A i \in Live : i # caller => Agrees(i)

LEMMA NextViewed == Inv /\ Viewed /\ [Next]_vars => Viewed'
<1> SUFFICES ASSUME Inv, Viewed, [Next]_vars PROVE Viewed'
  OBVIOUS
<1>1. ASSUME NEW i \in Instances, createInstance(i) PROVE Viewed'
  BY <1>1 DEF Inv, TypeOK, Viewed, Agrees, Live, createInstance, callVars
<1>2. ASSUME NEW i \in Instances, destroyInstance(i) PROVE Viewed'
  BY <1>2 DEF Inv, TypeOK, Viewed, Agrees, Live, destroyInstance, callVars
<1>3. CASE HostPolls
  BY <1>3, PluginAssumption DEF Viewed, Agrees, Live, HostPolls, update
<1>4. CASE ExecuteInstruction
  <2>1. g_debugger \in Live
    BY <1>4 DEF Inv, TypeOK, NoDanglingDebugger, PendingWork, ExecuteInstruction
  <2>2. \A i \in Instances : state'[i] =
          IF i = g_debugger /\ state[i] = "Trace" THEN "StopException" ELSE state[i]
    BY <1>4, <2>1 DEF Inv, TypeOK, ExecuteInstruction, StateAfterInstruction, Live
  <2>3. UNCHANGED <<phase, caller, shown>>
    BY <1>4 DEF ExecuteInstruction
  <2> QED  BY <2>1, <2>2, <2>3 DEF Viewed, Agrees, Live
<1>5. CASE do_action
  <2>1. /\ phase' # "idle" /\ UNCHANGED <<caller, shown>>
        /\ \A i \in Instances \ {caller} : state'[i] = state[i]
    BY <1>5 DEF do_action, Inv, TypeOK
  <2>2. caller \in Live /\ caller \in Live'
    <3>1. caller \in Live
      BY <1>5 DEF Inv, NoDanglingDebugger, do_action
    <3>2. NoDanglingDebugger'
      BY <1>5, ActionInv DEF Inv
    <3> QED  BY <2>1, <3>1, <3>2 DEF NoDanglingDebugger
  <2> QED  BY <2>1, <2>2 DEF Viewed, Agrees, Live
<1>6. CASE HandleEvent
  <2>1. UNCHANGED <<state, caller, shown>> /\ phase' # "idle"
    BY <1>6 DEF HandleEvent, ReadEvent, getDisassembly, getMemory, setBreakpoint,
                CrashOnGarbage, IgnoreEvent
  <2> QED  BY <2>1 DEF Viewed, Agrees, Live
<1>7. CASE Return
  <2>1. caller \in Live
    BY <1>7 DEF Inv, NoDanglingDebugger, Return
  <2> QED  BY <1>7, <2>1 DEF Inv, TypeOK, Viewed, Agrees, Live, Return
<1>8. CASE UNCHANGED vars
  BY <1>8 DEF Viewed, Agrees, Live, vars, callVars
<1> QED  BY <1>1, <1>2, <1>3, <1>4, <1>5, <1>6, <1>7, <1>8 DEF Next, Inside

(* Between calls the host knows the state every instance is in, but for a  *)
(* step that a call for another one has taken (m68k_debugger_update).      *)
THEOREM HostKnowsState == Spec => []HostViewCurrent
<1>1. Init => Viewed
  BY DEF Init, Viewed, Live
<1>2. Viewed => HostViewCurrent
  BY PluginAssumption DEF Viewed, Agrees, HostViewCurrent, Live
<1> QED  BY InitInv, NextInv, NextViewed, <1>1, <1>2, PTL DEF Spec
=============================================================================
