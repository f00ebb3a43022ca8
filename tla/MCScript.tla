------------------------------ MODULE MCScript ------------------------------
(* Four parts of AngelScript that share no state, one at a time: part is   *)
(* the one that moves.                                                     *)
(*                                                                         *)
(* The collector: two objects, either of which may refer to the other, one *)
(* raised by its destructor and one held weakly.  The weak reference: two  *)
(* threads.  A context: functions that fit in a stack block, that need the *)
(* next one, and that fit in none; a nested call in a nested call.  The    *)
(* map: keys enough for every case of the balancing, one of them twice.    *)
EXTENDS ScriptGC, ScriptWeakRef, ScriptContext, ScriptMap

CONSTANTS small, mid, big

VARIABLE part
mcVars == <<part, gcVars, weakVars, contextVars, tree>>

MCModes == {<<TRUE, TRUE>>}
MCFn == [f \in {small, mid, big} |->
           CASE f = small -> [args |-> 1, locals |-> 1, needed |-> 3]
             [] f = mid -> [args |-> 1, locals |-> 2, needed |-> 6]
             [] f = big -> [args |-> 1, locals |-> 1, needed |-> 40]]
MCBlockAt == [b \in 0 .. 2 |-> 100 * b]
MCKey == [n \in 1 .. 8 |-> IF n = 8 THEN 3 ELSE n]

MCInit ==
  /\ part \in {"gc", "weak", "context", "map"}
  /\ GcInit /\ WeakRefInit /\ ContextInit /\ MapInit
  /\ part # "gc" => gc.use = "steps"
  /\ part # "weak" => strong = {CHOOSE t \in Holders : TRUE}
  /\ part # "context" => ~cx.line

Gc(A) == part = "gc" /\ A /\ UNCHANGED <<part, weakVars, contextVars, tree>>

MCNext ==
  \/ Gc(GcNext)
  \/ part = "weak" /\ WeakRefNext /\ UNCHANGED <<part, gcVars, contextVars, tree>>
  \/ part = "context" /\ ContextNext /\ UNCHANGED <<part, gcVars, weakVars, tree>>
  \/ part = "map" /\ MapNext /\ UNCHANGED <<part, gcVars, weakVars, contextVars>>

(* The fairness of GcSpec. *)
MCSpec == MCInit /\ [][MCNext]_mcVars /\ WF_mcVars(Gc(FullCycleStep))

(* Every variable of the four parts has its type. *)
ScriptTypes == GcTypeOK /\ WeakRefTypeOK /\ ContextTypeOK /\ MapTypeOK
=============================================================================
