---------------------------- MODULE MCScriptTurns ----------------------------
(* The two parts of AngelScript in which threads take turns; they share no *)
(* state, and part is the one that moves.  The lock: two writers and a     *)
(* reader, two slots.  Co-routines: three contexts, as threads of their    *)
(* own or as co-routines of one.                                           *)
EXTENDS ScriptLocks, ScriptCoroutines

VARIABLE part
mcVars == <<part, lockVars, coroutineVars>>

MCInit == part \in {"locks", "coroutines"} /\ LockInit /\ CoroutineInit

Locks(A) == part = "locks" /\ A /\ UNCHANGED <<part, coroutineVars>>
Coroutines(A) == part = "coroutines" /\ A /\ UNCHANGED <<part, lockVars>>

MCNext == Locks(LockNext) \/ Coroutines(CoroutineNext)

(* The fairness of LockSpec and CoroutineSpec.                             *)
MCFairness ==
  /\ \A t \in Threads : WF_mcVars(Locks(Proceed(t))) /\ SF_mcVars(Locks(Waits(t)))
  /\ WF_mcVars(Coroutines(GoOn)) /\ WF_mcVars(Coroutines(Tick))
  /\ \A c \in Contexts : SF_mcVars(Coroutines(Running /\ Ctx = c /\ GivesUp))

MCSpec == MCInit /\ [][MCNext]_mcVars /\ MCFairness
=============================================================================
