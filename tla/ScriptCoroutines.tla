--------------------------- MODULE ScriptCoroutines ---------------------------
(***************************************************************************)
(* CContextMgr of AngelScript (add_on/contextmgr): threads of co-routines  *)
(* run in turns by ExecuteScripts, and sleep(), yield() and                *)
(* createCoRoutine() as scripts call them.  A context is its identity.  The*)
(* collector, which ExecuteScripts runs as well, is not there, nor are the *)
(* SContextInfo kept for reuse: AddContext resets them.                    *)
(*                                                                         *)
(* Yielding and sleeping suspend a script at once, but for two cases: in a *)
(* nested call it goes on, and if somebody has aborted the context it ends.*)
(***************************************************************************)
EXTENDS Integers, Sequences, SequencesExt

CONSTANTS
  Contexts,  \* those the engine can give
  NoContext, \* a null pointer
  Delays,    \* milliseconds scripts sleep
  MaxTime    \* bound: the time

ASSUME CoroutineAssumption ==
  NoContext \notin Contexts /\ Delays \subseteq Nat /\ MaxTime \in Nat \ {0}

VARIABLES
  threads,       \* m_threads; the lists are indexed from 1
  pool,          \* the contexts the engine has
  currentThread, \* m_currentThread; 0 outside ExecuteScripts
  executing,     \* the index in its thread of the co-routine that executes, or 0
  time,          \* the time now, and as ExecuteScripts saw it
  early          \* history: a script went on or ended after it had passed on the turn

coroutineVars == <<threads, pool, currentThread, executing, time, early>>

Thread == threads[currentThread]
Ctx == Thread.coRoutines[executing]
NextOf(thread) == IF thread.current >= Len(thread.coRoutines) THEN 1 ELSE thread.current + 1

-----------------------------------------------------------------------------
(* The application: ExecuteScripts, AddContext and AbortAll between calls  *)
(* of it, and time.                                                        *)
AddContext(c) ==
  /\ currentThread = 0
  /\ c \in pool
  /\ pool' = pool \ {c}
  /\ threads' = Append(threads, [coRoutines |-> <<c>>, current |-> 1, sleepUntil |-> 0])
  /\ UNCHANGED <<currentThread, executing, time, early>>

AbortAll ==
  /\ currentThread = 0
  /\ pool' = pool \cup {c \in Contexts : \E t \in DOMAIN threads : c \in Range(threads[t].coRoutines)}
  /\ threads' = <<>>
  /\ UNCHANGED <<currentThread, executing, time, early>>

Tick ==
  /\ time.now < MaxTime
  /\ time' = [time EXCEPT !.now = @ + 1]
  /\ UNCHANGED <<threads, pool, currentThread, executing, early>>

ExecuteScripts ==
  /\ currentThread = 0
  /\ currentThread' = 1
  /\ time' = [time EXCEPT !.seen = time.now]
  /\ UNCHANGED <<threads, pool, executing, early>>

EndExecuteScripts ==
  /\ currentThread > Len(threads) /\ currentThread' = 0
  /\ UNCHANGED <<threads, pool, executing, time, early>>

Asleep == Thread.sleepUntil >= time.seen
Between == currentThread \in DOMAIN threads /\ executing = 0

SkipThread ==
  /\ Between
  /\ Asleep
  /\ currentThread' = currentThread + 1
  /\ UNCHANGED <<threads, pool, executing, time, early>>

RunThread ==
  /\ Between
  /\ ~Asleep /\ Thread.coRoutines[Thread.current] # NoContext
  /\ executing' = Thread.current
  /\ UNCHANGED <<threads, pool, currentThread, time, early>>

-----------------------------------------------------------------------------
(* How Execute returns: with the script suspended, or at its end.  Then    *)
(* the context is returned, and what the thread has as its current         *)
(* co-routine is taken from the list.                                      *)
Suspended ==
  /\ executing' = 0 /\ currentThread' = currentThread + 1
  /\ UNCHANGED <<pool, time, early>>

(* Slip: it is the first that is taken from the list.                      *)
Erased_first(thread) ==
  LET at == thread.current
  IN [thread EXCEPT !.coRoutines = Tail([@ EXCEPT ![executing] = NoContext]),
                    !.current = IF at >= Len(thread.coRoutines) THEN 1 ELSE at]
Erased(thread) ==
  LET at == thread.current
  IN [thread EXCEPT !.coRoutines = RemoveAt([@ EXCEPT ![executing] = NoContext], at),
                    !.current = IF at >= Len(thread.coRoutines) THEN 1 ELSE at]

Ends(thread) ==
  LET erased == Erased(thread)
      last == erased.coRoutines = <<>>
  IN /\ pool' = pool \cup {Ctx}
     /\ threads' = IF last THEN RemoveAt(threads, currentThread)
                   ELSE [threads EXCEPT ![currentThread] = erased]
     /\ currentThread' = IF last THEN currentThread ELSE currentThread + 1
     /\ executing' = 0
     /\ UNCHANGED time

Running == executing # 0

ScriptEnds ==
  /\ Running
  /\ Ends(Thread)
  /\ UNCHANGED early

(* yield().  Slip: the turn is not passed on.                              *)
Yielded_stays(thread) == thread
Yielded(thread) == [thread EXCEPT !.current = NextOf(thread)]
Passed == early' = (early \/ Yielded(Thread).current # executing)

ScriptYields ==
  /\ Running
  /\ threads' = [threads EXCEPT ![currentThread] = Yielded(@)]
  /\ Suspended

ScriptYieldsAborted == Running /\ Ends(Yielded(Thread)) /\ Passed

ScriptYieldsNested ==
  /\ Running
  /\ threads' = [threads EXCEPT ![currentThread] = Yielded(@)]
  /\ Passed
  /\ UNCHANGED <<pool, currentThread, executing, time>>

(* sleep() and createCoRoutine() find the thread by its current co-routine.*)
Found == {t \in DOMAIN threads : threads[t].coRoutines[threads[t].current] = Ctx}

ScriptSleeps(ms) ==
  /\ Running
  /\ time.now + ms < MaxTime
  /\ threads' = [t \in DOMAIN threads |->
                   IF t \in Found THEN [threads[t] EXCEPT !.sleepUntil = time.now + ms]
                   ELSE threads[t]]
  /\ Suspended

ScriptCreates(c) ==
  /\ Running
  /\ c \in pool
  /\ pool' = pool \ {c}
  /\ threads' = [t \in DOMAIN threads |->
                   IF t \in Found THEN [threads[t] EXCEPT !.coRoutines = Append(@, c)]
                   ELSE threads[t]]
  /\ UNCHANGED <<currentThread, executing, time, early>>

CoroutineInit ==
  /\ threads = <<>> /\ pool = Contexts /\ currentThread = 0 /\ executing = 0
  /\ time = [now |-> 1, seen |-> 0] /\ early = FALSE

GoOn == ExecuteScripts \/ EndExecuteScripts \/ SkipThread \/ RunThread
GivesUp == ScriptEnds \/ ScriptYields

CoroutineNext ==
  \/ GoOn \/ GivesUp \/ ScriptYieldsAborted \/ ScriptYieldsNested
  \/ Tick \/ AbortAll
  \/ \E c \in Contexts : AddContext(c) \/ ScriptCreates(c)
  \/ \E ms \in Delays : ScriptSleeps(ms)

(* The application runs the scripts, time passes, and no script that is    *)
(* run again and again only ever sleeps or creates co-routines.            *)
CoroutineFairness ==
  /\ WF_coroutineVars(GoOn) /\ WF_coroutineVars(Tick)
  /\ \A c \in Contexts : SF_coroutineVars(Running /\ Ctx = c /\ GivesUp)

CoroutineSpec == CoroutineInit /\ [][CoroutineNext]_coroutineVars /\ CoroutineFairness

-----------------------------------------------------------------------------
CoroutineTypeOK ==
  /\ pool \subseteq Contexts
  /\ currentThread \in 0 .. Len(threads) + 1
  /\ \A t \in DOMAIN threads : threads[t].coRoutines \in Seq(Contexts \cup {NoContext})
  /\ time.now \in 0 .. MaxTime /\ time.seen \in 0 .. MaxTime

(* Every variable has its type; and unless a script went on or ended after *)
(* it had passed on the turn, every context is in the engine's pool or in  *)
(* one list, once, and every thread has a current co-routine, which is the *)
(* one that executes.                                                      *)
ContextsAccounted ==
  /\ CoroutineTypeOK
  /\ early \/
    /\ \A t \in DOMAIN threads : threads[t].current \in DOMAIN threads[t].coRoutines
    /\ executing # 0 => executing = Thread.current
    /\ \A c \in Contexts :
         LET slots == UNION {{t} \X {i \in DOMAIN threads[t].coRoutines :
                                       threads[t].coRoutines[i] = c} : t \in DOMAIN threads}
         IN IF c \in pool THEN slots = {} ELSE \E s \in slots : slots = {s}

(* And every co-routine that waits in a thread gets its turn, whatever     *)
(* others start, end and sleep meanwhile, unless new ones are created for  *)
(* ever: those that end let the ones created last go first.                *)
Waiting(c) == ~early /\ \E t \in DOMAIN threads : c \in Range(threads[t].coRoutines)
EveryoneGetsATurn ==
  \/ []<><<\E c \in Contexts : ScriptCreates(c)>>_coroutineVars
  \/ \A c \in Contexts : Waiting(c) ~> early \/ c \in pool \/ (Running /\ Ctx = c)
=============================================================================
