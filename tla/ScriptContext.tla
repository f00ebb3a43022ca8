---------------------------- MODULE ScriptContext ----------------------------
(***************************************************************************)
(* A context of AngelScript (source/as_context.cpp): its status, its call  *)
(* stack, the blocks of its stack memory, and the nested calls system      *)
(* functions make in it between PushState and PopState, as the library     *)
(* (as_scriptobject.cpp) and the add-ons (scriptarray.cpp) do.             *)
(*                                                                         *)
(* One thread runs the context; another may ask it to suspend at any time. *)
(* Bytecode is reduced to what moves the stack and the status.  Functions  *)
(* are script functions: virtual methods, delegates and imported functions *)
(* are not there.                                                          *)
(***************************************************************************)
EXTENDS Integers, Sequences, SequencesExt

CONSTANTS
  Fn,          \* function -> [args, locals, needed], in dwords
  HostFns,     \* functions the application prepares
  DestructFns, \* destructors
  Callers,     \* who makes nested calls: of {"factory", "destructor", "compare"}
  BlockSize,   \* initialContextStackSize
  MaxStack,    \* maximumContextStackSize
  Reserve,     \* RESERVE_STACK
  BlockAt,     \* stack block -> where it begins in memory
  MaxBlocks,   \* bound: blocks, one more than MaxStack lets there be
  MaxCalls,    \* bound: entries of the call stack
  None         \* no function

Functions == DOMAIN Fn
ASSUME ContextAssumption ==
  /\ HostFns \cup DestructFns \subseteq Functions /\ None \notin Functions
  /\ \A f \in Functions : /\ Fn[f].args \in Nat /\ Fn[f].locals \in Nat /\ Fn[f].needed \in Nat
                         /\ Fn[f].locals <= Fn[f].needed
  /\ Callers \subseteq {"factory", "destructor", "compare"}
  /\ {BlockSize, MaxStack, Reserve, MaxBlocks, MaxCalls} \subseteq Nat

VARIABLES
  cx,     \* asCContext
  cpp,    \* the C++ stack above the application: who called whom
  r,      \* what Execute last returned
  pushed, \* history: what PushState has pushed and PopState not yet restored
  asked,  \* history: a callback asked to abort what is being executed
  origin  \* history: "right" if cx.orig is where the prepared function's stack begins,
          \* "stale" after a Prepare that found no stack, "lost" if another followed

contextVars == <<cx, cpp, r, pushed, asked, origin>>

Suspend(c) == [c EXCEPT !.doSuspend = TRUE, !.process = TRUE]
Abort(c) ==
  [Suspend(c) EXCEPT !.status = IF @ = "suspended" THEN "aborted" ELSE @, !.doAbort = TRUE]
SetException(c) ==
  IF c.calling = None THEN c ELSE [c EXCEPT !.status = "exception", !.process = TRUE]

(* What a callback asks of the context that called it; no line callback is *)
(* called on a stack overflow.                                             *)
Requests == {"nothing", "suspend", "abort"}
Requested(c, q) ==
  CASE q = "nothing" -> c [] q = "suspend" -> Suspend(c) [] q = "abort" -> Abort(c)
Asks(q) == asked' = (asked \/ (q = "abort" /\ cx'.doAbort))

(* The line callback, if there is one. *)
LineCallback(c, q) == IF c.line THEN Requested(c, q) ELSE c
LineRequests == IF cx.line THEN Requests ELSE {"nothing"}

-----------------------------------------------------------------------------
(* A stack pointer is a block and the dwords between it and the base of    *)
(* that block.  ReserveStackSpace moves on to larger blocks until the size *)
(* fits, and leaves room for the arguments to follow.                      *)
Size[block \in Nat] == IF block = 0 THEN BlockSize ELSE 2 * Size[block - 1]
ASSUME BlocksApart ==
  /\ BlockAt \in [0 .. MaxBlocks -> Nat]
  /\ \A b, i \in 0 .. MaxBlocks :
       b # i => BlockAt[b] + Size[b] <= BlockAt[i] \/ BlockAt[i] + Size[i] <= BlockAt[b]
MayGrow_unlimited(block) == TRUE  \* slip: MaxStack is not looked at
MayGrow(block) == Size[block + 1] - BlockSize <= MaxStack
Push(c, n) == [c EXCEPT !.sp.left = @ - n]

(* Pointers are compared as addresses.  After a stale origin one may lie   *)
(* in another block than the current one, near it or not.                  *)
Distance(b, i) == IF b = i THEN 0 ELSE BlockAt[b] - BlockAt[i]
Fits(c, size) == c.sp.left + Distance(c.sp.block, c.index) >= size + Reserve
Grown(c, block) ==
  IF block = c.index THEN c
  ELSE [c EXCEPT !.index = block,
                 !.sp = [block |-> block, left |-> Size[block] - Fn[c.current].args]]

ReserveStackSpace(c, size) ==
  LET final == c.index + MaxBlocks
      ends == {b \in c.index .. final : Fits(Grown(c, b), size) \/ ~MayGrow(b) \/ b = final}
      last == Grown(c, Min(ends))
  IN IF Fits(last, size) THEN last
     ELSE [last EXCEPT !.noStack = TRUE, !.status = "exception", !.process = TRUE]

Checked(c) == IF c.process /\ c.doSuspend THEN [c EXCEPT !.status = "suspended"] ELSE c

PrepareScriptFunction(c, q) ==
  LET d == ReserveStackSpace(c, Fn[c.current].needed)
      e == Push(d, Fn[c.current].locals)
  IN IF d.noStack THEN d
     ELSE IF e.process THEN Checked(LineCallback(e, q)) ELSE e

-----------------------------------------------------------------------------
(* The call stack: frames of callers, and the markers of nested calls.     *)
PushCallState(c) ==
  [c EXCEPT !.calls = Append(@, [kind |-> "call", current |-> c.current,
                                 sp |-> c.sp, index |-> c.index])]

PopCallState(c) ==
  LET f == Last(c.calls)
  IN [c EXCEPT !.current = f.current, !.sp = f.sp, !.index = f.index, !.calls = Front(@)]

AtBase(c) == c.calls = <<>> \/ Last(c.calls).kind = "nested"

(* CleanStack unwinds to the topmost marker.  What each frame destroys is  *)
(* left out.                                                               *)
CleanStack(c) ==
  LET markers == {i \in DOMAIN c.calls : c.calls[i].kind = "nested"}
      top == IF markers = {} THEN 0 ELSE CHOOSE i \in markers : \A j \in markers : j <= i
      unwound == IF AtBase(c) THEN c ELSE PopCallState([c EXCEPT !.calls = SubSeq(@, 1, top + 1)])
  IN [unwound EXCEPT !.status = "exception", !.noStack = FALSE]

Busy(c) == c.status \in {"active", "suspended"}
Cleaned(c) ==
  LET d == IF c.status \in {"finished", "uninitialized"} THEN c ELSE CleanStack(c)
  IN IF c.initial = None THEN d ELSE [d EXCEPT !.sp = c.orig]

Prepared(c) ==
  LET d == IF c.status = "finished" THEN c
           ELSE [c EXCEPT !.doAbort = FALSE, !.doSuspend = FALSE, !.process = c.line]
  IN [Push(d, Fn[c.current].args) EXCEPT !.status = "prepared", !.started = FALSE, !.orig = c.sp]

Prepare(c, f) ==
  LET d == [Cleaned(c) EXCEPT !.initial = f, !.current = f]
      e == IF f = c.initial THEN d ELSE ReserveStackSpace(d, Fn[f].args + Fn[f].needed)
  IN IF e.noStack THEN e ELSE Prepared(e)

Unprepare(c) ==
  IF Busy(c) THEN c
  ELSE [Cleaned(c) EXCEPT !.initial = None, !.current = None, !.started = FALSE,
                          !.status = "uninitialized"]

Execute(c, q) ==
  LET d == [c EXCEPT !.status = "active", !.started = TRUE]
  IN IF c.started THEN d ELSE PrepareScriptFunction(d, q)

(* Slips: the initial function stays; the stack pointer is saved late.     *)
PushState_initialKept(c) ==
  LET marker == [kind |-> "nested", calling |-> c.calling, initial |-> c.initial,
                 orig |-> c.orig, value |-> c.value]
  IN [Push(PushCallState(c), 2) EXCEPT
        !.calls = Append(@, marker), !.calling = None, !.value = None,
        !.status = "uninitialized"]
PushState_savedLate(c) ==
  LET marker == [kind |-> "nested", calling |-> c.calling, initial |-> c.initial,
                 orig |-> c.orig, value |-> c.value]
  IN [PushCallState(Push(c, 2)) EXCEPT
        !.calls = Append(@, marker), !.initial = None, !.calling = None, !.value = None,
        !.status = "uninitialized"]
PushState(c) ==
  LET marker == [kind |-> "nested", calling |-> c.calling, initial |-> c.initial,
                 orig |-> c.orig, value |-> c.value]
  IN [Push(PushCallState(c), 2) EXCEPT
        !.calls = Append(@, marker), !.initial = None, !.calling = None, !.value = None,
        !.status = "uninitialized"]

(* The topmost entry of the call stack must be a marker, as an assertion   *)
(* says: a nested call that was suspended in a further call is not cleaned *)
(* up, and what PopState then does is undefined.                           *)
MarkerOnTop(c) == Last(Unprepare(c).calls).kind = "nested"

PopState(c) ==
  LET d == Unprepare(c)
      m == Last(d.calls)
  IN [PopCallState([d EXCEPT !.calls = Front(@)]) EXCEPT
        !.calling = m.calling, !.initial = m.initial, !.orig = m.orig, !.value = m.value,
        !.started = TRUE, !.status = "active"]

-----------------------------------------------------------------------------
(* Bytecode.                                                               *)
Top == IF cpp = <<>> THEN "application" ELSE Last(cpp).who
Enters(who) == cpp' = Append(cpp, [who |-> who, doAbort |-> FALSE])
Leaves == cpp' = Front(cpp)

Bytecode == Top = "execute" /\ cx.status = "active" /\ UNCHANGED <<r, pushed, origin>>

(* asBC_CALL: the caller's stack has room for the arguments it pushes.     *)
Call(f, q) ==
  /\ Bytecode
  /\ Len(cx.calls) < MaxCalls
  /\ Fn[cx.current].locals + Fn[f].args <= Fn[cx.current].needed
  /\ cx' = PrepareScriptFunction([PushCallState(Push(cx, Fn[f].args)) EXCEPT !.current = f], q)
  /\ Asks(q)
  /\ UNCHANGED cpp

(* asBC_RET. *)
Returned(c) ==
  IF AtBase(c) THEN [c EXCEPT !.status = "finished"]
  ELSE Push(PopCallState(c), -Fn[c.current].args)
Return ==
  /\ Bytecode
  /\ cx' = Returned([cx EXCEPT !.value = cx.current])
  /\ UNCHANGED <<cpp, asked>>

(* asBC_SUSPEND. *)
SuspendPoint(q) ==
  /\ Bytecode
  /\ cx.process
  /\ cx' = Checked(LineCallback(cx, q))
  /\ Asks(q)
  /\ UNCHANGED cpp

(* asBC_CALLSYS; the system function is known by who calls it.             *)
CallSystem ==
  /\ Bytecode
  /\ cx' = [cx EXCEPT !.calling = cx.current]
  /\ Enters("system")
  /\ UNCHANGED asked

ReturnSystem ==
  /\ Top = "system"
  /\ cx' = Checked([cx EXCEPT !.calling = None, !.value = cx.calling])
  /\ Leaves
  /\ UNCHANGED <<r, pushed, asked, origin>>

(* Execute returns to whoever called it.                                   *)
Finish(c) ==
  IF c.status # "finished" /\ c.doAbort THEN [c EXCEPT !.doAbort = FALSE, !.status = "aborted"]
  ELSE c

ReturnExecute(q) ==
  /\ Top = "execute" /\ cx.status # "active"
  /\ cx' = Finish([LineCallback(cx, q) EXCEPT !.process = cx.line, !.doSuspend = FALSE])
  /\ r' = cx'.status
  /\ LET outer == Front(cpp)
         aborted == outer # <<>> /\ Last(outer).who = "destructor" /\ r' = "aborted"
     IN cpp' = IF aborted THEN Append(Front(outer), [Last(outer) EXCEPT !.doAbort = TRUE])
               ELSE outer
  /\ UNCHANGED <<pushed, asked, origin>>

-----------------------------------------------------------------------------
(* System functions, and the nested calls they make.                       *)
SystemAsks(q) ==
  /\ Top = "system"
  /\ cx' = Requested(cx, q)
  /\ Asks(q)
  /\ UNCHANGED <<cpp, r, pushed, origin>>

SystemThrows ==
  /\ Top = "system"
  /\ cx' = SetException(cx)
  /\ UNCHANGED <<cpp, r, pushed, asked, origin>>

Restorable(c) ==
  [k \in {"current", "sp", "index", "initial", "orig", "calling", "value", "calls"} |-> c[k]]

(* A Prepare that finds no stack has set the initial function and moved    *)
(* on to the last block, but has not stored where its stack begins.  The   *)
(* next one starts where the call before began: below a nested call, in    *)
(* the middle of what runs.                                                *)
StoresOrigin ==
  origin' = IF origin # "right" THEN "lost" ELSE IF cx'.noStack THEN "stale" ELSE "right"

NestedFns(who) == IF who = "destructor" THEN DestructFns ELSE Functions

StartNested(who, f) ==
  /\ Top = "system" /\ cx.status = "active"
  /\ Len(cx.calls) + 2 <= MaxCalls
  /\ cx' = Prepare(PushState(cx), f)
  /\ pushed' = Append(pushed, Restorable(cx))
  /\ r' = "prepared" /\ asked' = FALSE
  /\ StoresOrigin
  /\ Enters(who)

(* Arrays assert that each of their comparisons could be prepared. *)
ComparisonPrepared == Top = "compare" => r # "prepared" \/ cx.status = "prepared"

(* A destructor is followed by that of the base class, another function;   *)
(* arrays compare many elements.                                           *)
NestedAgain(f) ==
  /\ Top \in Callers \ {"factory"} /\ f \in NestedFns(Top)
  /\ Top = "destructor" => f # cx.initial
  /\ ComparisonPrepared
  /\ cx.status \in {"finished", "exception", "aborted"}
  /\ cx' = Prepare(cx, f)
  /\ r' = "prepared" /\ asked' = (asked /\ Top = "destructor")
  /\ StoresOrigin
  /\ UNCHANGED <<cpp, pushed>>

(* Only the library goes on with what was suspended.                       *)
Resumed == r = "suspended" /\ Top \in {"factory", "destructor"}

NestedExecute(q) ==
  /\ Top \in Callers
  /\ cx.status = "prepared" \/ Resumed
  /\ cx' = Execute(cx, q)
  /\ Enters("execute")
  /\ IF cx.started THEN UNCHANGED asked ELSE Asks(q)
  /\ UNCHANGED <<r, pushed, origin>>

(* Slip: an abort in a destructor is forgotten. *)
Forwarded_notDestructor(c) ==
  IF Top # "destructor" /\ r = "aborted" THEN Abort(c)
  ELSE IF Top = "factory" /\ r = "exception" THEN SetException(c)
  ELSE c
Forwarded(c) ==
  IF Last(cpp).doAbort \/ (Top # "destructor" /\ r = "aborted") THEN Abort(c)
  ELSE IF Top = "factory" /\ r = "exception" THEN SetException(c)
  ELSE c

EndNested ==
  /\ Top \in Callers
  /\ cx.status # "prepared" /\ ~Resumed
  /\ ComparisonPrepared /\ MarkerOnTop(cx)
  /\ cx' = Forwarded(PopState(cx))
  /\ pushed' = Front(pushed)
  /\ origin' = "right"
  /\ Leaves
  /\ UNCHANGED <<r, asked>>

-----------------------------------------------------------------------------
(* The application.                                                        *)
HostPrepare(f) ==
  /\ Top = "application" /\ ~Busy(cx)
  /\ cx' = Prepare(cx, f)
  /\ asked' = FALSE
  /\ StoresOrigin
  /\ UNCHANGED <<cpp, r, pushed>>

HostExecute(q) ==
  /\ Top = "application" /\ cx.status \in {"prepared", "suspended"}
  /\ cx' = Execute(cx, q)
  /\ Enters("execute")
  /\ IF cx.started THEN UNCHANGED asked ELSE Asks(q)
  /\ UNCHANGED <<r, pushed, origin>>

HostUnprepare ==
  /\ Top = "application" /\ ~Busy(cx)
  /\ cx' = Unprepare(cx)
  /\ UNCHANGED <<cpp, r, pushed, asked, origin>>

HostAborts ==
  /\ Top = "application"
  /\ cx' = Abort(cx)
  /\ UNCHANGED <<cpp, r, pushed, asked, origin>>

(* Another thread, or the application. *)
OtherSuspends == cx' = Suspend(cx) /\ UNCHANGED <<cpp, r, pushed, asked, origin>>

ContextInit ==
  /\ \E line \in BOOLEAN :
       cx = [status |-> "uninitialized", line |-> line, process |-> line, doSuspend |-> FALSE,
             doAbort |-> FALSE, noStack |-> FALSE, started |-> FALSE, initial |-> None,
             current |-> None, calling |-> None, value |-> None, index |-> 0, calls |-> <<>>,
             sp |-> [block |-> 0, left |-> Size[0]], orig |-> [block |-> 0, left |-> Size[0]]]
  /\ cpp = <<>> /\ r = "none" /\ pushed = <<>> /\ asked = FALSE /\ origin = "right"

ContextStep ==
  \/ \E q \in LineRequests :
       \/ SuspendPoint(q) \/ ReturnExecute(q) \/ NestedExecute(q) \/ HostExecute(q)
       \/ \E f \in Functions : Call(f, q)
  \/ Return \/ CallSystem \/ ReturnSystem
  \/ SystemThrows \/ \E q \in Requests : SystemAsks(q)
  \/ \E who \in Callers : \E f \in NestedFns(who) : StartNested(who, f)
  \/ \E f \in Functions : NestedAgain(f)
  \/ EndNested
  \/ \E f \in HostFns : HostPrepare(f)
  \/ HostUnprepare \/ HostAborts \/ OtherSuspends

(* What runs after its stack was overwritten is undefined. *)
ContextNext == origin # "lost" /\ ContextStep

ContextSpec == ContextInit /\ [][ContextNext]_contextVars

-----------------------------------------------------------------------------
Pointers == [block : 0 .. MaxBlocks, left : Int]
ContextTypeOK ==
  /\ cx.status \in {"uninitialized", "prepared", "active", "suspended", "finished",
                     "exception", "aborted"}
  /\ {cx.initial, cx.current, cx.calling, cx.value} \subseteq Functions \cup {None}
  /\ {cx.sp, cx.orig} \subseteq Pointers
  /\ Len(cx.calls) <= MaxCalls

(* PopState gives the outer call back exactly as PushState took it, however*)
(* the nested calls in between ended and whatever they called in turn, as  *)
(* long as its assertion holds.                                            *)
PopStateRestores ==
  [][ Len(pushed') < Len(pushed) => Restorable(cx') = Last(pushed) ]_contextVars

(* While functions run, the stack pointer lies in the current block, with  *)
(* the reserve below it, and nobody's stack reaches above that of a caller,*)
(* however they were called: everyone's frame is where the call stack says.*)
Below(index, p, f) == IF f.index = index THEN p.left <= f.sp.left ELSE index > f.index
CallFrames == {i \in DOMAIN cx.calls : cx.calls[i].kind = "call"}

FramesApart ==
  /\ cx.status \in {"prepared", "active", "suspended", "finished"} =>
       /\ cx.sp.block = cx.index
       /\ cx.sp.left >= Reserve
       /\ \A i \in CallFrames : Below(cx.index, cx.sp, cx.calls[i])
  /\ \A i \in CallFrames :
       /\ cx.calls[i].sp.block = cx.calls[i].index
       /\ \A j \in CallFrames : j < i => Below(cx.calls[i].index, cx.calls[i].sp, cx.calls[j])

(* It is so until Prepare is called again after it found no stack.         *)
StacksApart == origin # "lost" => FramesApart

(* An abort a callback asks for reaches the application through every      *)
(* level of nested calls, unless the system function that was left goes on *)
(* to make another one, or the array to compare the next element.          *)
AbortForwarded == [][ cpp # <<>> /\ cpp' = <<>> /\ asked => cx'.status # "finished" ]_contextVars
=============================================================================
