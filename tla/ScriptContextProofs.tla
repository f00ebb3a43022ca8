------------------------ MODULE ScriptContextProofs ------------------------
(***************************************************************************)
(* Proofs about AngelScript's contexts, for every set of functions, every  *)
(* initial and maximum stack size, and any nesting of calls.               *)
(*                                                                         *)
(* Chain: each frame of the call stack had the room its function needs     *)
(* below its variables, and was below the earlier frames, counting the     *)
(* arguments of its callee in.  LaidOn: below the frames on top, the call  *)
(* stack is what PushState found when the last nested call began, with its *)
(* frame and its marker; Saved says the same, and what PushState found     *)
(* besides, of each of those.  Based: where the stack of the function      *)
(* prepared last begins, there is room for it in the block that was        *)
(* current, and it is below all others; only so do Prepare and PopState,   *)
(* which go back there, overwrite nobody.  That is why the invariant ends  *)
(* with origin = "lost".                                                   *)
(*                                                                         *)
(* An abort a callback asks for reaches the application because, at each   *)
(* moment, either the destructor it happened under has been told of it, or *)
(* the context is about to stop for it, or has stopped (Forwards).         *)
(*                                                                         *)
(* The lemmas about the operators come first, then one lemma per action.   *)
(***************************************************************************)
EXTENDS ScriptContext, WellFoundedInduction, TLAPS


-----------------------------------------------------------------------------
(* Every set of naturals has a first, and one that goes on has them all.   *)
NatLess == OpToRel(<, Nat)

LEMMA LeastNat ==
  ASSUME NEW S \in SUBSET Nat, S # {}
  PROVE  \E n \in S : \A m \in S : n <= m
<1>1. NatLess = {p \in Nat \X Nat : p[1] < p[2]}
  BY DEF NatLess, OpToRel
<1>2. IsWellFoundedOn(NatLess, Nat)
  BY NatLessThanWellFounded DEF NatLess
<1>3. PICK n \in S : \A m \in S : ~(<<m, n>> \in NatLess)
  BY <1>2, WFMin
<1>4. \A m \in S : m \in Nat /\ n \in Nat /\ ~(m < n)
  BY <1>1, <1>3, Zenon
<1> QED  BY <1>4

LEMMA EveryNat ==
  ASSUME NEW S, 0 \in S, \A n \in Nat : n \in S => n + 1 \in S
  PROVE  \A n \in Nat : n \in S
<1> SUFFICES ASSUME Nat \ S # {}  PROVE FALSE
  OBVIOUS
<1>1. PICK n \in Nat \ S : \A m \in Nat \ S : n <= m
  BY LeastNat
<1>2. n # 0 /\ n - 1 \in Nat /\ n - 1 + 1 = n
  BY <1>1
<1>3. n - 1 \in S
  BY <1>1, <1>2
<1> QED  BY <1>1, <1>2, <1>3

(* The recursive function Size is what its equation says, and a number for *)
(* each block.                                                             *)
SizesTo(n, f) ==
  /\ f \in [0 .. n -> Nat]
  /\ f[0] = BlockSize /\ \A b \in 1 .. n : f[b] = 2 * f[b - 1]

LEMMA SizesExist == \A n \in Nat : \E f : SizesTo(n, f)
<1> DEFINE S == {n \in Nat : \E f : SizesTo(n, f)}
<1>1. 0 \in S
  <2>1. SizesTo(0, [b \in 0 .. 0 |-> BlockSize])
    BY ContextAssumption DEF SizesTo
  <2> QED  BY <2>1
<1>2. ASSUME NEW n \in Nat, n \in S  PROVE n + 1 \in S
  <2>1. PICK f : SizesTo(n, f)
    BY <1>2
  <2>2. SizesTo(n + 1, [b \in 0 .. n + 1 |-> IF b = n + 1 THEN 2 * f[n] ELSE f[b]])
    BY <2>1 DEF SizesTo
  <2> QED  BY <2>2
<1> HIDE DEF S
<1>3. \A n \in Nat : n \in S
  BY <1>1, <1>2, EveryNat
<1> QED  BY <1>3 DEF S

LEMMA SizesAgree ==
  ASSUME NEW m \in Nat, NEW f, SizesTo(m, f), NEW n \in Nat, NEW g, SizesTo(n, g)
  PROVE  \A b \in 0 .. m : b <= n => f[b] = g[b]
<1> DEFINE S == {b \in Nat : b <= m /\ b <= n => f[b] = g[b]}
<1>1. 0 \in S
  BY DEF SizesTo
<1>2. ASSUME NEW b \in Nat, b \in S  PROVE b + 1 \in S
  <2>1. CASE b + 1 <= m /\ b + 1 <= n
    <3>1. b + 1 \in 1 .. m /\ b + 1 \in 1 .. n /\ b + 1 - 1 = b
      BY <2>1
    <3>2. f[b + 1] = 2 * f[b] /\ g[b + 1] = 2 * g[b]
      BY <3>1 DEF SizesTo
    <3> QED  BY <3>2, <1>2, <2>1
  <2> QED  BY <2>1
<1> HIDE DEF S
<1>3. \A b \in Nat : b \in S
  BY <1>1, <1>2, EveryNat
<1> QED  BY <1>3 DEF S

LEMMA SizeIs == Size = [b \in Nat |-> IF b = 0 THEN BlockSize ELSE 2 * Size[b - 1]]
<1> DEFINE F == [b \in Nat |-> (CHOOSE f : SizesTo(b, f))[b]]
<1>1. \A n \in Nat : SizesTo(n, CHOOSE f : SizesTo(n, f))
  BY SizesExist
<1>2. F = [b \in Nat |-> IF b = 0 THEN BlockSize ELSE 2 * F[b - 1]]
  <2>1. F[0] = BlockSize
    BY <1>1 DEF SizesTo
  <2>2. ASSUME NEW b \in Nat, b # 0  PROVE F[b] = 2 * F[b - 1]
    <3> DEFINE f == CHOOSE h : SizesTo(b, h)
               g == CHOOSE h : SizesTo(b - 1, h)
    <3>1. SizesTo(b, f) /\ SizesTo(b - 1, g) /\ b - 1 \in Nat
      BY <1>1, <2>2
    <3>2. F[b] = f[b] /\ F[b - 1] = g[b - 1]
      BY <3>1
    <3> HIDE DEF f, g
    <3>3. f[b - 1] = g[b - 1]
      BY <3>1, <2>2, SizesAgree
    <3>4. f[b] = 2 * f[b - 1]
      BY <3>1, <2>2 DEF SizesTo
    <3> QED  BY <3>2, <3>3, <3>4
  <2> HIDE DEF F
  <2>3. \A b \in Nat : F[b] = IF b = 0 THEN BlockSize ELSE 2 * F[b - 1]
    BY <2>1, <2>2
  <2>4. F = [b \in Nat |-> F[b]]
    BY DEF F
  <2> QED  BY <2>3, <2>4
<1> HIDE DEF F
<1>3. \E G : G = [b \in Nat |-> IF b = 0 THEN BlockSize ELSE 2 * G[b - 1]]
  BY <1>2
<1> QED  BY <1>3 DEF Size

LEMMA SizesAre == Size \in [Nat -> Nat]
<1> DEFINE S == {b \in Nat : Size[b] \in Nat}
<1>1. 0 \in S
  BY SizeIs, ContextAssumption
<1>2. ASSUME NEW b \in Nat, b \in S  PROVE b + 1 \in S
  <2>1. Size[b + 1] = 2 * Size[b]
    BY SizeIs
  <2> QED  BY <2>1, <1>2
<1> HIDE DEF S
<1>3. \A b \in Nat : b \in S
  BY <1>1, <1>2, EveryNat
<1>4. \A b \in Nat : Size[b] \in Nat
  BY <1>3 DEF S
<1>5. Size = [b \in Nat |-> Size[b]]
  BY SizeIs
<1> QED  BY <1>4, <1>5

-----------------------------------------------------------------------------
(* What the invariant of a context is about: frames of callers, markers of *)
(* nested calls, and what PushState has put aside.                         *)
FunctionOrNone == Functions \cup {None}
Pointer == [block : Nat, left : Int]
CallState == [kind : {"call"}, current : Functions, sp : Pointer, index : Nat]
Marker == [kind : {"nested"}, calling : FunctionOrNone, initial : Functions,
           orig : Pointer, value : FunctionOrNone]
CallStacks == Seq(CallState \cup Marker)
Statuses == {"uninitialized", "prepared", "active", "suspended", "finished", "exception",
             "aborted"}
Contexts ==
  [status : Statuses, line : BOOLEAN, process : BOOLEAN, doSuspend : BOOLEAN,
   doAbort : BOOLEAN, noStack : BOOLEAN, started : BOOLEAN, initial : FunctionOrNone,
   current : FunctionOrNone, calling : FunctionOrNone, value : FunctionOrNone, index : Nat,
   calls : CallStacks, sp : Pointer, orig : Pointer]
Restorables ==
  [current : Functions, sp : Pointer, index : Nat, initial : Functions, orig : Pointer,
   calling : FunctionOrNone, value : FunctionOrNone, calls : CallStacks]

(* What a function that runs has below its variables; what was pushed on   *)
(* top of that for the call frame i was made for.                          *)
Room(f) == Fn[f].needed - Fn[f].locals + Reserve
PushedFor(calls, current, i) ==
  IF i = Len(calls) THEN Fn[current].args
  ELSE IF calls[i + 1].kind = "call" THEN Fn[calls[i + 1].current].args ELSE 0

(* A stack pointer is below that of one frame, of the first n frames.      *)
Under(index, left, f) == IF f.index = index THEN left <= f.sp.left ELSE index > f.index
Lowest(calls, n, index, left) ==
  \A j \in 1 .. n : calls[j].kind = "call" => Under(index, left, calls[j])

(* Each frame had room before its callee's arguments were pushed, and was  *)
(* then the lowest.                                                        *)
FrameFits(calls, current, i) ==
  /\ calls[i].sp.block = calls[i].index
  /\ calls[i].sp.left >= Reserve
  /\ calls[i].sp.left + PushedFor(calls, current, i) >= Room(calls[i].current)
  /\ Lowest(calls, i - 1, calls[i].index, calls[i].sp.left + PushedFor(calls, current, i))
Chain(calls, current) ==
  \A i \in 1 .. Len(calls) : calls[i].kind = "call" => FrameFits(calls, current, i)

(* The stack of the function prepared last began in the block that was the *)
(* current one when the call stack had b entries, below all those.         *)
Based(calls, b, index, initial, orig) ==
  /\ orig.block = IF b = Len(calls) THEN index ELSE calls[b + 1].index
  /\ orig.left >= Fn[initial].args + Fn[initial].needed + Reserve
  /\ Lowest(calls, b, orig.block, orig.left)

Placed(calls, index, sp) == sp.block = index /\ Lowest(calls, Len(calls), index, sp.left)
Running(calls, current, index, sp) == Placed(calls, index, sp) /\ sp.left >= Room(current)

(* The call stack is what the last of those put aside found, with a frame  *)
(* and a marker on top of it, and frames on top of these.                  *)
BaseOf(ps, n) == IF n = 0 THEN 0 ELSE Len(ps[n].calls) + 2
FrameOf(p) == [kind |-> "call", current |-> p.current, sp |-> p.sp, index |-> p.index]
MarkerOf(p) == [kind |-> "nested", calling |-> p.calling, initial |-> p.initial,
                orig |-> p.orig, value |-> p.value]
LaidOn(ps, n, calls) ==
  /\ BaseOf(ps, n) <= Len(calls)
  /\ \A i \in 1 .. Len(calls) : i > BaseOf(ps, n) => calls[i].kind = "call"
  /\ n > 0 =>
       /\ \A i \in 1 .. Len(ps[n].calls) : calls[i] = ps[n].calls[i]
       /\ calls[Len(ps[n].calls) + 1] = FrameOf(ps[n])
       /\ calls[Len(ps[n].calls) + 2] = MarkerOf(ps[n])
Saved(ps, n) ==
  LET p == ps[n]
  IN /\ LaidOn(ps, n - 1, p.calls)
     /\ Chain(p.calls, p.current)
     /\ Based(p.calls, BaseOf(ps, n - 1), p.index, p.initial, p.orig)
     /\ Running(p.calls, p.current, p.index, p.sp)

Statuswise(c, b) ==
  /\ c.status \in {"active", "suspended", "finished"} =>
       Running(c.calls, c.current, c.index, c.sp)
  /\ c.status = "prepared" =>
       /\ Placed(c.calls, c.index, c.sp)
       /\ c.sp.left >= Fn[c.current].needed + Reserve
       /\ c.current = c.initial /\ ~c.started
  /\ c.status \in {"active", "suspended"} => c.started
  /\ c.status \in {"finished", "uninitialized", "prepared"} => Len(c.calls) = b
  /\ c.noStack => c.status \in {"exception", "aborted"}
  /\ c.initial = None <=> c.status = "uninitialized"
  /\ c.current = None => c.status = "uninitialized"

(* The context c with what was put aside in ps; right: m_originalStackPointer *)
(* is that of the function prepared last.                                  *)
ContextOK(c, ps, right) ==
  /\ c \in Contexts
  /\ ps \in Seq(Restorables)
  /\ \A n \in 1 .. Len(ps) : Saved(ps, n)
  /\ LaidOn(ps, Len(ps), c.calls)
  /\ Chain(c.calls, c.current)
  /\ Statuswise(c, BaseOf(ps, Len(ps)))
  /\ right /\ c.initial # None =>
       Based(c.calls, BaseOf(ps, Len(ps)), c.index, c.initial, c.orig)
  /\ right /\ c.initial = None => Placed(c.calls, c.index, c.sp)

(* An Execute, a system function, a nested call, and so on. *)
CppCalls == Seq([who : {"execute", "system"} \cup Callers, doAbort : BOOLEAN])
CppOK(calls, n) ==
  /\ calls \in CppCalls
  /\ Len(calls) \in 3 * n .. 3 * n + 2
  /\ \A i \in 1 .. Len(calls) : \E k \in Nat :
       \/ i = 3 * k + 1 /\ calls[i].who = "execute"
       \/ i = 3 * k + 2 /\ calls[i].who = "system"
       \/ i = 3 * k + 3 /\ calls[i].who \in Callers

(* Who is at work, and what that says of the context. *)
TopOf(calls) == IF calls = <<>> THEN "application" ELSE Last(calls).who
TopOK(c, top, res, org) ==
  /\ top \in {"execute", "system"} \cup Callers => c.status # "uninitialized"
  /\ top = "system" => /\ c.status \in {"active", "exception"} /\ ~c.noStack /\ c.started
                       /\ Running(c.calls, c.current, c.index, c.sp)
  /\ top \in Callers /\ res = "suspended" => c.status = "suspended"
  /\ org = "stale" =>
       /\ top \in Callers \cup {"application"}
       /\ c.status \in {"exception", "uninitialized"}

Good(c, calls, ps, res, org) ==
  /\ ContextOK(c, ps, org = "right")
  /\ CppOK(calls, Len(ps))
  /\ TopOK(c, TopOf(calls), res, org)

ContextInv ==
  /\ origin \in {"right", "stale", "lost"}
  /\ origin # "lost" => Good(cx, cpp, pushed, r, origin)

-----------------------------------------------------------------------------
(* What the operators do to a context.  CallsKept: everything but where    *)
(* the stack is, the status and the requests.                              *)
LEMMA FnNat ==
  ASSUME NEW f \in Functions
  PROVE  /\ Fn[f].args \in Nat /\ Fn[f].locals \in Nat /\ Fn[f].needed \in Nat
         /\ Fn[f].locals <= Fn[f].needed /\ Room(f) \in Nat /\ Room(f) >= Reserve
         /\ Reserve \in Nat /\ f # None
<1>1. /\ Fn[f].args \in Nat /\ Fn[f].locals \in Nat /\ Fn[f].needed \in Nat
      /\ Fn[f].locals <= Fn[f].needed /\ Reserve \in Nat /\ f # None
  BY ContextAssumption
<1> QED  BY <1>1 DEF Room

CallsKept(c, d) ==
  /\ d.calls = c.calls /\ d.current = c.current /\ d.initial = c.initial
  /\ d.orig = c.orig /\ d.started = c.started
StackKept(c, d) == CallsKept(c, d) /\ d.sp = c.sp /\ d.index = c.index

(* ReserveStackSpace leaves a context as it is, moves it to a later block, *)
(* or finds no stack and throws.                                           *)
Moved(c, d) ==
  /\ d \in Contexts /\ CallsKept(c, d)
  /\ d.index >= c.index
  /\ d.index = c.index => d.sp = c.sp
  /\ d.index > c.index => d.sp.block = d.index

LEMMA PushIs ==
  ASSUME NEW c \in Contexts, NEW n \in Int
  PROVE  LET d == Push(c, n)
         IN /\ d \in Contexts /\ CallsKept(c, d)
            /\ d.index = c.index /\ d.status = c.status /\ d.noStack = c.noStack
            /\ d.sp.block = c.sp.block /\ d.sp.left = c.sp.left - n
BY DEF Push, Contexts, Pointer, CallsKept

LEMMA GrownIs ==
  ASSUME NEW c \in Contexts, c.current \in Functions, NEW b \in Nat, b >= c.index
  PROVE  LET d == Grown(c, b)
         IN Moved(c, d) /\ d.index = b /\ d.status = c.status /\ d.noStack = c.noStack
<1>1. CASE b = c.index
  BY <1>1 DEF Grown, Contexts, Moved, CallsKept
<1>2. CASE b # c.index
  <2> DEFINE p == [block |-> b, left |-> Size[b] - Fn[c.current].args]
  <2>1. Grown(c, b) = [c EXCEPT !.index = b, !.sp = p]
    BY <1>2 DEF Grown
  <2>2. Size[b] \in Nat /\ Fn[c.current].args \in Nat
    BY SizesAre, FnNat
  <2>3. p \in Pointer /\ p.block = b
    BY <2>2 DEF Pointer
  <2> HIDE DEF p
  <2>4. b > c.index
    BY <1>2 DEF Contexts
  <2>5. Grown(c, b) \in Contexts /\ c.index \in Nat
    BY <2>1, <2>3 DEF Contexts
  <2>6. /\ Grown(c, b).index = b /\ Grown(c, b).status = c.status
        /\ Grown(c, b).noStack = c.noStack /\ Grown(c, b).sp = p
    BY <2>1 DEF Contexts
  <2>7. CallsKept(c, Grown(c, b))
    BY <2>1 DEF Contexts, CallsKept
  <2> QED  BY <2>3, <2>4, <2>5, <2>6, <2>7 DEF Moved
<1> QED  BY <1>1, <1>2

LEMMA ThrownIs ==
  ASSUME NEW c \in Contexts, NEW e, Moved(c, e),
         NEW d, d = [e EXCEPT !.noStack = TRUE, !.status = "exception", !.process = TRUE]
  PROVE  Moved(c, d) /\ d.noStack /\ d.status = "exception"
BY DEF Moved, CallsKept, Contexts, Statuses

LEMMA ReserveIs ==
  ASSUME NEW c \in Contexts, c.current \in Functions, NEW size \in Nat
  PROVE  LET d == ReserveStackSpace(c, size)
         IN /\ Moved(c, d)
            /\ \/ /\ Fits(d, size) /\ d.status = c.status /\ d.noStack = c.noStack
                  /\ Fits(c, size) => d = c
               \/ ~Fits(c, size) /\ d.noStack /\ d.status = "exception"
<1> DEFINE final == c.index + MaxBlocks
           ends == {b \in c.index .. final : Fits(Grown(c, b), size) \/ ~MayGrow(b) \/ b = final}
           last == Grown(c, Min(ends))
<1>1. c.index \in Nat /\ final \in Nat /\ final >= c.index
  BY ContextAssumption DEF Contexts
<1>2. final \in ends /\ ends \in SUBSET Nat
  BY <1>1
<1>3. PICK n \in ends : \A m \in ends : n <= m
  BY <1>2, LeastNat
<1>4. Min(ends) \in ends /\ \A m \in ends : Min(ends) <= m
  BY <1>3 DEF Min
<1>5. Min(ends) \in Nat /\ Min(ends) >= c.index
  BY <1>1, <1>4
<1>6. Fits(c, size) => last = c
  <2>1. Grown(c, c.index) = c
    BY DEF Grown
  <2>2. Fits(c, size) => c.index \in ends
    BY <2>1, <1>1
  <2>3. Fits(c, size) => Min(ends) = c.index
    BY <2>2, <1>4, <1>5, <1>1
  <2> QED  BY <2>1, <2>3
<1> HIDE DEF ends
<1>7. Moved(c, last) /\ last.status = c.status /\ last.noStack = c.noStack
  BY <1>5, GrownIs
<1>8. ReserveStackSpace(c, size) =
        IF Fits(last, size) THEN last
        ELSE [last EXCEPT !.noStack = TRUE, !.status = "exception", !.process = TRUE]
  BY DEF ReserveStackSpace, ends
<1> HIDE DEF last
<1>9. CASE Fits(last, size)
  BY <1>6, <1>7, <1>8, <1>9
<1>10. CASE ~Fits(last, size)
  <2>1. Moved(c, ReserveStackSpace(c, size)) /\ ReserveStackSpace(c, size).noStack
        /\ ReserveStackSpace(c, size).status = "exception"
    BY <1>7, <1>8, <1>10, ThrownIs
  <2> QED  BY <1>6, <1>10, <2>1
<1> QED  BY <1>9, <1>10

-----------------------------------------------------------------------------
(* Call stacks. *)
LEMMA FrameIs ==
  ASSUME NEW s \in CallStacks, NEW i \in 1 .. Len(s)
  PROVE  /\ s[i].kind = "call" => s[i] \in CallState
         /\ s[i].kind = "nested" => s[i] \in Marker
         /\ s[i].kind \in {"call", "nested"}
<1>1. s[i] \in CallState \cup Marker
  BY DEF CallStacks
<1> QED  BY <1>1 DEF CallState, Marker

LEMMA CallIs ==
  ASSUME NEW s \in CallStacks, NEW i \in 1 .. Len(s), s[i].kind = "call"
  PROVE  /\ s[i].current \in Functions /\ s[i].index \in Nat
         /\ s[i].sp \in Pointer /\ s[i].sp.left \in Int
<1>1. s[i] \in CallState
  BY FrameIs
<1> QED  BY <1>1 DEF CallState, Pointer

(* A lower pointer, or one in a later block, is below the same frames. *)
LEMMA LowestLower ==
  ASSUME NEW s \in CallStacks, NEW n \in Nat, n <= Len(s), NEW index \in Nat, NEW left \in Int,
         Lowest(s, n, index, left), NEW index2 \in Nat, NEW left2 \in Int,
         index2 > index \/ (index2 = index /\ left2 <= left)
  PROVE  Lowest(s, n, index2, left2)
<1> SUFFICES ASSUME NEW j \in 1 .. n, s[j].kind = "call"
             PROVE  Under(index2, left2, s[j])
  BY DEF Lowest
<1>1. Under(index, left, s[j])
  BY DEF Lowest
<1>2. s[j].index \in Nat /\ s[j].sp.left \in Int
  BY CallIs
<1> QED  BY <1>1, <1>2 DEF Under

LEMMA LowestAgrees ==
  ASSUME NEW s, NEW t, NEW n \in Nat, \A j \in 1 .. n : t[j] = s[j], NEW index, NEW left,
         Lowest(s, n, index, left)
  PROVE  Lowest(t, n, index, left)
BY DEF Lowest

LEMMA FrameAgrees ==
  ASSUME NEW s, NEW t, NEW i \in Nat \ {0}, \A j \in 1 .. i : t[j] = s[j], NEW f, NEW g,
         PushedFor(t, g, i) = PushedFor(s, f, i), FrameFits(s, f, i)
  PROVE  FrameFits(t, g, i)
<1>1. t[i] = s[i]
  OBVIOUS
<1>2. i - 1 \in Nat /\ \A j \in 1 .. i - 1 : t[j] = s[j]
  OBVIOUS
<1>3. Lowest(t, i - 1, t[i].index, t[i].sp.left + PushedFor(t, g, i))
  BY <1>1, <1>2, LowestAgrees DEF FrameFits
<1> QED  BY <1>1, <1>3 DEF FrameFits

(* A call adds a frame. *)
LEMMA ChainPush ==
  ASSUME NEW s \in CallStacks, NEW f \in Functions, Chain(s, f), NEW g \in Functions,
         NEW e \in CallState, e.current = f, e.sp.block = e.index, e.sp.left >= Reserve,
         e.sp.left + Fn[g].args >= Room(f),
         Lowest(s, Len(s), e.index, e.sp.left + Fn[g].args)
  PROVE  Append(s, e) \in CallStacks /\ Chain(Append(s, e), g)
<1> DEFINE t == Append(s, e)
<1>1. /\ Len(s) \in Nat /\ t \in CallStacks /\ Len(t) = Len(s) + 1 /\ t[Len(s) + 1] = e
      /\ \A j \in 1 .. Len(s) : t[j] = s[j]
  BY DEF CallStacks
<1>2. e.kind = "call"
  BY DEF CallState
<1> HIDE DEF t
<1>3. ASSUME NEW i \in 1 .. Len(s), s[i].kind = "call"  PROVE FrameFits(t, g, i)
  <2>1. \A j \in 1 .. i : t[j] = s[j]
    BY <1>1
  <2>2. PushedFor(t, g, i) = PushedFor(s, f, i)
    <3>1. CASE i = Len(s)
      BY <3>1, <1>1, <1>2 DEF PushedFor
    <3>2. CASE i # Len(s)
      <4>1. i + 1 \in 1 .. Len(s) /\ t[i + 1] = s[i + 1] /\ i # Len(t)
        BY <3>2, <1>1
      <4> QED  BY <3>2, <4>1 DEF PushedFor
    <3> QED  BY <3>1, <3>2
  <2>3. FrameFits(s, f, i)
    BY <1>3 DEF Chain
  <2> QED  BY <2>1, <2>2, <2>3, FrameAgrees
<1>4. FrameFits(t, g, Len(t))
  <2>1. PushedFor(t, g, Len(t)) = Fn[g].args
    BY DEF PushedFor
  <2>2. Lowest(t, Len(s), e.index, e.sp.left + Fn[g].args)
    BY <1>1, LowestAgrees
  <2>3. Len(t) - 1 = Len(s) /\ t[Len(t)] = e
    BY <1>1
  <2> QED  BY <2>1, <2>2, <2>3 DEF FrameFits
<1>5. Chain(t, g)
  <2> SUFFICES ASSUME NEW i \in 1 .. Len(t), t[i].kind = "call"  PROVE FrameFits(t, g, i)
    BY DEF Chain
  <2>1. CASE i = Len(t)
    BY <2>1, <1>4
  <2>2. CASE i # Len(t)
    <3>1. i \in 1 .. Len(s) /\ s[i].kind = "call"
      BY <2>2, <1>1
    <3> QED  BY <3>1, <1>3
  <2> QED  BY <2>1, <2>2
<1> QED  BY <1>1, <1>5 DEF t

(* PushState adds a frame and a marker. *)
LEMMA ChainMark ==
  ASSUME NEW s \in CallStacks, NEW f \in Functions, Chain(s, f), NEW g,
         NEW e \in CallState, e.current = f, e.sp.block = e.index,
         e.sp.left >= Room(f), Lowest(s, Len(s), e.index, e.sp.left), NEW m \in Marker
  PROVE  Append(Append(s, e), m) \in CallStacks /\ Chain(Append(Append(s, e), m), g)
<1> DEFINE t == Append(Append(s, e), m)
<1>1. /\ Len(s) \in Nat /\ t \in CallStacks /\ Len(t) = Len(s) + 2
      /\ t[Len(s) + 1] = e /\ t[Len(s) + 2] = m /\ \A j \in 1 .. Len(s) : t[j] = s[j]
  <2>1. Append(s, e) \in Seq(CallState \cup Marker)
    BY DEF CallStacks
  <2> QED  BY <2>1 DEF CallStacks
<1>2. /\ e.kind = "call" /\ m.kind = "nested" /\ e.sp.left \in Int
      /\ Reserve \in Nat /\ Room(f) \in Nat /\ Room(f) >= Reserve
  BY FnNat DEF CallState, Marker, Pointer
<1> HIDE DEF t
<1>3. ASSUME NEW i \in 1 .. Len(s), s[i].kind = "call"  PROVE FrameFits(t, g, i)
  <2>1. \A j \in 1 .. i : t[j] = s[j]
    BY <1>1
  <2>2. PushedFor(t, g, i) = PushedFor(s, f, i)
    <3>1. CASE i = Len(s)
      BY <3>1, <1>1, <1>2 DEF PushedFor
    <3>2. CASE i # Len(s)
      <4>1. i + 1 \in 1 .. Len(s) /\ t[i + 1] = s[i + 1] /\ i # Len(t)
        BY <3>2, <1>1
      <4> QED  BY <3>2, <4>1 DEF PushedFor
    <3> QED  BY <3>1, <3>2
  <2>3. FrameFits(s, f, i)
    BY <1>3 DEF Chain
  <2> QED  BY <2>1, <2>2, <2>3, FrameAgrees
<1>4. FrameFits(t, g, Len(s) + 1)
  <2>1. PushedFor(t, g, Len(s) + 1) = 0
    <3>1. Len(s) + 1 # Len(t) /\ t[Len(s) + 1 + 1] = m
      BY <1>1
    <3> QED  BY <3>1, <1>2 DEF PushedFor
  <2>2. Lowest(t, Len(s), e.index, e.sp.left)
    BY <1>1, LowestAgrees
  <2>3. Len(s) + 1 - 1 = Len(s) /\ t[Len(s) + 1] = e /\ e.sp.left + 0 = e.sp.left
    BY <1>1, <1>2
  <2>4. e.sp.left >= Reserve
    BY <1>2
  <2> QED  BY <2>1, <2>2, <2>3, <2>4 DEF FrameFits
<1>5. Chain(t, g)
  <2> SUFFICES ASSUME NEW i \in 1 .. Len(t), t[i].kind = "call"  PROVE FrameFits(t, g, i)
    BY DEF Chain
  <2>1. CASE i = Len(s) + 1
    BY <2>1, <1>4
  <2>2. CASE i # Len(s) + 1
    <3>1. i \in 1 .. Len(s) /\ s[i].kind = "call"
      BY <2>2, <1>1, <1>2
    <3> QED  BY <3>1, <1>3
  <2> QED  BY <2>1, <2>2
<1> QED  BY <1>1, <1>5 DEF t

(* A return takes the last frame away; unwinding takes all above one. *)
LEMMA ChainCut ==
  ASSUME NEW s \in CallStacks, NEW f, Chain(s, f), NEW n \in 0 .. Len(s) - 1,
         s[n + 1].kind = "call"
  PROVE  /\ SubSeq(s, 1, n) \in CallStacks /\ Len(SubSeq(s, 1, n)) = n
         /\ \A j \in 1 .. n : SubSeq(s, 1, n)[j] = s[j]
         /\ Chain(SubSeq(s, 1, n), s[n + 1].current)
<1> DEFINE t == SubSeq(s, 1, n)
<1>1. /\ Len(s) \in Nat /\ t \in CallStacks /\ Len(t) = n /\ \A j \in 1 .. n : t[j] = s[j]
  BY DEF CallStacks
<1> HIDE DEF t
<1>2. Chain(t, s[n + 1].current)
  <2> SUFFICES ASSUME NEW i \in 1 .. n, t[i].kind = "call"
               PROVE  FrameFits(t, s[n + 1].current, i)
    BY <1>1 DEF Chain
  <2>1. \A j \in 1 .. i : t[j] = s[j]
    BY <1>1
  <2>2. PushedFor(t, s[n + 1].current, i) = PushedFor(s, f, i)
    <3>1. i # Len(s)
      BY <1>1
    <3>2. CASE i = n
      BY <3>1, <3>2, <1>1 DEF PushedFor
    <3>3. CASE i # n
      <4>1. i + 1 \in 1 .. n /\ t[i + 1] = s[i + 1] /\ i # Len(t)
        BY <3>3, <1>1
      <4> QED  BY <3>1, <4>1 DEF PushedFor
    <3> QED  BY <3>2, <3>3
  <2>3. FrameFits(s, f, i)
    BY <1>1 DEF Chain
  <2> QED  BY <2>1, <2>2, <2>3, FrameAgrees
<1> QED  BY <1>1, <1>2 DEF t

-----------------------------------------------------------------------------
(* Unwinding.  Cut: the entries above b are frames, and b is a marker or   *)
(* none.  Bare: what is left of a call stack is its first b entries.       *)
Cut(s, b) ==
  /\ b \in 0 .. Len(s)
  /\ \A i \in 1 .. Len(s) : i > b => s[i].kind = "call"
  /\ b > 0 => s[b].kind = "nested"
Bare(s, t, b) ==
  /\ t \in CallStacks /\ Len(t) = b /\ \A j \in 1 .. b : t[j] = s[j]

LEMMA ChainBase ==
  ASSUME NEW s \in CallStacks, NEW f, Chain(s, f), NEW g,
         Len(s) > 0 => s[Len(s)].kind = "nested"
  PROVE  Chain(s, g)
<1> SUFFICES ASSUME NEW i \in 1 .. Len(s), s[i].kind = "call"  PROVE FrameFits(s, g, i)
  BY DEF Chain
<1>1. i # Len(s)
  OBVIOUS
<1>2. PushedFor(s, g, i) = PushedFor(s, f, i)
  BY <1>1 DEF PushedFor
<1>3. FrameFits(s, f, i)
  BY DEF Chain
<1>4. i \in Nat \ {0} /\ \A j \in 1 .. i : s[j] = s[j]
  OBVIOUS
<1> QED  BY <1>2, <1>3, <1>4, FrameAgrees

LEMMA PopIs ==
  ASSUME NEW c \in Contexts, NEW n \in Nat, n + 1 = Len(c.calls), c.calls[n + 1].kind = "call"
  PROVE  LET d == PopCallState(c)  e == c.calls[n + 1]
         IN /\ d \in Contexts
            /\ d.calls = SubSeq(c.calls, 1, n) /\ d.current = e.current
            /\ d.sp = e.sp /\ d.index = e.index
            /\ d.initial = c.initial
            /\ d.orig = c.orig /\ d.started = c.started
            /\ d.status = c.status /\ d.noStack = c.noStack
<1> DEFINE e == c.calls[n + 1]
           t == SubSeq(c.calls, 1, n)
<1>1. c.calls \in CallStacks /\ n + 1 \in 1 .. Len(c.calls)
  BY DEF Contexts
<1>2. e \in CallState
  BY <1>1, FrameIs
<1>3. e.current \in Functions /\ e.sp \in Pointer /\ e.index \in Nat
  BY <1>2 DEF CallState
<1>4. t \in CallStacks
  BY <1>1 DEF CallStacks
<1>5. PopCallState(c) = [c EXCEPT !.current = e.current, !.sp = e.sp, !.index = e.index,
                                  !.calls = t]
  <2>1. Last(c.calls) = e /\ Front(c.calls) = t
    <3>1. Len(c.calls) - 1 = n
      OBVIOUS
    <3> QED  BY <3>1 DEF Last, Front
  <2> HIDE DEF e, t
  <2> QED  BY <2>1 DEF PopCallState, Contexts
<1> HIDE DEF e, t
<1>6. PopCallState(c) \in Contexts
  BY <1>3, <1>4, <1>5 DEF Contexts, FunctionOrNone
<1>7. /\ PopCallState(c).calls = t /\ PopCallState(c).current = e.current
      /\ PopCallState(c).sp = e.sp /\ PopCallState(c).index = e.index
      /\ PopCallState(c).initial = c.initial
      /\ PopCallState(c).orig = c.orig
      /\ PopCallState(c).started = c.started /\ PopCallState(c).status = c.status
      /\ PopCallState(c).noStack = c.noStack
  BY <1>5 DEF Contexts
<1> QED  BY <1>6, <1>7 DEF e, t

LEMMA AtBaseIs ==
  ASSUME NEW c \in Contexts, NEW b, Cut(c.calls, b)
  PROVE  AtBase(c) <=> Len(c.calls) = b
<1>1. c.calls \in CallStacks /\ Len(c.calls) \in Nat /\ (c.calls = <<>> <=> Len(c.calls) = 0)
  BY DEF Contexts, CallStacks
<1>2. CASE Len(c.calls) = 0
  BY <1>1, <1>2 DEF AtBase, Cut
<1>3. CASE Len(c.calls) # 0
  <2>1. Len(c.calls) \in 1 .. Len(c.calls) /\ c.calls # <<>>
    BY <1>1, <1>3
  <2> QED  BY <2>1 DEF AtBase, Cut, Last
<1> QED  BY <1>2, <1>3

(* What CleanStack leaves. *)
Unwound(c, d, b) ==
  /\ d \in Contexts /\ Bare(c.calls, d.calls, b)
  /\ d.index = IF b = Len(c.calls) THEN c.index ELSE c.calls[b + 1].index
  /\ b = Len(c.calls) => d.sp = c.sp
  /\ \A g : Chain(d.calls, g)
  /\ d.initial = c.initial
  /\ d.orig = c.orig /\ d.started = c.started

LEMMA SameUnwound ==
  ASSUME NEW c \in Contexts, NEW b, Cut(c.calls, b), Len(c.calls) = b, Chain(c.calls, c.current),
         NEW d \in Contexts, StackKept(c, d)
  PROVE  Unwound(c, d, b)
<1>1. c.calls \in CallStacks
  BY DEF Contexts
<1>2. \A g : Chain(c.calls, g)
  BY <1>1, ChainBase DEF Cut
<1>3. Bare(c.calls, c.calls, b)
  BY <1>1 DEF Bare
<1> QED  BY <1>2, <1>3 DEF Unwound, StackKept, CallsKept

LEMMA CleanStackIs ==
  ASSUME NEW c \in Contexts, NEW b, Cut(c.calls, b), Chain(c.calls, c.current)
  PROVE  LET d == CleanStack(c)
         IN Unwound(c, d, b) /\ d.status = "exception" /\ ~d.noStack
<1> DEFINE markers == {i \in DOMAIN c.calls : c.calls[i].kind = "nested"}
           top == IF markers = {} THEN 0 ELSE CHOOSE i \in markers : \A j \in markers : j <= i
           popped == PopCallState([c EXCEPT !.calls = SubSeq(@, 1, top + 1)])
<1>1. c.calls \in CallStacks /\ DOMAIN c.calls = 1 .. Len(c.calls) /\ Len(c.calls) \in Nat
  BY DEF Contexts, CallStacks
<1>2. top = b
  <2>1. \A i \in markers : i <= b
    BY <1>1 DEF Cut
  <2>2. CASE b = 0
    <3>1. markers = {}
      BY <2>1, <2>2, <1>1
    <3> QED  BY <3>1, <2>2
  <2>3. CASE b # 0
    <3>1. b \in markers
      BY <2>3, <1>1 DEF Cut
    <3>2. \A i \in markers : (\A j \in markers : j <= i) => i = b
      BY <2>1, <3>1, <1>1 DEF Cut
    <3> HIDE DEF markers
    <3>3. (CHOOSE i \in markers : \A j \in markers : j <= i) = b
      BY <2>1, <3>1, <3>2
    <3> QED  BY <3>1, <3>3
  <2> QED  BY <2>2, <2>3
<1>3. CleanStack(c) = [(IF AtBase(c) THEN c ELSE popped) EXCEPT !.status = "exception",
                                                               !.noStack = FALSE]
  BY DEF CleanStack
<1> HIDE DEF top, markers
<1>4. CASE Len(c.calls) = b
  <2>1. CleanStack(c) = [c EXCEPT !.status = "exception", !.noStack = FALSE]
    BY <1>3, <1>4, AtBaseIs
  <2>2. CleanStack(c) \in Contexts /\ StackKept(c, CleanStack(c))
    BY <2>1 DEF Contexts, Statuses, StackKept, CallsKept
  <2>3. CleanStack(c).status = "exception" /\ ~CleanStack(c).noStack
    BY <2>1 DEF Contexts
  <2> QED  BY <2>2, <2>3, <1>4, SameUnwound
<1>5. CASE Len(c.calls) # b
  <2> DEFINE t == SubSeq(c.calls, 1, b + 1)
             d == [c EXCEPT !.calls = t]
             e == PopCallState(d)
  <2>1. /\ b \in Nat /\ b + 1 \in 1 .. Len(c.calls) /\ c.calls[b + 1].kind = "call"
        /\ b \in 0 .. Len(c.calls) - 1
    BY <1>1, <1>5 DEF Cut
  <2>2. t \in CallStacks /\ Len(t) = b + 1 /\ \A j \in 1 .. b + 1 : t[j] = c.calls[j]
    BY <1>1, <2>1 DEF CallStacks
  <2>3. SubSeq(t, 1, b) = SubSeq(c.calls, 1, b)
    BY <1>1, <2>1, <2>2 DEF CallStacks
  <2>4. CleanStack(c) = [e EXCEPT !.status = "exception", !.noStack = FALSE]
    BY <1>2, <1>3, <1>5, AtBaseIs
  <2> HIDE DEF t
  <2>5. /\ d \in Contexts /\ d.calls = t /\ d.initial = c.initial
        /\ d.orig = c.orig /\ d.started = c.started
    BY <2>2 DEF Contexts
  <2>6. b + 1 = Len(d.calls) /\ d.calls[b + 1] = c.calls[b + 1]
    BY <2>1, <2>2, <2>5
  <2> HIDE DEF d
  <2>7. /\ e \in Contexts /\ e.calls = SubSeq(c.calls, 1, b)
        /\ e.index = c.calls[b + 1].index
        /\ e.initial = c.initial
        /\ e.orig = c.orig /\ e.started = c.started
    BY <2>1, <2>3, <2>5, <2>6, PopIs
  <2> HIDE DEF e
  <2>8. /\ CleanStack(c) \in Contexts /\ CleanStack(c).status = "exception"
        /\ ~CleanStack(c).noStack
        /\ CleanStack(c).calls = SubSeq(c.calls, 1, b)
        /\ CleanStack(c).index = c.calls[b + 1].index
        /\ CleanStack(c).initial = c.initial
        /\ CleanStack(c).orig = c.orig /\ CleanStack(c).started = c.started
    BY <2>4, <2>7 DEF Contexts, Statuses
  <2>9. /\ SubSeq(c.calls, 1, b) \in CallStacks /\ Len(SubSeq(c.calls, 1, b)) = b
        /\ \A j \in 1 .. b : SubSeq(c.calls, 1, b)[j] = c.calls[j]
        /\ Chain(SubSeq(c.calls, 1, b), c.calls[b + 1].current)
    BY <1>1, <2>1, ChainCut
  <2>10. Len(SubSeq(c.calls, 1, b)) > 0 =>
           SubSeq(c.calls, 1, b)[Len(SubSeq(c.calls, 1, b))].kind = "nested"
    BY <2>1, <2>9 DEF Cut
  <2>11. \A g : Chain(SubSeq(c.calls, 1, b), g)
    BY <2>9, <2>10, ChainBase
  <2>12. Bare(c.calls, CleanStack(c).calls, b)
    BY <2>8, <2>9 DEF Bare
  <2> QED  BY <2>8, <2>11, <2>12, <1>5 DEF Unwound
<1> QED  BY <1>4, <1>5

-----------------------------------------------------------------------------
(* Prepare.  Cleanable: what must hold of a context for Prepare and        *)
(* Unprepare to clean it up; Clean: what they make of it.                  *)
Cleanable(c, b) ==
  /\ c \in Contexts /\ Cut(c.calls, b) /\ Chain(c.calls, c.current)
  /\ c.status \in {"finished", "uninitialized"} => Len(c.calls) = b /\ ~c.noStack
Rooted(c, b) ==
  /\ c.initial # None => Based(c.calls, b, c.index, c.initial, c.orig)
  /\ c.initial = None => Len(c.calls) = b /\ Placed(c.calls, c.index, c.sp)
                         /\ c.status = "uninitialized"

Clean(c, d, b) ==
  /\ d \in Contexts /\ Bare(c.calls, d.calls, b)
  /\ \A g : Chain(d.calls, g)
  /\ d.status \in {"exception", "finished", "uninitialized"} /\ ~d.noStack
  /\ d.initial = c.initial
  /\ d.orig = c.orig /\ d.started = c.started

LEMMA UnwoundFirst ==
  ASSUME NEW c, NEW b, Cleanable(c, b)
  PROVE  LET d == IF c.status \in {"finished", "uninitialized"} THEN c ELSE CleanStack(c)
         IN /\ Unwound(c, d, b) /\ ~d.noStack
            /\ d.status \in {"exception", "finished", "uninitialized"}
            /\ c.status = "uninitialized" => d = c
<1>1. CASE c.status \in {"finished", "uninitialized"}
  <2>1. StackKept(c, c)
    BY DEF StackKept, CallsKept
  <2> QED  BY <1>1, <2>1, SameUnwound DEF Cleanable
<1>2. CASE c.status \notin {"finished", "uninitialized"}
  BY <1>2, CleanStackIs DEF Cleanable
<1> QED  BY <1>1, <1>2

LEMMA CleanedIs ==
  ASSUME NEW c, NEW b, Cleanable(c, b)
  PROVE  /\ Clean(c, Cleaned(c), b)
         /\ Rooted(c, b) => /\ Placed(Cleaned(c).calls, Cleaned(c).index, Cleaned(c).sp)
                            /\ c.initial # None => Cleaned(c).sp = c.orig
<1> DEFINE u == IF c.status \in {"finished", "uninitialized"} THEN c ELSE CleanStack(c)
           d == Cleaned(c)
<1>1. /\ Unwound(c, u, b) /\ ~u.noStack
      /\ u.status \in {"exception", "finished", "uninitialized"}
      /\ c.status = "uninitialized" => u = c
  BY UnwoundFirst
<1>2. d = IF c.initial = None THEN u ELSE [u EXCEPT !.sp = c.orig]
  BY DEF Cleaned
<1> HIDE DEF u, d
<1>3. c \in Contexts /\ c.orig \in Pointer /\ c.calls \in CallStacks /\ b \in Nat
      /\ b <= Len(c.calls)
  BY DEF Cleanable, Contexts, Cut
<1>4. u \in Contexts
  BY <1>1 DEF Unwound
<1>5. /\ d \in Contexts /\ d.calls = u.calls /\ d.index = u.index /\ d.status = u.status
      /\ d.noStack = u.noStack /\ d.initial = u.initial /\ d.orig = u.orig /\ d.started = u.started
      /\ c.initial # None => d.sp = c.orig
      /\ c.initial = None => d.sp = u.sp
  BY <1>2, <1>3, <1>4 DEF Contexts
<1>6. Clean(c, d, b)
  BY <1>1, <1>5 DEF Clean, Unwound
<1>7. ASSUME Rooted(c, b)  PROVE Placed(d.calls, d.index, d.sp)
  <2>1. /\ Len(u.calls) = b /\ \A j \in 1 .. b : u.calls[j] = c.calls[j]
        /\ u.index = IF b = Len(c.calls) THEN c.index ELSE c.calls[b + 1].index
    BY <1>1 DEF Unwound, Bare
  <2>2. CASE c.initial # None
    <3>1. Based(c.calls, b, c.index, c.initial, c.orig)
      BY <1>7, <2>2 DEF Rooted
    <3>2. c.orig.block = u.index /\ Lowest(c.calls, b, c.orig.block, c.orig.left)
      BY <2>1, <3>1 DEF Based
    <3>3. Lowest(u.calls, b, c.orig.block, c.orig.left)
      BY <1>3, <2>1, <3>2, LowestAgrees
    <3> QED  BY <1>5, <2>1, <2>2, <3>2, <3>3 DEF Placed
  <2>3. CASE c.initial = None
    <3>1. u = c /\ Placed(c.calls, c.index, c.sp)
      BY <1>1, <1>7, <2>3 DEF Rooted
    <3> QED  BY <1>5, <2>3, <3>1
  <2> QED  BY <2>2, <2>3
<1> QED  BY <1>5, <1>6, <1>7 DEF d

(* A pointer that ReserveStackSpace has moved is still below every frame. *)
LEMMA MovedPlaced ==
  ASSUME NEW c \in Contexts, NEW d, Moved(c, d), Placed(c.calls, c.index, c.sp)
  PROVE  Placed(d.calls, d.index, d.sp)
<1>1. /\ c.calls \in CallStacks /\ Len(c.calls) \in Nat /\ c.index \in Nat /\ c.sp \in Pointer
      /\ d.index \in Nat /\ d.sp \in Pointer /\ d.calls = c.calls
  BY DEF Contexts, CallStacks, Moved, CallsKept
<1>2. c.sp.left \in Int /\ d.sp.left \in Int
  BY <1>1 DEF Pointer
<1>3. Lowest(c.calls, Len(c.calls), c.index, c.sp.left) /\ c.sp.block = c.index
  BY DEF Placed
<1>4. CASE d.index = c.index
  BY <1>1, <1>3, <1>4 DEF Placed, Moved
<1>5. CASE d.index # c.index
  <2>1. d.index > c.index /\ d.sp.block = d.index
    BY <1>1, <1>5 DEF Moved
  <2>2. Lowest(c.calls, Len(c.calls), d.index, d.sp.left)
    BY <1>1, <1>2, <1>3, <2>1, LowestLower
  <2> QED  BY <1>1, <2>1, <2>2 DEF Placed
<1> QED  BY <1>4, <1>5

LEMMA PlacedLower ==
  ASSUME NEW c \in Contexts, NEW d \in Contexts, d.calls = c.calls, d.index = c.index,
         d.sp.block = c.sp.block, d.sp.left <= c.sp.left, Placed(c.calls, c.index, c.sp)
  PROVE  Placed(d.calls, d.index, d.sp)
<1>1. /\ c.calls \in CallStacks /\ Len(c.calls) \in Nat /\ c.index \in Nat
      /\ c.sp.left \in Int /\ d.sp.left \in Int
  BY DEF Contexts, CallStacks, Pointer
<1>2. Lowest(c.calls, Len(c.calls), c.index, d.sp.left)
  BY <1>1, LowestLower DEF Placed
<1> QED  BY <1>1, <1>2 DEF Placed

(* Ready: a context as Prepare leaves it, over the first b calls of c.     *)
Ready(c, d, b, f) ==
  /\ d \in Contexts /\ Bare(c.calls, d.calls, b) /\ Chain(d.calls, d.current)
  /\ d.initial = f /\ d.current = f
  /\ ~d.noStack => d.status = "prepared" /\ ~d.started
  /\ d.noStack => d.status = "exception"
InPlace(d, b, f) ==
  /\ Placed(d.calls, d.index, d.sp)
  /\ d.sp.left >= Fn[f].needed + Reserve
  /\ Based(d.calls, b, d.index, f, d.orig)

LEMMA PreparedIs ==
  ASSUME NEW c \in Contexts, c.current \in Functions
  PROVE  LET d == Prepared(c)
         IN /\ d \in Contexts /\ d.calls = c.calls /\ d.initial = c.initial
            /\ d.current = c.current /\ d.index = c.index /\ d.noStack = c.noStack
            /\ d.status = "prepared" /\ ~d.started /\ d.orig = c.sp
            /\ d.sp.block = c.sp.block /\ d.sp.left = c.sp.left - Fn[c.current].args
<1> DEFINE u == IF c.status = "finished" THEN c
                ELSE [c EXCEPT !.doAbort = FALSE, !.doSuspend = FALSE, !.process = c.line]
           n == Fn[c.current].args
           p == Push(u, n)
<1>1. /\ u \in Contexts /\ StackKept(c, u) /\ u.noStack = c.noStack
  BY DEF Contexts, StackKept, CallsKept
<1>2. n \in Int /\ c.sp \in Pointer
  BY FnNat DEF Contexts
<1>3. Prepared(c) = [p EXCEPT !.status = "prepared", !.started = FALSE, !.orig = c.sp]
  BY DEF Prepared
<1> HIDE DEF u, n
<1>4. /\ p \in Contexts /\ CallsKept(u, p) /\ p.index = u.index /\ p.noStack = u.noStack
      /\ p.sp.block = u.sp.block /\ p.sp.left = u.sp.left - n
  BY <1>1, <1>2, PushIs
<1> HIDE DEF p
<1>5. /\ p.calls = c.calls /\ p.initial = c.initial /\ p.current = c.current
      /\ p.index = c.index /\ p.noStack = c.noStack
      /\ p.sp.block = c.sp.block /\ p.sp.left = c.sp.left - n
  BY <1>1, <1>4 DEF StackKept, CallsKept
<1>6. Prepared(c) \in Contexts
  BY <1>2, <1>3, <1>4 DEF Contexts, Statuses
<1>7. /\ Prepared(c).calls = p.calls /\ Prepared(c).initial = p.initial
      /\ Prepared(c).current = p.current /\ Prepared(c).index = p.index
      /\ Prepared(c).noStack = p.noStack /\ Prepared(c).sp = p.sp
      /\ Prepared(c).status = "prepared" /\ ~Prepared(c).started /\ Prepared(c).orig = c.sp
  BY <1>3, <1>4 DEF Contexts
<1> QED  BY <1>5, <1>6, <1>7 DEF n

(* From a context with the function set and its stack where it begins.     *)
LEMMA PreparedReady ==
  ASSUME NEW c, NEW e \in Contexts, NEW b, NEW f \in Functions, Bare(c.calls, e.calls, b),
         Chain(e.calls, f), e.initial = f, e.current = f, ~e.noStack
  PROVE  /\ Ready(c, Prepared(e), b, f)
         /\ Placed(e.calls, e.index, e.sp) /\ e.sp.left >= Fn[f].args + Fn[f].needed + Reserve
              => InPlace(Prepared(e), b, f)
<1> DEFINE d == Prepared(e)
<1>1. /\ d \in Contexts /\ d.calls = e.calls /\ d.initial = f /\ d.current = f
      /\ d.index = e.index /\ ~d.noStack /\ d.status = "prepared" /\ ~d.started /\ d.orig = e.sp
      /\ d.sp.block = e.sp.block /\ d.sp.left = e.sp.left - Fn[f].args
  BY PreparedIs
<1> HIDE DEF d
<1>2. /\ Fn[f].args \in Nat /\ Fn[f].needed \in Nat /\ Reserve \in Nat /\ e.sp.left \in Int
  BY FnNat DEF Contexts, Pointer
<1>3. Ready(c, d, b, f)
  BY <1>1 DEF Ready
<1>4. ASSUME Placed(e.calls, e.index, e.sp), e.sp.left >= Fn[f].args + Fn[f].needed + Reserve
      PROVE  InPlace(d, b, f)
  <2>1. d.sp.left <= e.sp.left /\ d.sp.left >= Fn[f].needed + Reserve
    BY <1>1, <1>2, <1>4
  <2>2. Placed(d.calls, d.index, d.sp)
    BY <1>1, <1>4, <2>1, PlacedLower
  <2>3. b = Len(d.calls)
    BY <1>1 DEF Bare
  <2>4. Based(d.calls, b, d.index, f, d.orig)
    BY <1>1, <1>4, <2>3 DEF Based, Placed
  <2> QED  BY <2>1, <2>2, <2>4 DEF InPlace
<1> QED  BY <1>3, <1>4 DEF d

LEMMA PrepareIs ==
  ASSUME NEW c, NEW b, Cleanable(c, b), NEW f \in Functions
  PROVE  LET d == Prepare(c, f)
         IN Ready(c, d, b, f) /\ (Rooted(c, b) /\ ~d.noStack => InPlace(d, b, f))
<1> DEFINE u == Cleaned(c)
           d == [u EXCEPT !.initial = f, !.current = f]
           n == Fn[f].args + Fn[f].needed
           e == IF f = c.initial THEN d ELSE ReserveStackSpace(d, n)
<1>1. /\ Clean(c, u, b)
      /\ Rooted(c, b) => /\ Placed(u.calls, u.index, u.sp)
                         /\ c.initial # None => u.sp = c.orig
  BY CleanedIs
<1>2. Prepare(c, f) = IF e.noStack THEN e ELSE Prepared(e)
  BY DEF Prepare
<1> HIDE DEF u
<1>3. /\ d \in Contexts /\ d.calls = u.calls /\ d.index = u.index /\ d.sp = u.sp
      /\ d.initial = f /\ d.current = f /\ d.noStack = u.noStack /\ d.status = u.status
  BY <1>1 DEF Clean, Contexts, FunctionOrNone
<1> HIDE DEF d
<1>4. n \in Nat /\ f # None /\ Fn[f].args \in Nat /\ Fn[f].needed \in Nat /\ Reserve \in Nat
  BY FnNat
<1> HIDE DEF n
<1>5. /\ e \in Contexts /\ e.calls = d.calls /\ e.initial = f /\ e.current = f
      /\ e.noStack => e.status = "exception"
      /\ Rooted(c, b) /\ ~e.noStack =>
           Placed(e.calls, e.index, e.sp) /\ e.sp.left >= n + Reserve
  <2>1. CASE f = c.initial
    <3>1. e = d /\ ~d.noStack
      BY <2>1, <1>1, <1>3 DEF Clean
    <3>2. Rooted(c, b) => Placed(d.calls, d.index, d.sp) /\ d.sp.left >= n + Reserve
      BY <1>1, <1>3, <1>4, <2>1 DEF Rooted, Based, n
    <3> HIDE DEF e
    <3> QED  BY <3>1, <3>2, <1>3
  <2>2. CASE f # c.initial
    <3>1. e = ReserveStackSpace(d, n)
      BY <2>2
    <3> HIDE DEF e
    <3>2. /\ Moved(d, e)
          /\ \/ Fits(e, n) /\ e.noStack = d.noStack
             \/ e.noStack /\ e.status = "exception"
      BY <3>1, <1>3, <1>4, ReserveIs
    <3>3. e \in Contexts /\ e.calls = d.calls /\ e.initial = f /\ e.current = f
      BY <3>2, <1>3 DEF Moved, CallsKept
    <3>4. e.noStack => e.status = "exception"
      BY <3>2, <1>1, <1>3 DEF Clean
    <3>5. ASSUME Rooted(c, b), ~e.noStack
          PROVE  Placed(e.calls, e.index, e.sp) /\ e.sp.left >= n + Reserve
      <4>1. Placed(e.calls, e.index, e.sp)
        BY <3>2, <3>5, <1>1, <1>3, MovedPlaced
      <4>2. e.sp.block = e.index /\ e.sp.left \in Int
        BY <3>3, <4>1 DEF Placed, Contexts, Pointer
      <4>3. e.sp.left >= n + Reserve
        BY <1>4, <3>2, <3>5, <4>2 DEF Fits, Distance
      <4> QED  BY <4>1, <4>3
    <3> QED  BY <3>3, <3>4, <3>5
  <2> QED  BY <2>1, <2>2
<1> HIDE DEF e
<1>6. Bare(c.calls, e.calls, b) /\ Chain(e.calls, f)
  BY <1>1, <1>3, <1>5 DEF Clean
<1>7. CASE e.noStack
  <2>1. Prepare(c, f) = e
    BY <1>2, <1>7
  <2> QED  BY <2>1, <1>5, <1>6, <1>7 DEF Ready
<1>8. CASE ~e.noStack
  <2>1. Prepare(c, f) = Prepared(e)
    BY <1>2, <1>8
  <2> QED  BY <2>1, <1>5, <1>6, <1>8, PreparedReady DEF n
<1> QED  BY <1>7, <1>8

-----------------------------------------------------------------------------
(* What is laid on what was put aside. *)
LEMMA RestorableIs ==
  ASSUME NEW p \in Restorables
  PROVE  /\ p.calls \in CallStacks /\ Len(p.calls) \in Nat
         /\ FrameOf(p) \in CallState /\ MarkerOf(p) \in Marker
         /\ FrameOf(p).kind = "call" /\ MarkerOf(p).kind = "nested"
         /\ p.current \in Functions /\ p.initial \in Functions
         /\ p.sp \in Pointer /\ p.sp.left \in Int
<1>1. p.calls \in CallStacks /\ p.sp \in Pointer
  BY DEF Restorables
<1>2. FrameOf(p) \in CallState /\ MarkerOf(p) \in Marker
  BY DEF Restorables, CallState, Marker, FrameOf, MarkerOf
<1>3. p.current \in Functions /\ p.initial \in Functions
  BY DEF Restorables
<1> QED  BY <1>1, <1>2, <1>3 DEF CallStacks, Pointer, FrameOf, MarkerOf

LEMMA LaidCut ==
  ASSUME NEW ps \in Seq(Restorables), NEW n \in 0 .. Len(ps), NEW s \in CallStacks,
         LaidOn(ps, n, s)
  PROVE  Cut(s, BaseOf(ps, n)) /\ BaseOf(ps, n) \in Nat
<1>1. Len(s) \in Nat
  BY DEF CallStacks
<1>2. CASE n = 0
  BY <1>1, <1>2 DEF LaidOn, BaseOf, Cut
<1>3. CASE n # 0
  <2>1. ps[n] \in Restorables
    BY <1>3
  <2>2. /\ Len(ps[n].calls) \in Nat /\ MarkerOf(ps[n]).kind = "nested"
        /\ BaseOf(ps, n) = Len(ps[n].calls) + 2
    BY <1>3, <2>1, RestorableIs DEF BaseOf
  <2>3. s[BaseOf(ps, n)].kind = "nested"
    BY <1>3, <2>2 DEF LaidOn
  <2> QED  BY <1>1, <2>2, <2>3 DEF LaidOn, Cut
<1> QED  BY <1>2, <1>3

(* Only the frames on top come and go. *)
LEMMA LaidAgrees ==
  ASSUME NEW ps \in Seq(Restorables), NEW n \in 0 .. Len(ps), NEW s \in CallStacks,
         LaidOn(ps, n, s), NEW t \in CallStacks, BaseOf(ps, n) <= Len(t),
         \A i \in 1 .. BaseOf(ps, n) : t[i] = s[i],
         \A i \in 1 .. Len(t) : i > BaseOf(ps, n) => t[i].kind = "call"
  PROVE  LaidOn(ps, n, t)
<1>1. CASE n = 0
  BY <1>1 DEF LaidOn
<1>2. CASE n # 0
  <2>1. Len(ps[n].calls) \in Nat /\ BaseOf(ps, n) = Len(ps[n].calls) + 2
    BY <1>2, RestorableIs DEF BaseOf
  <2>2. /\ \A i \in 1 .. Len(ps[n].calls) : t[i] = s[i]
        /\ t[Len(ps[n].calls) + 1] = s[Len(ps[n].calls) + 1]
        /\ t[Len(ps[n].calls) + 2] = s[Len(ps[n].calls) + 2]
    <3> DEFINE l == Len(ps[n].calls)
               b == BaseOf(ps, n)
    <3>1. l \in Nat /\ b = l + 2 /\ \A i \in 1 .. b : t[i] = s[i]
      BY <2>1
    <3> HIDE DEF l, b
    <3>2. (\A i \in 1 .. l : t[i] = s[i]) /\ t[l + 1] = s[l + 1] /\ t[l + 2] = s[l + 2]
      BY <3>1
    <3> QED  BY <3>2 DEF l
  <2> QED  BY <2>2, <1>2 DEF LaidOn
<1> QED  BY <1>1, <1>2

LEMMA LaidBare ==
  ASSUME NEW ps \in Seq(Restorables), NEW n \in 0 .. Len(ps), NEW s \in CallStacks,
         LaidOn(ps, n, s), NEW t, Bare(s, t, BaseOf(ps, n))
  PROVE  LaidOn(ps, n, t)
<1>1. BaseOf(ps, n) \in Nat
  BY LaidCut
<1> QED  BY <1>1, LaidAgrees DEF Bare

LEMMA LaidPush ==
  ASSUME NEW ps \in Seq(Restorables), NEW n \in 0 .. Len(ps), NEW s \in CallStacks,
         LaidOn(ps, n, s), NEW e \in CallState
  PROVE  LaidOn(ps, n, Append(s, e))
<1> DEFINE t == Append(s, e)
<1>1. /\ t \in CallStacks /\ Len(t) = Len(s) + 1 /\ t[Len(s) + 1] = e /\ Len(s) \in Nat
      /\ \A j \in 1 .. Len(s) : t[j] = s[j]
  BY DEF CallStacks
<1>2. e.kind = "call" /\ BaseOf(ps, n) \in Nat /\ BaseOf(ps, n) <= Len(s)
  BY LaidCut DEF CallState, LaidOn
<1> HIDE DEF t
<1>3. ASSUME NEW i \in 1 .. Len(t), i > BaseOf(ps, n)  PROVE t[i].kind = "call"
  <2>1. CASE i = Len(s) + 1
    BY <2>1, <1>1, <1>2
  <2>2. CASE i # Len(s) + 1
    <3>1. i \in 1 .. Len(s) /\ t[i] = s[i]
      BY <2>2, <1>1
    <3> QED  BY <3>1, <1>3 DEF LaidOn
  <2> QED  BY <2>1, <2>2
<1>4. BaseOf(ps, n) <= Len(t) /\ \A i \in 1 .. BaseOf(ps, n) : t[i] = s[i]
  BY <1>1, <1>2
<1>5. LaidOn(ps, n, t)
  BY <1>1, <1>3, <1>4, LaidAgrees
<1> QED  BY <1>5 DEF t

LEMMA LaidPop ==
  ASSUME NEW ps \in Seq(Restorables), NEW n \in 0 .. Len(ps), NEW s \in CallStacks,
         LaidOn(ps, n, s), NEW m \in Nat, BaseOf(ps, n) <= m, m <= Len(s)
  PROVE  LaidOn(ps, n, SubSeq(s, 1, m))
<1> DEFINE t == SubSeq(s, 1, m)
<1>1. /\ t \in CallStacks /\ Len(t) = m /\ Len(s) \in Nat
      /\ \A j \in 1 .. m : t[j] = s[j]
  BY DEF CallStacks
<1>2. BaseOf(ps, n) \in Nat
  BY LaidCut
<1> HIDE DEF t
<1>3. \A i \in 1 .. Len(t) : i > BaseOf(ps, n) => t[i].kind = "call"
  BY <1>1 DEF LaidOn
<1>4. BaseOf(ps, n) <= Len(t) /\ \A i \in 1 .. BaseOf(ps, n) : t[i] = s[i]
  BY <1>1, <1>2
<1>5. LaidOn(ps, n, t)
  BY <1>1, <1>3, <1>4, LaidAgrees
<1> QED  BY <1>5 DEF t

(* One more is put aside: those before stay. *)
LEMMA SavedAppend ==
  ASSUME NEW ps \in Seq(Restorables), NEW p \in Restorables,
         \A n \in 1 .. Len(ps) : Saved(ps, n),
         LaidOn(ps, Len(ps), p.calls), Chain(p.calls, p.current),
         Based(p.calls, BaseOf(ps, Len(ps)), p.index, p.initial, p.orig),
         Running(p.calls, p.current, p.index, p.sp)
  PROVE  LET qs == Append(ps, p)
         IN /\ qs \in Seq(Restorables) /\ Len(qs) = Len(ps) + 1 /\ qs[Len(qs)] = p
            /\ \A n \in 1 .. Len(qs) : Saved(qs, n)
<1> DEFINE qs == Append(ps, p)
<1>1. /\ qs \in Seq(Restorables) /\ Len(qs) = Len(ps) + 1 /\ qs[Len(ps) + 1] = p
      /\ Len(ps) \in Nat /\ \A n \in 1 .. Len(ps) : qs[n] = ps[n]
  OBVIOUS
<1> HIDE DEF qs
<1>2. \A n \in 0 .. Len(ps) : BaseOf(qs, n) = BaseOf(ps, n)
  BY <1>1 DEF BaseOf
<1>3. ASSUME NEW n \in 0 .. Len(ps), NEW s, LaidOn(ps, n, s)  PROVE LaidOn(qs, n, s)
  <2>1. n > 0 => qs[n] = ps[n]
    BY <1>1
  <2> QED  BY <1>2, <1>3, <2>1 DEF LaidOn
<1>4. ASSUME NEW n \in 1 .. Len(ps)  PROVE Saved(qs, n)
  <2>1. Saved(ps, n) /\ qs[n] = ps[n] /\ n - 1 \in 0 .. Len(ps)
    BY <1>1
  <2>2. LaidOn(qs, n - 1, ps[n].calls)
    BY <1>3, <2>1 DEF Saved
  <2>3. BaseOf(qs, n - 1) = BaseOf(ps, n - 1)
    BY <1>2, <2>1
  <2> QED  BY <2>1, <2>2, <2>3 DEF Saved
<1>5. Saved(qs, Len(ps) + 1)
  <2>1. LaidOn(qs, Len(ps), p.calls) /\ Len(ps) + 1 - 1 = Len(ps)
    BY <1>1, <1>3
  <2>2. BaseOf(qs, Len(ps)) = BaseOf(ps, Len(ps))
    BY <1>1, <1>2
  <2> QED  BY <1>1, <2>1, <2>2 DEF Saved
<1>6. \A n \in 1 .. Len(qs) : Saved(qs, n)
  <2> SUFFICES ASSUME NEW n \in 1 .. Len(qs)  PROVE Saved(qs, n)
    OBVIOUS
  <2>1. n \in 1 .. Len(ps) \/ n = Len(ps) + 1
    BY <1>1
  <2> QED  BY <2>1, <1>4, <1>5
<1> QED  BY <1>1, <1>6 DEF qs

LEMMA LaidMark ==
  ASSUME NEW ps \in Seq(Restorables), NEW p \in Restorables
  PROVE  LET t == Append(Append(p.calls, FrameOf(p)), MarkerOf(p))
             qs == Append(ps, p)
         IN t \in CallStacks /\ LaidOn(qs, Len(qs), t) /\ BaseOf(qs, Len(qs)) = Len(t)
<1> DEFINE u == Append(p.calls, FrameOf(p))
           t == Append(u, MarkerOf(p))
           qs == Append(ps, p)
<1>1. Len(qs) = Len(ps) + 1 /\ qs[Len(qs)] = p /\ Len(qs) > 0
  OBVIOUS
<1>2. p.calls \in CallStacks /\ FrameOf(p) \in CallState /\ MarkerOf(p) \in Marker
  BY RestorableIs
<1>3. /\ u \in CallStacks /\ Len(u) = Len(p.calls) + 1 /\ u[Len(p.calls) + 1] = FrameOf(p)
      /\ \A j \in 1 .. Len(p.calls) : u[j] = p.calls[j] /\ Len(p.calls) \in Nat
  BY <1>2 DEF CallStacks
<1>4. Len(p.calls) \in Nat
  BY <1>2 DEF CallStacks
<1> HIDE DEF u
<1>5. /\ t \in CallStacks /\ Len(t) = Len(u) + 1 /\ t[Len(u) + 1] = MarkerOf(p)
      /\ \A j \in 1 .. Len(u) : t[j] = u[j]
  BY <1>2, <1>3 DEF CallStacks
<1> HIDE DEF t, qs
<1>6. BaseOf(qs, Len(qs)) = Len(p.calls) + 2
  BY <1>1 DEF BaseOf
<1>7. /\ \A j \in 1 .. Len(p.calls) : t[j] = p.calls[j]
      /\ t[Len(p.calls) + 1] = FrameOf(p) /\ t[Len(p.calls) + 2] = MarkerOf(p)
      /\ Len(t) = Len(p.calls) + 2
  BY <1>3, <1>4, <1>5
<1>8. LaidOn(qs, Len(qs), t)
  BY <1>1, <1>4, <1>6, <1>7 DEF LaidOn
<1> QED  BY <1>5, <1>6, <1>7, <1>8 DEF t, u, qs

-----------------------------------------------------------------------------
(* Requests, callbacks and exceptions change the flags and the status.     *)
Flagged(c, d) == d \in Contexts /\ StackKept(c, d) /\ d.noStack = c.noStack
Asked(c, d) ==
  Flagged(c, d) /\ (d.status = c.status \/ (c.status = "suspended" /\ d.status = "aborted"))

LEMMA FlaggedTwice ==
  ASSUME NEW c, NEW d, NEW e, Flagged(c, d), Flagged(d, e)
  PROVE  Flagged(c, e)
BY DEF Flagged, StackKept, CallsKept

LEMMA SuspendIs ==
  ASSUME NEW c \in Contexts
  PROVE  Flagged(c, Suspend(c)) /\ Suspend(c).status = c.status
BY DEF Suspend, Contexts, Flagged, StackKept, CallsKept

LEMMA AbortIs ==
  ASSUME NEW c \in Contexts
  PROVE  Asked(c, Abort(c))
<1> DEFINE s == Suspend(c)
           a == IF s.status = "suspended" THEN "aborted" ELSE s.status
<1>1. Flagged(c, s) /\ s.status = c.status /\ s \in Contexts
  BY SuspendIs DEF Flagged
<1> HIDE DEF s
<1>2. a \in Statuses
  BY <1>1 DEF Contexts, Statuses
<1>3. Abort(c) = [s EXCEPT !.status = a, !.doAbort = TRUE]
  BY <1>1 DEF Abort, s, Contexts
<1>4. Flagged(s, Abort(c)) /\ Abort(c).status = a
  <2> HIDE DEF a
  <2> QED  BY <1>1, <1>2, <1>3 DEF Contexts, Flagged, StackKept, CallsKept
<1> QED  BY <1>1, <1>4, FlaggedTwice DEF Asked

LEMMA RequestedIs ==
  ASSUME NEW c \in Contexts, NEW q \in Requests
  PROVE  Asked(c, Requested(c, q))
<1>1. q = "nothing" => Requested(c, q) = c
  BY DEF Requested
<1>2. q = "suspend" => Requested(c, q) = Suspend(c)
  BY DEF Requested
<1>3. q = "abort" => Requested(c, q) = Abort(c)
  BY DEF Requested
<1>4. Asked(c, c)
  BY DEF Asked, Flagged, StackKept, CallsKept
<1> QED  BY <1>1, <1>2, <1>3, <1>4, SuspendIs, AbortIs DEF Requests, Asked

LEMMA LineCallbackIs ==
  ASSUME NEW c \in Contexts, NEW q \in Requests
  PROVE  Asked(c, LineCallback(c, q))
<1>1. Asked(c, c)
  BY DEF Asked, Flagged, StackKept, CallsKept
<1> QED  BY <1>1, RequestedIs DEF LineCallback

LEMMA CheckedIs ==
  ASSUME NEW c \in Contexts
  PROVE  Flagged(c, Checked(c)) /\ Checked(c).status \in {c.status, "suspended"}
BY DEF Checked, Contexts, Statuses, Flagged, StackKept, CallsKept

LEMMA SetExceptionIs ==
  ASSUME NEW c \in Contexts
  PROVE  Flagged(c, SetException(c)) /\ SetException(c).status \in {c.status, "exception"}
<1>1. CASE c.calling = None
  <2>1. SetException(c) = c
    BY <1>1 DEF SetException
  <2> QED  BY <2>1 DEF Flagged, StackKept, CallsKept
<1>2. CASE c.calling # None
  <2>1. SetException(c) = [c EXCEPT !.status = "exception", !.process = TRUE]
    BY <1>2 DEF SetException
  <2> QED  BY <2>1 DEF Contexts, Statuses, Flagged, StackKept, CallsKept
<1> QED  BY <1>1, <1>2

LEMMA FinishIs ==
  ASSUME NEW c \in Contexts
  PROVE  Flagged(c, Finish(c)) /\ Finish(c).status \in {c.status, "aborted"}
<1>1. CASE c.status # "finished" /\ c.doAbort
  <2>1. Finish(c) = [c EXCEPT !.doAbort = FALSE, !.status = "aborted"]
    BY <1>1 DEF Finish
  <2> QED  BY <2>1 DEF Contexts, Statuses, Flagged, StackKept, CallsKept
<1>2. CASE ~(c.status # "finished" /\ c.doAbort)
  <2>1. Finish(c) = c
    BY <1>2 DEF Finish
  <2> QED  BY <2>1 DEF Flagged, StackKept, CallsKept
<1> QED  BY <1>1, <1>2

(* They keep the invariant: what runs may be stopped, and what is not      *)
(* unwound may be suspended.                                               *)
LEMMA FlaggedOK ==
  ASSUME NEW c, NEW ps, NEW right, ContextOK(c, ps, right), NEW d, Flagged(c, d),
         \/ d.status = c.status
         \/ d.status \in {"exception", "aborted"} /\ c.status # "uninitialized"
         \/ /\ d.status = "suspended" /\ c.status # "uninitialized"
            /\ Running(c.calls, c.current, c.index, c.sp) /\ c.started /\ ~c.noStack
         \/ /\ d.status = "finished" /\ c.status = "active"
            /\ Len(c.calls) = BaseOf(ps, Len(ps))
  PROVE  ContextOK(d, ps, right)
<1>1. Statuswise(c, BaseOf(ps, Len(ps)))
  BY DEF ContextOK
<1>2. /\ d.calls = c.calls /\ d.current = c.current /\ d.initial = c.initial /\ d.orig = c.orig
      /\ d.started = c.started /\ d.sp = c.sp /\ d.index = c.index /\ d.noStack = c.noStack
      /\ d \in Contexts
  BY DEF Flagged, StackKept, CallsKept
<1>3. Statuswise(d, BaseOf(ps, Len(ps)))
  BY <1>1, <1>2 DEF Statuswise
<1> QED  BY <1>2, <1>3 DEF ContextOK

-----------------------------------------------------------------------------
(* Entering a function. *)
LEMMA PrepareScriptIs ==
  ASSUME NEW c \in Contexts, c.current \in Functions, NEW q \in Requests, c.status = "active",
         ~c.noStack, c.sp.block = c.index
  PROVE  LET d == PrepareScriptFunction(c, q)
         IN /\ d \in Contexts /\ CallsKept(c, d)
            /\ Fits(c, Fn[c.current].needed) => ~d.noStack /\ d.index = c.index
            /\ d.noStack => d.status = "exception"
            /\ ~d.noStack =>
                 /\ d.status \in {"active", "suspended"}
                 /\ d.sp.left >= Room(c.current)
                 /\ Placed(c.calls, c.index, c.sp) => Placed(d.calls, d.index, d.sp)
<1> DEFINE need == Fn[c.current].needed
           d == ReserveStackSpace(c, need)
           e == Push(d, Fn[c.current].locals)
           l == LineCallback(e, q)
           p == PrepareScriptFunction(c, q)
<1>1. /\ need \in Nat /\ Fn[c.current].locals \in Nat /\ Fn[c.current].locals \in Int
      /\ Reserve \in Nat /\ Room(c.current) = need - Fn[c.current].locals + Reserve
  BY FnNat DEF Room
<1>2. /\ Moved(c, d)
      /\ \/ Fits(d, need) /\ d.status = c.status /\ d.noStack = c.noStack
            /\ (Fits(c, need) => d = c)
         \/ ~Fits(c, need) /\ d.noStack /\ d.status = "exception"
  BY <1>1, ReserveIs
<1>3. p = IF d.noStack THEN d ELSE IF e.process THEN Checked(l) ELSE e
  BY DEF PrepareScriptFunction
<1>4. d \in Contexts /\ CallsKept(c, d)
  BY <1>2 DEF Moved
<1> HIDE DEF d, need
<1>5. CASE d.noStack
  <2>1. p = d
    BY <1>3, <1>5
  <2> QED  BY <2>1, <1>2, <1>4, <1>5 DEF need
<1>6. CASE ~d.noStack
  <2>1. /\ e \in Contexts /\ CallsKept(d, e) /\ e.index = d.index /\ e.status = d.status
        /\ e.noStack = d.noStack
        /\ e.sp.block = d.sp.block /\ e.sp.left = d.sp.left - Fn[c.current].locals
    BY <1>1, <1>4, PushIs
  <2>2. p = IF e.process THEN Checked(l) ELSE e
    BY <1>3, <1>6
  <2> HIDE DEF e
  <2>3. Asked(e, l) /\ l \in Contexts
    BY <2>1, LineCallbackIs DEF Asked, Flagged
  <2>4. Flagged(l, Checked(l)) /\ Checked(l).status \in {l.status, "suspended"}
    BY <2>3, CheckedIs
  <2>5. e.status = "active"
    BY <1>2, <1>6, <2>1
  <2>6. Flagged(e, p) /\ p.status \in {"active", "suspended"}
    <3>1. Flagged(e, e)
      BY <2>1 DEF Flagged, StackKept, CallsKept
    <3>2. Flagged(e, Checked(l))
      BY <2>3, <2>4, FlaggedTwice DEF Asked
    <3> HIDE DEF l, p
    <3> QED  BY <2>2, <2>3, <2>4, <2>5, <3>1, <3>2 DEF Asked
  <2> HIDE DEF p, l
  <2>7. /\ p \in Contexts /\ CallsKept(c, p) /\ p.index = e.index /\ p.sp = e.sp
        /\ p.noStack = e.noStack
    BY <1>4, <2>1, <2>6 DEF Flagged, StackKept, CallsKept
  <2>8. Fits(c, need) => p.index = c.index
    BY <1>2, <2>1, <2>7, <1>6
  <2>9. d.sp.left \in Int
    BY <1>4 DEF Contexts, Pointer
  <2>10. Fits(d, need)
    BY <1>2, <1>6
  <2>11. p.sp.left >= Room(c.current) /\ e.sp.left <= d.sp.left
    <3>1. d.sp.block = d.index
      BY <1>2, <1>4 DEF Moved, Contexts
    <3>2. d.sp.left >= need + Reserve
      BY <1>1, <2>9, <2>10, <3>1 DEF Fits, Distance
    <3> QED  BY <1>1, <2>1, <2>7, <2>9, <3>2
  <2>12. ASSUME Placed(c.calls, c.index, c.sp)  PROVE Placed(p.calls, p.index, p.sp)
    <3>1. Placed(d.calls, d.index, d.sp)
      BY <1>2, <2>12, MovedPlaced
    <3>2. Placed(e.calls, e.index, e.sp)
      BY <1>4, <2>1, <2>11, <3>1, PlacedLower DEF CallsKept
    <3>3. p.calls = e.calls
      BY <1>4, <2>1, <2>7 DEF CallsKept
    <3> QED  BY <2>7, <3>2, <3>3
  <2> QED  BY <1>6, <2>1, <2>6, <2>7, <2>8, <2>11, <2>12 DEF need, p
<1> QED  BY <1>5, <1>6

(* Execute: of a function that was prepared, or that was suspended. *)
LEMMA ExecuteIs ==
  ASSUME NEW c, NEW ps, ContextOK(c, ps, TRUE), NEW q \in Requests,
         c.status \in {"prepared", "suspended"}
  PROVE  ContextOK(Execute(c, q), ps, TRUE) /\ Execute(c, q).status # "uninitialized"
<1> DEFINE b == BaseOf(ps, Len(ps))
           d == [c EXCEPT !.status = "active", !.started = TRUE]
           e == Execute(c, q)
<1>1. c \in Contexts /\ Statuswise(c, b)
  BY DEF ContextOK
<1>2. /\ d \in Contexts /\ d.status = "active" /\ d.started
      /\ d.calls = c.calls /\ d.current = c.current /\ d.initial = c.initial
      /\ d.orig = c.orig /\ d.sp = c.sp /\ d.index = c.index /\ d.noStack = c.noStack
  BY <1>1 DEF Contexts, Statuses
<1>3. e = IF c.started THEN d ELSE PrepareScriptFunction(d, q)
  BY DEF Execute
<1> HIDE DEF d, e
<1>4. c.initial # None /\ c.current # None /\ ~c.noStack /\ c.current \in Functions
  BY <1>1 DEF Statuswise, Contexts, FunctionOrNone
<1>5. CASE c.status = "suspended"
  <2>1. e = d
    BY <1>1, <1>3, <1>5 DEF Statuswise
  <2>2. Running(d.calls, d.current, d.index, d.sp)
    BY <1>1, <1>2, <1>5 DEF Statuswise
  <2>3. Statuswise(e, b)
    BY <1>2, <1>4, <2>1, <2>2 DEF Statuswise
  <2> HIDE DEF b
  <2>4. ContextOK(e, ps, TRUE)
    BY <1>2, <2>1, <2>3 DEF ContextOK, b
  <2> QED  BY <1>2, <2>1, <2>4 DEF e
<1>6. CASE c.status = "prepared"
  <2>1. /\ e = PrepareScriptFunction(d, q)
        /\ Placed(d.calls, d.index, d.sp)
        /\ d.sp.left >= Fn[d.current].needed + Reserve
        /\ Len(c.calls) = b
    BY <1>1, <1>2, <1>3, <1>6 DEF Statuswise
  <2>2. d.sp.block = d.index /\ Fits(d, Fn[d.current].needed)
    <3>1. d.sp.block = d.index /\ d.sp.left \in Int
      BY <1>2, <2>1 DEF Placed, Contexts, Pointer
    <3> QED  BY <2>1, <3>1 DEF Fits, Distance
  <2>3. /\ e \in Contexts /\ CallsKept(d, e) /\ ~e.noStack /\ e.index = d.index
        /\ e.status \in {"active", "suspended"} /\ e.sp.left >= Room(d.current)
        /\ Placed(e.calls, e.index, e.sp)
    BY <1>2, <1>4, <2>1, <2>2, PrepareScriptIs
  <2>4. /\ e.calls = c.calls /\ e.current = c.current /\ e.initial = c.initial
        /\ e.orig = c.orig /\ e.index = c.index /\ e.started
    BY <1>2, <2>3 DEF CallsKept
  <2>5. Statuswise(e, b)
    BY <1>2, <1>4, <2>3, <2>4 DEF Statuswise, Running
  <2>6. ContextOK(e, ps, TRUE)
    BY <1>4, <2>3, <2>4, <2>5 DEF ContextOK
  <2> QED  BY <2>3, <2>6 DEF e
<1> QED  BY <1>5, <1>6

-----------------------------------------------------------------------------
(* What is put aside, and what is restored. *)
LEMMA RestorableHas ==
  ASSUME NEW c \in Contexts
  PROVE  LET p == Restorable(c)
         IN /\ p = [current |-> c.current, sp |-> c.sp, index |-> c.index,
                    initial |-> c.initial, orig |-> c.orig, calling |-> c.calling,
                    value |-> c.value, calls |-> c.calls]
            /\ c.current # None /\ c.initial # None => p \in Restorables
<1>1. Restorable(c) = [current |-> c.current, sp |-> c.sp, index |-> c.index,
                       initial |-> c.initial, orig |-> c.orig, calling |-> c.calling,
                       value |-> c.value, calls |-> c.calls]
  BY DEF Restorable
<1>2. c.current # None /\ c.initial # None => Restorable(c) \in Restorables
  BY <1>1 DEF Restorables, Contexts, FunctionOrNone
<1> QED  BY <1>1, <1>2

LEMMA LowestPush ==
  ASSUME NEW s \in CallStacks, NEW e \in CallState \cup Marker, NEW index, NEW left,
         Lowest(s, Len(s), index, left), e.kind = "call" => Under(index, left, e)
  PROVE  Lowest(Append(s, e), Len(s) + 1, index, left)
<1> DEFINE t == Append(s, e)
<1>1. Len(s) \in Nat /\ t[Len(s) + 1] = e /\ \A j \in 1 .. Len(s) : t[j] = s[j]
  BY DEF CallStacks
<1> HIDE DEF t
<1>2. ASSUME NEW j \in 1 .. Len(s) + 1, t[j].kind = "call"  PROVE Under(index, left, t[j])
  <2>1. CASE j = Len(s) + 1
    BY <2>1, <1>1, <1>2
  <2>2. CASE j # Len(s) + 1
    <3>1. j \in 1 .. Len(s) /\ t[j] = s[j]
      BY <2>2, <1>1
    <3> QED  BY <3>1, <1>2 DEF Lowest
  <2> QED  BY <2>1, <2>2
<1>3. Lowest(t, Len(s) + 1, index, left)
  BY <1>2 DEF Lowest
<1> QED  BY <1>3 DEF t

(* A frame or a marker pushed where the pointer is, or above it. *)
LEMMA PlacedPush ==
  ASSUME NEW s \in CallStacks, NEW index \in Nat, NEW p \in Pointer, NEW q \in Pointer,
         Placed(s, index, p), q.block = p.block, q.left <= p.left,
         NEW e \in CallState \cup Marker,
         e.kind = "call" => e.index = index /\ q.left <= e.sp.left
  PROVE  Placed(Append(s, e), index, q)
<1>1. Len(s) \in Nat /\ p.left \in Int /\ q.left \in Int
  BY DEF CallStacks, Pointer
<1>2. Lowest(s, Len(s), index, q.left)
  BY <1>1, LowestLower DEF Placed
<1>3. e.kind = "call" => Under(index, q.left, e)
  BY DEF Under
<1>4. Lowest(Append(s, e), Len(s) + 1, index, q.left)
  BY <1>2, <1>3, LowestPush
<1>5. Len(Append(s, e)) = Len(s) + 1
  BY DEF CallStacks
<1> QED  BY <1>4, <1>5 DEF Placed

LEMMA PushCallIs ==
  ASSUME NEW c \in Contexts, c.current # None
  PROVE  LET d == PushCallState(c)
         IN /\ FrameOf(c) \in CallState /\ FrameOf(c).kind = "call"
            /\ d \in Contexts /\ d.calls = Append(c.calls, FrameOf(c))
            /\ d.sp = c.sp /\ d.index = c.index /\ d.current = c.current
            /\ d.initial = c.initial /\ d.orig = c.orig /\ d.started = c.started
            /\ d.status = c.status /\ d.noStack = c.noStack
            /\ d.calling = c.calling /\ d.value = c.value
<1>1. /\ c.current \in Functions /\ c.sp \in Pointer /\ c.index \in Nat /\ c.calls \in CallStacks
  BY DEF Contexts, FunctionOrNone
<1>2. FrameOf(c) \in CallState /\ FrameOf(c).kind = "call"
  BY <1>1 DEF FrameOf, CallState
<1>3. Append(c.calls, FrameOf(c)) \in CallStacks
  BY <1>1, <1>2 DEF CallStacks
<1>4. PushCallState(c) = [c EXCEPT !.calls = Append(c.calls, FrameOf(c))]
  BY DEF PushCallState, FrameOf, Contexts
<1> QED  BY <1>2, <1>3, <1>4 DEF Contexts

LEMMA PushStateIs ==
  ASSUME NEW c \in Contexts, c.current # None, c.initial # None
  PROVE  LET d == PushState(c)
         IN /\ d \in Contexts /\ d.calls = Append(Append(c.calls, FrameOf(c)), MarkerOf(c))
            /\ d.status = "uninitialized" /\ d.initial = None
            /\ d.current = c.current /\ d.index = c.index /\ d.noStack = c.noStack
            /\ d.sp.block = c.sp.block /\ d.sp.left = c.sp.left - 2
<1> DEFINE u == PushCallState(c)
           p == Push(u, 2)
           m == MarkerOf(c)
<1>1. /\ FrameOf(c) \in CallState
      /\ u \in Contexts /\ u.calls = Append(c.calls, FrameOf(c)) /\ u.sp = c.sp
      /\ u.index = c.index /\ u.current = c.current /\ u.noStack = c.noStack
  BY PushCallIs
<1> HIDE DEF u
<1>2. /\ p \in Contexts /\ p.calls = u.calls /\ p.index = u.index /\ p.noStack = u.noStack
      /\ p.current = u.current /\ p.sp.block = u.sp.block /\ p.sp.left = u.sp.left - 2
  <2>1. u \in Contexts /\ 2 \in Int
    BY <1>1
  <2>2. /\ p \in Contexts /\ CallsKept(u, p) /\ p.index = u.index /\ p.noStack = u.noStack
        /\ p.sp.block = u.sp.block /\ p.sp.left = u.sp.left - 2
    BY <2>1, PushIs
  <2> HIDE DEF p
  <2> QED  BY <2>2 DEF CallsKept
<1> HIDE DEF p
<1>3. m \in Marker
  BY DEF MarkerOf, Marker, Contexts, FunctionOrNone
<1>4. PushState(c) = [p EXCEPT !.calls = Append(@, m), !.initial = None, !.calling = None,
                               !.value = None, !.status = "uninitialized"]
  BY DEF PushState, MarkerOf, u, p
<1> HIDE DEF m
<1>5. Append(p.calls, m) \in CallStacks
  BY <1>2, <1>3 DEF Contexts, CallStacks
<1>6. PushState(c) \in Contexts
  <2> DEFINE t == Append(p.calls, m)
  <2>1. PushState(c) = [p EXCEPT !.calls = t, !.initial = None, !.calling = None,
                                 !.value = None, !.status = "uninitialized"]
    BY <1>2, <1>4 DEF Contexts
  <2>2. t \in CallStacks /\ None \in FunctionOrNone /\ "uninitialized" \in Statuses
    BY <1>5 DEF FunctionOrNone, Statuses
  <2> HIDE DEF t
  <2> DEFINE v == [p EXCEPT !.calls = t, !.status = "uninitialized"]
             w == [v EXCEPT !.initial = None, !.calling = None, !.value = None]
  <2>3. v \in Contexts
    BY <1>2, <2>2 DEF Contexts
  <2>4. PushState(c) = w
    BY <1>2, <2>1 DEF Contexts
  <2> HIDE DEF v
  <2>5. w \in Contexts
    BY <2>2, <2>3 DEF Contexts
  <2> QED  BY <2>4, <2>5
<1>7. /\ PushState(c).calls = Append(p.calls, m) /\ PushState(c).status = "uninitialized"
      /\ PushState(c).initial = None /\ PushState(c).current = p.current
      /\ PushState(c).index = p.index /\ PushState(c).noStack = p.noStack
      /\ PushState(c).sp = p.sp
  BY <1>2, <1>4 DEF Contexts
<1> QED  BY <1>1, <1>2, <1>6, <1>7 DEF m

LEMMA PushStateOK ==
  ASSUME NEW c, NEW ps, ContextOK(c, ps, TRUE), c.status = "active"
  PROVE  ContextOK(PushState(c), Append(ps, Restorable(c)), TRUE)
<1> DEFINE p == Restorable(c)
           d == PushState(c)
           qs == Append(ps, p)
           t == Append(Append(c.calls, FrameOf(c)), MarkerOf(c))
           b == BaseOf(ps, Len(ps))
<1>1. c \in Contexts /\ Statuswise(c, b) /\ ps \in Seq(Restorables)
  BY DEF ContextOK
<1>2. c.current # None /\ c.initial # None /\ ~c.noStack /\ Running(c.calls, c.current, c.index, c.sp)
  BY <1>1 DEF Statuswise
<1>3. /\ c.current \in Functions /\ c.sp \in Pointer /\ c.sp.left \in Int /\ c.index \in Nat
      /\ c.calls \in CallStacks
  BY <1>1, <1>2 DEF Contexts, FunctionOrNone, Pointer
<1>4. /\ p \in Restorables /\ p.calls = c.calls /\ p.current = c.current /\ p.index = c.index
      /\ p.sp = c.sp /\ p.initial = c.initial /\ p.orig = c.orig
      /\ FrameOf(p) = FrameOf(c) /\ MarkerOf(p) = MarkerOf(c)
  BY <1>1, <1>2, RestorableHas DEF FrameOf, MarkerOf
<1> HIDE DEF p
<1>5. /\ d \in Contexts /\ d.calls = t
      /\ d.status = "uninitialized" /\ d.initial = None
      /\ d.current = c.current /\ d.index = c.index /\ ~d.noStack
      /\ d.sp.block = c.sp.block /\ d.sp.left = c.sp.left - 2
  BY <1>1, <1>2, PushStateIs
<1> HIDE DEF d
<1>6. /\ qs \in Seq(Restorables) /\ \A n \in 1 .. Len(qs) : Saved(qs, n)
  <2>1. /\ LaidOn(ps, Len(ps), p.calls) /\ Chain(p.calls, p.current)
        /\ Based(p.calls, BaseOf(ps, Len(ps)), p.index, p.initial, p.orig)
        /\ Running(p.calls, p.current, p.index, p.sp)
    BY <1>2, <1>4 DEF ContextOK
  <2>2. \A n \in 1 .. Len(ps) : Saved(ps, n)
    BY DEF ContextOK
  <2> QED  BY <1>1, <1>4, <2>1, <2>2, SavedAppend
<1>7. t \in CallStacks /\ LaidOn(qs, Len(qs), t) /\ BaseOf(qs, Len(qs)) = Len(t)
  BY <1>1, <1>4, LaidMark
<1> HIDE DEF qs
<1>8. /\ FrameOf(c) \in CallState /\ FrameOf(c).current = c.current /\ FrameOf(c).sp = c.sp
      /\ FrameOf(c).index = c.index /\ MarkerOf(c) \in Marker
      /\ FrameOf(c).kind = "call" /\ MarkerOf(c).kind = "nested"
  BY <1>4, RestorableIs DEF FrameOf, MarkerOf
<1>9. c.sp.block = c.index /\ Lowest(c.calls, Len(c.calls), c.index, c.sp.left)
      /\ c.sp.left >= Room(c.current) /\ Placed(c.calls, c.index, c.sp)
  BY <1>2 DEF Running, Placed
<1>10. Chain(t, c.current)
  <2>1. Chain(c.calls, c.current)
    BY DEF ContextOK
  <2> QED  BY <1>3, <1>8, <1>9, <2>1, ChainMark
<1>11. Placed(t, c.index, d.sp)
  <2>1. Append(c.calls, FrameOf(c)) \in CallStacks
    BY <1>3, <1>8 DEF CallStacks
  <2>2. Placed(Append(c.calls, FrameOf(c)), c.index, c.sp)
    BY <1>3, <1>8, <1>9, PlacedPush
  <2>3. d.sp \in Pointer /\ d.sp.left <= c.sp.left
    BY <1>3, <1>5 DEF Contexts
  <2> QED  BY <1>3, <1>5, <1>8, <2>1, <2>2, <2>3, PlacedPush
<1> HIDE DEF t
<1>12. Statuswise(d, BaseOf(qs, Len(qs)))
  BY <1>2, <1>5, <1>7 DEF Statuswise
<1>13. ContextOK(d, qs, TRUE)
  BY <1>5, <1>6, <1>7, <1>10, <1>11, <1>12 DEF ContextOK
<1> QED  BY <1>13 DEF d, qs, p

LEMMA OKCleanable ==
  ASSUME NEW c, NEW ps, NEW right, ContextOK(c, ps, right)
  PROVE  /\ Cleanable(c, BaseOf(ps, Len(ps)))
         /\ right => Rooted(c, BaseOf(ps, Len(ps)))
<1> DEFINE b == BaseOf(ps, Len(ps))
<1>1. /\ c \in Contexts /\ ps \in Seq(Restorables) /\ Len(ps) \in 0 .. Len(ps)
      /\ LaidOn(ps, Len(ps), c.calls) /\ Chain(c.calls, c.current) /\ Statuswise(c, b)
  BY DEF ContextOK
<1>2. Cut(c.calls, b)
  BY <1>1, LaidCut DEF Contexts
<1>3. c.status \in {"finished", "uninitialized"} => Len(c.calls) = b /\ ~c.noStack
  BY <1>1 DEF Statuswise
<1>4. c.initial = None => Len(c.calls) = b /\ c.status = "uninitialized"
  BY <1>1 DEF Statuswise
<1>5. right => Rooted(c, b)
  BY <1>4 DEF ContextOK, Rooted
<1> QED  BY <1>1, <1>2, <1>3, <1>5 DEF Cleanable

LEMMA PrepareOK ==
  ASSUME NEW c, NEW ps, ContextOK(c, ps, TRUE), NEW f \in Functions
  PROVE  LET d == Prepare(c, f)
         IN /\ ContextOK(d, ps, ~d.noStack)
            /\ d.status = IF d.noStack THEN "exception" ELSE "prepared"
<1> DEFINE d == Prepare(c, f)
           b == BaseOf(ps, Len(ps))
<1>1. Cleanable(c, b) /\ Rooted(c, b)
  BY OKCleanable
<1>2. Ready(c, d, b, f) /\ (~d.noStack => InPlace(d, b, f))
  BY <1>1, PrepareIs
<1> HIDE DEF d
<1>3. ps \in Seq(Restorables) /\ c \in Contexts /\ c.calls \in CallStacks
      /\ LaidOn(ps, Len(ps), c.calls) /\ f # None
  BY FnNat DEF ContextOK, Contexts
<1>4. d \in Contexts /\ Bare(c.calls, d.calls, b) /\ Len(d.calls) = b
  BY <1>2 DEF Ready, Bare
<1>5. LaidOn(ps, Len(ps), d.calls)
  BY <1>3, <1>4, LaidBare
<1>6. Chain(d.calls, d.current)
  BY <1>2 DEF Ready
<1>7. /\ d.initial = f /\ d.current = f
      /\ d.status = IF d.noStack THEN "exception" ELSE "prepared"
      /\ ~d.noStack => ~d.started
  BY <1>2 DEF Ready
<1>8. Statuswise(d, b)
  BY <1>2, <1>3, <1>4, <1>7 DEF Statuswise, InPlace
<1>9. ~d.noStack => Based(d.calls, b, d.index, d.initial, d.orig)
  BY <1>2, <1>7 DEF InPlace
<1>10. \A n \in 1 .. Len(ps) : Saved(ps, n)
  BY DEF ContextOK
<1>11. ContextOK(d, ps, ~d.noStack)
  BY <1>3, <1>4, <1>5, <1>6, <1>7, <1>8, <1>9, <1>10 DEF ContextOK
<1> QED  BY <1>7, <1>11 DEF d

(* Unprepare of what does not run. *)
LEMMA UnprepareIs ==
  ASSUME NEW c, NEW ps, NEW right, ContextOK(c, ps, right), ~Busy(c)
  PROVE  LET d == Unprepare(c)  b == BaseOf(ps, Len(ps))
         IN /\ d \in Contexts /\ Bare(c.calls, d.calls, b)
            /\ (\A g : Chain(d.calls, g)) /\ ~d.noStack
            /\ d.status = "uninitialized" /\ d.initial = None
            /\ right => Placed(d.calls, d.index, d.sp)
<1> DEFINE u == Cleaned(c)
           d == Unprepare(c)
           b == BaseOf(ps, Len(ps))
<1>1. Cleanable(c, b) /\ (right => Rooted(c, b))
  BY OKCleanable
<1>2. Clean(c, u, b) /\ (Rooted(c, b) => Placed(u.calls, u.index, u.sp))
  BY <1>1, CleanedIs
<1>3. d = [u EXCEPT !.initial = None, !.current = None, !.started = FALSE,
                    !.status = "uninitialized"]
  BY DEF Unprepare
<1> HIDE DEF u, d
<1>4. /\ d \in Contexts /\ d.calls = u.calls /\ d.index = u.index /\ d.sp = u.sp
      /\ d.noStack = u.noStack /\ d.status = "uninitialized" /\ d.initial = None
  BY <1>2, <1>3 DEF Clean, Contexts, Statuses, FunctionOrNone
<1> QED  BY <1>1, <1>2, <1>4 DEF Clean, d

LEMMA UnprepareOK ==
  ASSUME NEW c, NEW ps, NEW right, ContextOK(c, ps, right), ~Busy(c)
  PROVE  ContextOK(Unprepare(c), ps, right) /\ Unprepare(c).status = "uninitialized"
<1> DEFINE d == Unprepare(c)
           b == BaseOf(ps, Len(ps))
<1>1. /\ d \in Contexts /\ Bare(c.calls, d.calls, b)
      /\ (\A g : Chain(d.calls, g)) /\ ~d.noStack
      /\ d.status = "uninitialized" /\ d.initial = None
      /\ right => Placed(d.calls, d.index, d.sp)
  BY UnprepareIs
<1> HIDE DEF d
<1>2. ps \in Seq(Restorables) /\ c \in Contexts /\ c.calls \in CallStacks
      /\ LaidOn(ps, Len(ps), c.calls) /\ \A n \in 1 .. Len(ps) : Saved(ps, n)
  BY DEF ContextOK, Contexts
<1>3. LaidOn(ps, Len(ps), d.calls) /\ Len(d.calls) = b
  BY <1>1, <1>2, LaidBare DEF Bare
<1>4. Statuswise(d, b)
  BY <1>1, <1>3 DEF Statuswise
<1> QED  BY <1>1, <1>2, <1>3, <1>4 DEF ContextOK, d

LEMMA FrontIs ==
  ASSUME NEW S, NEW s \in Seq(S), Len(s) > 0
  PROVE  /\ Len(s) \in Nat /\ Front(s) \in Seq(S) /\ Len(Front(s)) = Len(s) - 1
         /\ \A i \in 1 .. Len(s) - 1 : Front(s)[i] = s[i]
<1> DEFINE n == Len(s) - 1
<1>1. n \in Nat /\ n <= Len(s) /\ Len(s) \in Nat
  OBVIOUS
<1>2. Front(s) = SubSeq(s, 1, n)
  BY DEF Front
<1> HIDE DEF n
<1>3. SubSeq(s, 1, n) \in Seq(S) /\ Len(SubSeq(s, 1, n)) = n
  BY <1>1
<1>4. \A i \in 1 .. n : SubSeq(s, 1, n)[i] = s[i]
  BY <1>1
<1> QED  BY <1>1, <1>2, <1>3, <1>4 DEF n

(* What is taken off: those below stay. *)
LEMMA SavedFront ==
  ASSUME NEW ps \in Seq(Restorables), Len(ps) > 0, \A n \in 1 .. Len(ps) : Saved(ps, n)
  PROVE  LET qs == Front(ps)
             p == ps[Len(ps)]
         IN /\ qs \in Seq(Restorables) /\ Len(qs) = Len(ps) - 1
            /\ \A n \in 1 .. Len(qs) : Saved(qs, n)
            /\ p \in Restorables /\ Last(ps) = p
            /\ LaidOn(qs, Len(qs), p.calls) /\ Chain(p.calls, p.current)
            /\ Based(p.calls, BaseOf(qs, Len(qs)), p.index, p.initial, p.orig)
            /\ Running(p.calls, p.current, p.index, p.sp)
<1> DEFINE qs == Front(ps)
           p == ps[Len(ps)]
<1>1. /\ Len(ps) \in Nat /\ qs \in Seq(Restorables) /\ Len(qs) = Len(ps) - 1
      /\ \A n \in 1 .. Len(qs) : qs[n] = ps[n]
  BY FrontIs
<1>2. p \in Restorables /\ Last(ps) = p
  BY DEF Last
<1> HIDE DEF qs
<1>3. \A n \in 0 .. Len(qs) : BaseOf(qs, n) = BaseOf(ps, n)
  BY <1>1 DEF BaseOf
<1>4. ASSUME NEW n \in 0 .. Len(qs), NEW s, LaidOn(ps, n, s)  PROVE LaidOn(qs, n, s)
  <2>1. n > 0 => qs[n] = ps[n]
    BY <1>1
  <2> QED  BY <1>3, <1>4, <2>1 DEF LaidOn
<1>5. ASSUME NEW n \in 1 .. Len(qs)  PROVE Saved(qs, n)
  <2>1. n \in 1 .. Len(ps) /\ n - 1 \in 0 .. Len(qs)
    BY <1>1
  <2>2. Saved(ps, n) /\ qs[n] = ps[n]
    BY <1>1, <2>1
  <2>3. LaidOn(qs, n - 1, ps[n].calls)
    BY <1>4, <2>1, <2>2 DEF Saved
  <2>4. BaseOf(qs, n - 1) = BaseOf(ps, n - 1)
    BY <1>3, <2>1
  <2> QED  BY <2>2, <2>3, <2>4 DEF Saved
<1>6. /\ LaidOn(qs, Len(qs), p.calls) /\ Chain(p.calls, p.current)
      /\ Based(p.calls, BaseOf(qs, Len(qs)), p.index, p.initial, p.orig)
      /\ Running(p.calls, p.current, p.index, p.sp)
  <2>1. Saved(ps, Len(ps))
    BY <1>1
  <2>2. Len(qs) \in 0 .. Len(qs) /\ Len(ps) - 1 = Len(qs)
    BY <1>1
  <2>3. LaidOn(qs, Len(qs), p.calls)
    BY <1>4, <2>1, <2>2 DEF Saved
  <2>4. BaseOf(qs, Len(qs)) = BaseOf(ps, Len(qs))
    BY <1>3, <2>2
  <2> QED  BY <2>1, <2>2, <2>3, <2>4 DEF Saved
<1> QED  BY <1>1, <1>2, <1>5, <1>6 DEF qs

(* Under PopState's assertion Unprepare leaves the marker on top. *)
LEMMA UnnestedIs ==
  ASSUME NEW c, NEW ps, NEW right, ContextOK(c, ps, right), Len(ps) > 0, MarkerOnTop(c)
  PROVE  LET d == Unprepare(c)
         IN /\ d \in Contexts /\ ~d.noStack
            /\ LaidOn(ps, Len(ps), d.calls) /\ Len(d.calls) = BaseOf(ps, Len(ps))
<1> DEFINE d == Unprepare(c)
           b == BaseOf(ps, Len(ps))
<1>1. /\ c \in Contexts /\ c.calls \in CallStacks /\ LaidOn(ps, Len(ps), c.calls)
      /\ Statuswise(c, b) /\ ps \in Seq(Restorables)
  BY DEF ContextOK, Contexts
<1>2. CASE ~Busy(c)
  <2>1. d \in Contexts /\ Bare(c.calls, d.calls, b) /\ ~d.noStack
    BY <1>2, UnprepareIs
  <2> HIDE DEF d
  <2>2. LaidOn(ps, Len(ps), d.calls)
    BY <1>1, <2>1, LaidBare
  <2> QED  BY <2>1, <2>2 DEF d, Bare
<1>3. CASE Busy(c)
  <2>1. d = c
    BY <1>3 DEF Unprepare
  <2>2. ~c.noStack
    BY <1>1, <1>3 DEF Statuswise, Busy
  <2>3. Len(c.calls) \in Nat /\ Last(c.calls).kind = "nested"
    BY <1>1, <2>1 DEF MarkerOnTop, CallStacks
  <2>4. b \in Nat /\ b > 0 /\ b <= Len(c.calls)
    <3>1. Len(ps) \in 1 .. Len(ps) /\ Len(ps) # 0
      BY <1>1
    <3>2. ps[Len(ps)] \in Restorables
      BY <1>1, <3>1
    <3>3. Len(ps[Len(ps)].calls) \in Nat
      BY <3>2, RestorableIs
    <3> QED  BY <1>1, <3>1, <3>3 DEF BaseOf, LaidOn
  <2>5. Len(c.calls) = b
    <3>1. Last(c.calls) = c.calls[Len(c.calls)]
      BY DEF Last
    <3>2. Len(c.calls) \in 1 .. Len(c.calls)
      BY <2>3, <2>4
    <3>3. ~(Len(c.calls) > b)
      BY <1>1, <2>3, <3>1, <3>2 DEF LaidOn
    <3> QED  BY <2>3, <2>4, <3>3
  <2> QED  BY <1>1, <2>1, <2>2, <2>5
<1> QED  BY <1>2, <1>3

(* PopState gives back what was put aside last. *)
LEMMA PopStateIs ==
  ASSUME NEW c, NEW ps, NEW right, ContextOK(c, ps, right), Len(ps) > 0, MarkerOnTop(c)
  PROVE  LET d == PopState(c)
             p == ps[Len(ps)]
         IN /\ d \in Contexts /\ ~d.noStack /\ d.started /\ d.status = "active"
            /\ d.calls = p.calls /\ d.current = p.current /\ d.sp = p.sp /\ d.index = p.index
            /\ d.initial = p.initial /\ d.orig = p.orig /\ Restorable(d) = p
<1> DEFINE u == Unprepare(c)
           p == ps[Len(ps)]
           n == Len(p.calls)
           m == Last(u.calls)
           v == [u EXCEPT !.calls = Front(@)]
           x == PopCallState(v)
           d == PopState(c)
<1>1. /\ u \in Contexts /\ ~u.noStack
      /\ LaidOn(ps, Len(ps), u.calls) /\ Len(u.calls) = BaseOf(ps, Len(ps))
  BY UnnestedIs
<1>2. d = [x EXCEPT !.calling = m.calling, !.initial = m.initial, !.orig = m.orig,
                    !.value = m.value, !.started = TRUE, !.status = "active"]
  BY DEF PopState
<1> HIDE DEF u, d
<1>3. ps \in Seq(Restorables) /\ Len(ps) \in 1 .. Len(ps)
  BY DEF ContextOK
<1>4. p \in Restorables /\ u.calls \in CallStacks
  BY <1>1, <1>3 DEF Contexts
<1>5. n \in Nat /\ FrameOf(p).kind = "call" /\ p.calls \in CallStacks
  BY <1>4, RestorableIs
<1>6. /\ Len(u.calls) = n + 2 /\ \A j \in 1 .. n : u.calls[j] = p.calls[j]
      /\ u.calls[n + 1] = FrameOf(p) /\ u.calls[n + 2] = MarkerOf(p)
  BY <1>1, <1>3 DEF LaidOn, BaseOf
<1> HIDE DEF n, p
<1>7. m = MarkerOf(p)
  BY <1>6 DEF Last
<1>8. /\ v \in Contexts /\ v.calls \in CallStacks /\ Len(v.calls) = n + 1
      /\ v.calls[n + 1] = FrameOf(p) /\ \A j \in 1 .. n : v.calls[j] = p.calls[j]
      /\ v.noStack = u.noStack
  <2> DEFINE f == Front(u.calls)
  <2>1. f = SubSeq(u.calls, 1, n + 1)
    BY <1>5, <1>6 DEF Front
  <2>2. /\ f \in CallStacks /\ Len(f) = n + 1 /\ f[n + 1] = FrameOf(p)
        /\ \A j \in 1 .. n : f[j] = p.calls[j]
    BY <1>4, <1>5, <1>6, <2>1 DEF CallStacks
  <2> HIDE DEF f
  <2>3. v = [u EXCEPT !.calls = f]
    BY DEF f
  <2> QED  BY <1>1, <2>2, <2>3 DEF Contexts
<1> HIDE DEF v, m
<1>9. /\ x \in Contexts /\ x.calls = SubSeq(v.calls, 1, n) /\ x.current = FrameOf(p).current
      /\ x.sp = FrameOf(p).sp /\ x.index = FrameOf(p).index /\ ~x.noStack
  <2>1. v.calls[n + 1].kind = "call" /\ n + 1 = Len(v.calls)
    BY <1>5, <1>8
  <2>2. /\ x \in Contexts /\ x.calls = SubSeq(v.calls, 1, n)
        /\ x.current = v.calls[n + 1].current /\ x.sp = v.calls[n + 1].sp
        /\ x.index = v.calls[n + 1].index /\ x.noStack = v.noStack
    BY <1>5, <1>8, <2>1, PopIs
  <2> HIDE DEF x
  <2> QED  BY <1>1, <1>8, <2>2
<1>10. x.calls = p.calls
  <2>1. p.calls \in Seq(CallState \cup Marker) /\ Len(p.calls) = n
    BY <1>5 DEF CallStacks, n
  <2>2. /\ x.calls \in Seq(CallState \cup Marker) /\ Len(x.calls) = n
        /\ \A j \in 1 .. n : x.calls[j] = p.calls[j]
    BY <1>5, <1>8, <1>9 DEF CallStacks
  <2> QED  BY <2>1, <2>2
<1> HIDE DEF x
<1>11. /\ p.calling \in FunctionOrNone /\ p.value \in FunctionOrNone /\ p.initial \in Functions
       /\ p.orig \in Pointer
  BY <1>4 DEF Restorables
<1>12. /\ m.calling = p.calling /\ m.initial = p.initial /\ m.orig = p.orig /\ m.value = p.value
       /\ x.current = p.current /\ x.sp = p.sp /\ x.index = p.index
  BY <1>7, <1>9 DEF MarkerOf, FrameOf
<1>13. d = [x EXCEPT !.calling = p.calling, !.initial = p.initial, !.orig = p.orig,
                     !.value = p.value, !.started = TRUE, !.status = "active"]
  BY <1>2, <1>12
<1>14. d \in Contexts
  BY <1>9, <1>11, <1>13 DEF Contexts, Statuses, FunctionOrNone
<1>15. /\ ~d.noStack /\ d.started /\ d.status = "active"
       /\ d.calls = p.calls /\ d.current = p.current /\ d.sp = p.sp /\ d.index = p.index
       /\ d.initial = p.initial /\ d.orig = p.orig /\ d.calling = p.calling /\ d.value = p.value
  BY <1>9, <1>10, <1>12, <1>13 DEF Contexts
<1>16. Restorable(d) = p
  BY <1>4, <1>14, <1>15, RestorableHas DEF Restorables
<1> QED  BY <1>14, <1>15, <1>16 DEF d, p

LEMMA PopStateOK ==
  ASSUME NEW c, NEW ps, NEW right, ContextOK(c, ps, right), Len(ps) > 0, MarkerOnTop(c)
  PROVE  LET d == PopState(c)
         IN /\ ContextOK(d, Front(ps), TRUE) /\ Restorable(d) = Last(ps)
            /\ d.status = "active" /\ d.started /\ ~d.noStack
            /\ Running(d.calls, d.current, d.index, d.sp)
<1> DEFINE d == PopState(c)
           qs == Front(ps)
           p == ps[Len(ps)]
           b == BaseOf(qs, Len(qs))
<1>1. /\ d \in Contexts /\ ~d.noStack /\ d.started /\ d.status = "active"
      /\ d.calls = p.calls /\ d.current = p.current /\ d.sp = p.sp /\ d.index = p.index
      /\ d.initial = p.initial /\ d.orig = p.orig /\ Restorable(d) = p
  BY PopStateIs
<1>2. ps \in Seq(Restorables) /\ \A n \in 1 .. Len(ps) : Saved(ps, n)
  BY DEF ContextOK
<1>3. /\ qs \in Seq(Restorables) /\ Len(qs) = Len(ps) - 1
      /\ \A n \in 1 .. Len(qs) : Saved(qs, n)
      /\ p \in Restorables /\ Last(ps) = p
      /\ LaidOn(qs, Len(qs), p.calls) /\ Chain(p.calls, p.current)
      /\ Based(p.calls, b, p.index, p.initial, p.orig)
      /\ Running(p.calls, p.current, p.index, p.sp)
  BY <1>2, SavedFront
<1> HIDE DEF d, qs, p
<1>4. d.initial # None /\ d.current # None
  BY <1>1, <1>3, RestorableIs, ContextAssumption
<1>5. Running(d.calls, d.current, d.index, d.sp)
  BY <1>1, <1>3
<1>6. Statuswise(d, b)
  BY <1>1, <1>4, <1>5 DEF Statuswise
<1>7. ContextOK(d, qs, TRUE)
  BY <1>1, <1>3, <1>4, <1>6 DEF ContextOK
<1> QED  BY <1>1, <1>3, <1>5, <1>7 DEF d, qs

-----------------------------------------------------------------------------
(* Calls and returns leave where the prepared function's stack begins. *)
LEMMA BasedPush ==
  ASSUME NEW s \in CallStacks, NEW b \in Nat, b <= Len(s), NEW index, NEW f, NEW o,
         Based(s, b, index, f, o), NEW e, e.index = index, NEW index2
  PROVE  Based(Append(s, e), b, index2, f, o)
<1> DEFINE t == Append(s, e)
<1>1. /\ Len(s) \in Nat /\ Len(t) = Len(s) + 1 /\ t[Len(s) + 1] = e
      /\ \A j \in 1 .. Len(s) : t[j] = s[j]
  BY DEF CallStacks
<1> HIDE DEF t
<1>2. Lowest(t, b, o.block, o.left)
  <2>1. \A j \in 1 .. b : t[j] = s[j]
    BY <1>1
  <2> QED  BY <2>1, LowestAgrees DEF Based
<1>3. t[b + 1].index = IF b = Len(s) THEN index ELSE s[b + 1].index
  <2>1. CASE b = Len(s)
    BY <2>1, <1>1
  <2>2. CASE b # Len(s)
    <3>1. b + 1 \in 1 .. Len(s)
      BY <2>2, <1>1
    <3> QED  BY <2>2, <3>1, <1>1
  <2> QED  BY <2>1, <2>2
<1>4. b # Len(t)
  BY <1>1
<1>5. Based(t, b, index2, f, o)
  BY <1>2, <1>3, <1>4 DEF Based
<1> QED  BY <1>5 DEF t

LEMMA BasedCut ==
  ASSUME NEW s \in CallStacks, NEW b \in Nat, NEW n \in Nat, b <= n, n < Len(s), NEW index,
         NEW f, NEW o, Based(s, b, index, f, o)
  PROVE  Based(SubSeq(s, 1, n), b, s[n + 1].index, f, o)
<1> DEFINE t == SubSeq(s, 1, n)
<1>1. Len(s) \in Nat /\ Len(t) = n /\ \A j \in 1 .. n : t[j] = s[j]
  BY DEF CallStacks
<1> HIDE DEF t
<1>2. Lowest(t, b, o.block, o.left)
  <2>1. \A j \in 1 .. b : t[j] = s[j]
    BY <1>1
  <2> QED  BY <2>1, LowestAgrees DEF Based
<1>3. b # Len(s) /\ (b # n => t[b + 1] = s[b + 1])
  BY <1>1
<1>4. Based(t, b, s[n + 1].index, f, o)
  BY <1>1, <1>2, <1>3 DEF Based
<1> QED  BY <1>4 DEF t

(* asBC_CALL, with room for the arguments. *)
Called(c, f) == [PushCallState(Push(c, Fn[f].args)) EXCEPT !.current = f]

LEMMA CalledIs ==
  ASSUME NEW c \in Contexts, c.current # None, NEW f \in Functions
  PROVE  LET p == Push(c, Fn[f].args)
             d == Called(c, f)
         IN /\ FrameOf(p) \in CallState /\ FrameOf(p).kind = "call"
            /\ FrameOf(p).current = c.current /\ FrameOf(p).index = c.index
            /\ FrameOf(p).sp \in Pointer /\ FrameOf(p).sp.block = c.sp.block
            /\ FrameOf(p).sp.left = c.sp.left - Fn[f].args
            /\ d \in Contexts /\ d.calls = Append(c.calls, FrameOf(p)) /\ d.current = f
            /\ d.sp = FrameOf(p).sp /\ d.index = c.index
            /\ d.initial = c.initial /\ d.orig = c.orig /\ d.started = c.started
            /\ d.status = c.status /\ d.noStack = c.noStack
<1> DEFINE n == Fn[f].args
           p == Push(c, n)
           u == PushCallState(p)
           d == Called(c, f)
<1>1. n \in Int
  BY FnNat
<1>2. d = [u EXCEPT !.current = f]
  BY DEF Called
<1> HIDE DEF n
<1>3. /\ p \in Contexts /\ CallsKept(c, p)
      /\ p.index = c.index /\ p.status = c.status /\ p.noStack = c.noStack
      /\ p.sp.block = c.sp.block /\ p.sp.left = c.sp.left - n
  BY <1>1, PushIs
<1> HIDE DEF p, d
<1>4. /\ p.calls = c.calls /\ p.current = c.current /\ p.initial = c.initial
      /\ p.orig = c.orig /\ p.started = c.started /\ p.sp \in Pointer
  BY <1>3 DEF CallsKept, Contexts
<1>5. /\ FrameOf(p) \in CallState /\ FrameOf(p).kind = "call"
      /\ u \in Contexts /\ u.calls = Append(p.calls, FrameOf(p))
      /\ u.sp = p.sp /\ u.index = p.index
      /\ u.initial = p.initial /\ u.orig = p.orig /\ u.started = p.started
      /\ u.status = p.status /\ u.noStack = p.noStack
  BY <1>3, <1>4, PushCallIs
<1> HIDE DEF u
<1>6. FrameOf(p).current = p.current /\ FrameOf(p).index = p.index /\ FrameOf(p).sp = p.sp
  BY DEF FrameOf
<1>7. /\ d \in Contexts /\ d.calls = u.calls /\ d.current = f /\ d.sp = u.sp
      /\ d.index = u.index /\ d.initial = u.initial /\ d.orig = u.orig
      /\ d.started = u.started /\ d.status = u.status /\ d.noStack = u.noStack
  BY <1>2, <1>5 DEF Contexts, FunctionOrNone
<1> QED  BY <1>3, <1>4, <1>5, <1>6, <1>7 DEF n, p, d

LEMMA CallOK ==
  ASSUME NEW c, NEW ps, ContextOK(c, ps, TRUE), c.status = "active", NEW q \in Requests,
         NEW f \in Functions, Fn[c.current].locals + Fn[f].args <= Fn[c.current].needed
  PROVE  LET d == PrepareScriptFunction(Called(c, f), q)
         IN ContextOK(d, ps, TRUE) /\ d.status # "uninitialized"
<1> DEFINE b == BaseOf(ps, Len(ps))
           e == FrameOf(Push(c, Fn[f].args))
           u == Called(c, f)
           d == PrepareScriptFunction(u, q)
<1>1. /\ c \in Contexts /\ Statuswise(c, b) /\ ps \in Seq(Restorables) /\ c.calls \in CallStacks
      /\ LaidOn(ps, Len(ps), c.calls) /\ Chain(c.calls, c.current)
      /\ \A n \in 1 .. Len(ps) : Saved(ps, n)
  BY DEF ContextOK, Contexts
<1>2. c.current # None /\ c.initial # None /\ ~c.noStack /\ c.started
      /\ Running(c.calls, c.current, c.index, c.sp)
  BY <1>1 DEF Statuswise
<1>3. Based(c.calls, b, c.index, c.initial, c.orig)
  BY <1>2 DEF ContextOK
<1>4. /\ c.current \in Functions /\ c.sp \in Pointer /\ c.sp.left \in Int /\ c.index \in Nat
  BY <1>1, <1>2 DEF Contexts, FunctionOrNone, Pointer
<1>5. /\ Fn[f].args \in Nat /\ f # None /\ Reserve \in Nat
      /\ Fn[c.current].locals \in Nat /\ Fn[c.current].needed \in Nat
      /\ Room(c.current) = Fn[c.current].needed - Fn[c.current].locals + Reserve
  BY <1>4, FnNat DEF Room
<1>6. /\ e \in CallState /\ e.kind = "call" /\ e.current = c.current /\ e.index = c.index
      /\ e.sp \in Pointer /\ e.sp.block = c.sp.block /\ e.sp.left = c.sp.left - Fn[f].args
      /\ u \in Contexts /\ u.calls = Append(c.calls, e) /\ u.current = f
      /\ u.sp = e.sp /\ u.index = c.index /\ u.initial = c.initial /\ u.orig = c.orig
      /\ u.started = c.started /\ u.status = c.status /\ u.noStack = c.noStack
  <2>1. c \in Contexts /\ c.current # None
    BY <1>1, <1>2
  <2> HIDE DEF d, b
  <2> QED  BY <2>1, CalledIs
<1> HIDE DEF e, u
<1>7. /\ c.sp.block = c.index /\ Lowest(c.calls, Len(c.calls), c.index, c.sp.left)
      /\ c.sp.left >= Room(c.current) /\ Placed(c.calls, c.index, c.sp)
  BY <1>2 DEF Running, Placed
<1>8. /\ e.sp.left >= Reserve /\ e.sp.left + Fn[f].args = c.sp.left /\ e.sp.left <= c.sp.left
  <2>1. e.sp.left = c.sp.left - Fn[f].args /\ c.sp.left >= Room(c.current)
    BY <1>6, <1>7
  <2>2. \A left \in Int : left >= Room(c.current) => left - Fn[f].args >= Reserve
    BY <1>5
  <2>3. \A left \in Int : left - Fn[f].args + Fn[f].args = left /\ left - Fn[f].args <= left
    BY <1>5
  <2> HIDE DEF b, d
  <2> QED  BY <1>4, <2>1, <2>2, <2>3
<1>9. u.calls \in CallStacks /\ Chain(u.calls, f)
  <2>1. /\ e.sp.block = e.index /\ e.sp.left + Fn[f].args >= Room(c.current)
        /\ Lowest(c.calls, Len(c.calls), e.index, e.sp.left + Fn[f].args)
    BY <1>6, <1>7, <1>8
  <2> QED  BY <1>1, <1>4, <1>6, <1>8, <2>1, ChainPush
<1>10. Placed(u.calls, u.index, u.sp)
  <2>1. e.sp.left <= e.sp.left
    BY <1>6 DEF Pointer
  <2>2. Placed(Append(c.calls, e), c.index, e.sp)
    BY <1>1, <1>4, <1>6, <1>7, <1>8, <2>1, PlacedPush
  <2> QED  BY <1>6, <2>2
<1>11. LaidOn(ps, Len(ps), u.calls) /\ b \in Nat /\ b <= Len(c.calls)
  <2>1. Len(ps) \in 0 .. Len(ps)
    BY <1>1
  <2>2. LaidOn(ps, Len(ps), u.calls)
    BY <1>1, <1>6, <2>1, LaidPush
  <2>3. b \in Nat
    BY <1>1, <2>1, LaidCut
  <2> QED  BY <1>1, <2>2, <2>3 DEF LaidOn
<1> HIDE DEF b
<1>12. \A index : Based(u.calls, b, index, c.initial, c.orig)
  BY <1>1, <1>3, <1>6, <1>11, BasedPush
<1>13. /\ d \in Contexts /\ CallsKept(u, d)
       /\ d.noStack => d.status = "exception"
       /\ ~d.noStack =>
            /\ d.status \in {"active", "suspended"} /\ d.sp.left >= Room(f)
            /\ Placed(d.calls, d.index, d.sp)
  <2>1. u.sp.block = u.index
    BY <1>10 DEF Placed
  <2> QED  BY <1>2, <1>6, <1>10, <2>1, PrepareScriptIs
<1> HIDE DEF d
<1>14. /\ d.calls = u.calls /\ d.current = f /\ d.initial = c.initial /\ d.orig = c.orig
       /\ d.started
  BY <1>2, <1>6, <1>13 DEF CallsKept
<1>15. Statuswise(d, b)
  BY <1>2, <1>5, <1>13, <1>14 DEF Statuswise, Running
<1>16. ContextOK(d, ps, TRUE)
  BY <1>1, <1>2, <1>9, <1>11, <1>12, <1>13, <1>14, <1>15 DEF ContextOK, b
<1>17. d.status # "uninitialized"
  BY <1>13
<1> QED  BY <1>16, <1>17 DEF d, u

(* asBC_RET takes the arguments off. *)
LEMMA ReturnedOK ==
  ASSUME NEW c, NEW ps, ContextOK(c, ps, TRUE), c.status = "active"
  PROVE  ContextOK(Returned(c), ps, TRUE) /\ Returned(c).status # "uninitialized"
<1> DEFINE b == BaseOf(ps, Len(ps))
           d == Returned(c)
<1>1. /\ c \in Contexts /\ Statuswise(c, b) /\ ps \in Seq(Restorables) /\ c.calls \in CallStacks
      /\ LaidOn(ps, Len(ps), c.calls) /\ Chain(c.calls, c.current) /\ Len(ps) \in 0 .. Len(ps)
      /\ \A n \in 1 .. Len(ps) : Saved(ps, n)
  BY DEF ContextOK, Contexts
<1>2. Cut(c.calls, b) /\ b \in Nat
  BY <1>1, LaidCut
<1>3. c.current # None /\ c.initial # None /\ ~c.noStack /\ c.started
  BY <1>1 DEF Statuswise
<1>4. c.current \in Functions /\ Len(c.calls) \in Nat /\ b <= Len(c.calls)
  BY <1>1, <1>2, <1>3 DEF Contexts, FunctionOrNone, CallStacks, Cut
<1>5. CASE AtBase(c)
  <2>1. Len(c.calls) = b
    BY <1>1, <1>2, <1>5, AtBaseIs
  <2>2. d = [c EXCEPT !.status = "finished"]
    BY <1>5 DEF Returned
  <2> HIDE DEF d
  <2>3. Flagged(c, d) /\ d.status = "finished"
    BY <1>1, <2>2 DEF Flagged, StackKept, CallsKept, Contexts, Statuses
  <2>4. ContextOK(d, ps, TRUE)
    BY <2>1, <2>3, FlaggedOK DEF b
  <2> QED  BY <2>3, <2>4 DEF d
<1>6. CASE ~AtBase(c)
  <2> DEFINE n == Len(c.calls) - 1
             e == c.calls[n + 1]
             x == PopCallState(c)
             k == Fn[c.current].args
             t == SubSeq(c.calls, 1, n)
  <2>1. Len(c.calls) # b
    BY <1>1, <1>2, <1>6, AtBaseIs
  <2>2. n \in Nat /\ n + 1 = Len(c.calls) /\ b <= n /\ n + 1 \in 1 .. Len(c.calls)
        /\ n \in 0 .. Len(c.calls) - 1
    BY <1>2, <1>4, <2>1
  <2> HIDE DEF n
  <2>3. e.kind = "call" /\ e \in CallState
    <3>1. e.kind = "call"
      BY <1>2, <2>2 DEF Cut
    <3> QED  BY <1>1, <2>2, <3>1, FrameIs
  <2>4. e.current \in Functions /\ e.sp \in Pointer /\ e.sp.left \in Int /\ e.index \in Nat
    BY <2>3 DEF CallState, Pointer
  <2>5. k \in Nat /\ -k \in Int
    BY <1>4, FnNat
  <2>6. /\ x \in Contexts /\ x.calls = t /\ x.current = e.current
        /\ x.sp = e.sp /\ x.index = e.index /\ x.initial = c.initial /\ x.orig = c.orig
        /\ x.started = c.started /\ x.status = c.status /\ x.noStack = c.noStack
    BY <1>1, <2>2, <2>3, PopIs
  <2>7. d = Push(x, -k)
    BY <1>6 DEF Returned
  <2> HIDE DEF d, x
  <2>8. PICK i \in 1 .. Len(c.calls) : i = n + 1 /\ i = Len(c.calls)
    BY <2>2
  <2>9. /\ e.sp.block = e.index /\ e.sp.left + k >= Room(e.current)
        /\ Lowest(c.calls, n, e.index, e.sp.left + k)
    <3>1. FrameFits(c.calls, c.current, i)
      BY <1>1, <2>3, <2>8 DEF Chain
    <3>2. PushedFor(c.calls, c.current, i) = k
      BY <2>8 DEF PushedFor
    <3>3. i - 1 = n /\ c.calls[i] = e
      BY <2>2, <2>8
    <3> HIDE DEF e, k, b, t
    <3> QED  BY <3>1, <3>2, <3>3 DEF FrameFits
  <2>10. /\ t \in CallStacks /\ Len(t) = n /\ (\A j \in 1 .. n : t[j] = c.calls[j])
         /\ Chain(t, e.current)
    BY <1>1, <2>2, <2>3, ChainCut
  <2>11. LaidOn(ps, Len(ps), t)
    <3>1. n <= Len(c.calls)
      BY <2>2
    <3> QED  BY <1>1, <2>2, <3>1, LaidPop
  <2>12. Based(t, b, e.index, c.initial, c.orig)
    <3>1. Based(c.calls, b, c.index, c.initial, c.orig)
      BY <1>3 DEF ContextOK
    <3>2. n < Len(c.calls)
      BY <2>2
    <3> QED  BY <1>1, <1>2, <2>2, <3>1, <3>2, BasedCut
  <2> HIDE DEF t, e, k, b
  <2>13. /\ d \in Contexts /\ CallsKept(x, d) /\ d.index = x.index /\ d.status = x.status
         /\ d.noStack = x.noStack /\ d.sp.block = x.sp.block /\ d.sp.left = x.sp.left - (-k)
    BY <2>5, <2>6, <2>7, PushIs
  <2>14. /\ d.calls = t /\ d.current = e.current /\ d.index = e.index /\ d.initial = c.initial
         /\ d.orig = c.orig /\ d.started = c.started /\ d.status = "active" /\ ~d.noStack
         /\ d.sp.block = e.index /\ d.sp.left = e.sp.left + k
    BY <1>3, <2>4, <2>5, <2>6, <2>9, <2>13 DEF CallsKept
  <2>15. Running(d.calls, d.current, d.index, d.sp)
    <3>1. Lowest(t, n, e.index, e.sp.left + k)
      BY <2>2, <2>9, <2>10, LowestAgrees
    <3> QED  BY <2>9, <2>10, <2>14, <3>1 DEF Running, Placed
  <2>16. d.current # None
    BY <2>4, <2>14, FnNat
  <2>17. Statuswise(d, b)
    BY <1>3, <2>14, <2>15, <2>16 DEF Statuswise
  <2>18. ContextOK(d, ps, TRUE)
    BY <1>1, <1>3, <2>10, <2>11, <2>12, <2>13, <2>14, <2>17 DEF ContextOK, b
  <2> QED  BY <2>14, <2>18 DEF d
<1> QED  BY <1>5, <1>6

-----------------------------------------------------------------------------
(* The C++ stack: each nested call is made by a system function of an      *)
(* Execute, and each function that is put aside by a nested call.          *)
LEMMA CppTop ==
  ASSUME NEW n \in Nat, NEW calls, CppOK(calls, n)
  PROVE  /\ Len(calls) \in Nat /\ (calls = <<>> <=> Len(calls) = 0)
         /\ TopOf(calls) = "application" <=> calls = <<>>
         /\ TopOf(calls) = "execute" <=> Len(calls) = 3 * n + 1
         /\ TopOf(calls) = "system" <=> Len(calls) = 3 * n + 2
         /\ TopOf(calls) \in Callers <=> Len(calls) = 3 * n /\ n > 0
<1>1. /\ Len(calls) \in Nat /\ (calls = <<>> <=> Len(calls) = 0)
      /\ \/ Len(calls) = 3 * n \/ Len(calls) = 3 * n + 1 \/ Len(calls) = 3 * n + 2
  BY DEF CppOK, CppCalls
<1>2. /\ "application" \notin Callers /\ "execute" \notin Callers /\ "system" \notin Callers
  BY ContextAssumption
<1>3. CASE calls = <<>>
  BY <1>1, <1>2, <1>3 DEF TopOf
<1>4. CASE calls # <<>>
  <2> DEFINE l == Len(calls)
  <2>1. l \in 1 .. l /\ TopOf(calls) = calls[l].who
    BY <1>1, <1>4 DEF TopOf, Last
  <2>2. PICK k \in Nat :
          \/ l = 3 * k + 1 /\ calls[l].who = "execute"
          \/ l = 3 * k + 2 /\ calls[l].who = "system"
          \/ l = 3 * k + 3 /\ calls[l].who \in Callers
    BY <2>1 DEF CppOK
  <2> HIDE DEF l
  <2>3. l \in Nat /\ (l = 3 * n \/ l = 3 * n + 1 \/ l = 3 * n + 2) /\ l > 0
    BY <1>1, <1>4 DEF l
  <2>4. /\ l = 3 * k + 1 => l = 3 * n + 1
        /\ l = 3 * k + 2 => l = 3 * n + 2
        /\ l = 3 * k + 3 => l = 3 * n
    BY <2>2, <2>3
  <2>5. l = 3 * n => n > 0
    BY <2>3
  <2> QED  BY <1>1, <1>2, <1>4, <2>1, <2>2, <2>3, <2>4, <2>5 DEF l
<1> QED  BY <1>3, <1>4

LEMMA CppAppend ==
  ASSUME NEW n \in Nat, NEW calls, CppOK(calls, n), NEW m \in Nat, NEW who,
         \/ Len(calls) = 3 * n /\ who = "execute" /\ m = n
         \/ Len(calls) = 3 * n + 1 /\ who = "system" /\ m = n
         \/ Len(calls) = 3 * n + 2 /\ who \in Callers /\ m = n + 1
  PROVE  LET t == Append(calls, [who |-> who, doAbort |-> FALSE])
         IN CppOK(t, m) /\ TopOf(t) = who
<1> DEFINE e == [who |-> who, doAbort |-> FALSE]
           t == Append(calls, e)
<1>1. calls \in CppCalls /\ Len(calls) \in Nat
  BY DEF CppOK, CppCalls
<1>2. e \in [who : {"execute", "system"} \cup Callers, doAbort : BOOLEAN] /\ e.who = who
  OBVIOUS
<1> HIDE DEF e
<1>3. /\ t \in CppCalls /\ Len(t) = Len(calls) + 1 /\ t[Len(calls) + 1] = e
      /\ \A i \in 1 .. Len(calls) : t[i] = calls[i]
  BY <1>1, <1>2 DEF CppCalls
<1>4. TopOf(t) = who
  BY <1>1, <1>2, <1>3 DEF TopOf, Last
<1> HIDE DEF t
<1>5. Len(t) \in 3 * m .. 3 * m + 2
  BY <1>1, <1>3
<1>6. ASSUME NEW i \in 1 .. Len(t)
      PROVE  \E k \in Nat : \/ i = 3 * k + 1 /\ t[i].who = "execute"
                            \/ i = 3 * k + 2 /\ t[i].who = "system"
                            \/ i = 3 * k + 3 /\ t[i].who \in Callers
  <2>1. CASE i = Len(calls) + 1
    BY <2>1, <1>2, <1>3
  <2>2. CASE i # Len(calls) + 1
    <3>1. i \in 1 .. Len(calls) /\ t[i] = calls[i]
      BY <2>2, <1>1, <1>3
    <3> QED  BY <3>1 DEF CppOK
  <2> QED  BY <2>1, <2>2
<1>7. CppOK(t, m)
  BY <1>3, <1>5, <1>6 DEF CppOK
<1> QED  BY <1>4, <1>7 DEF t, e

LEMMA CppFront ==
  ASSUME NEW n \in Nat, NEW calls, CppOK(calls, n), Len(calls) > 0, NEW m \in Nat,
         Len(calls) - 1 \in 3 * m .. 3 * m + 2
  PROVE  CppOK(Front(calls), m) /\ Len(Front(calls)) = Len(calls) - 1
<1> DEFINE t == Front(calls)
<1>1. /\ Len(calls) \in Nat /\ t \in CppCalls /\ Len(t) = Len(calls) - 1
      /\ \A i \in 1 .. Len(calls) - 1 : t[i] = calls[i]
  BY FrontIs DEF CppOK, CppCalls
<1> HIDE DEF t
<1>2. ASSUME NEW i \in 1 .. Len(t)
      PROVE  \E k \in Nat : \/ i = 3 * k + 1 /\ t[i].who = "execute"
                            \/ i = 3 * k + 2 /\ t[i].who = "system"
                            \/ i = 3 * k + 3 /\ t[i].who \in Callers
  <2>1. i \in 1 .. Len(calls) /\ t[i] = calls[i]
    BY <1>1
  <2> QED  BY <2>1 DEF CppOK
<1>3. CppOK(t, m)
  BY <1>1, <1>2 DEF CppOK
<1> QED  BY <1>1, <1>3 DEF t

LEMMA CppMarked ==
  ASSUME NEW n \in Nat, NEW calls, CppOK(calls, n), calls # <<>>
  PROVE  LET t == Append(Front(calls), [Last(calls) EXCEPT !.doAbort = TRUE])
         IN CppOK(t, n) /\ TopOf(t) = TopOf(calls)
<1> DEFINE l == Len(calls)
           e == [Last(calls) EXCEPT !.doAbort = TRUE]
           f == Front(calls)
           t == Append(f, e)
           R == [who : {"execute", "system"} \cup Callers, doAbort : BOOLEAN]
<1>1. calls \in Seq(R) /\ l \in Nat /\ l > 0 /\ Last(calls) = calls[l] /\ l \in 1 .. l
  BY DEF CppOK, CppCalls, Last
<1>2. f \in Seq(R) /\ Len(f) = l - 1 /\ \A i \in 1 .. l - 1 : f[i] = calls[i]
  <2>1. Len(calls) > 0
    BY <1>1
  <2> HIDE DEF R
  <2> QED  BY <1>1, <2>1, FrontIs
<1> HIDE DEF f
<1>3. e \in R /\ e.who = calls[l].who
  <2>1. PICK x \in R : x = calls[l]
    <3> HIDE DEF R
    <3>1. calls[Len(calls)] \in R
      BY <1>1
    <3> QED  BY <3>1
  <2>2. e = [x EXCEPT !.doAbort = TRUE]
    BY <1>1, <2>1
  <2> HIDE DEF e, l
  <2> QED  BY <2>1, <2>2
<1> HIDE DEF e, R
<1>4. /\ t \in Seq(R) /\ Len(t) = l /\ t[l] = e /\ \A i \in 1 .. l - 1 : t[i] = calls[i]
  BY <1>1, <1>2, <1>3
<1>5. TopOf(t) = TopOf(calls)
  BY <1>1, <1>3, <1>4 DEF TopOf, Last
<1> HIDE DEF t
<1>6. ASSUME NEW i \in 1 .. Len(t)  PROVE t[i].who = calls[i].who /\ i \in 1 .. Len(calls)
  <2>1. CASE i = l
    BY <2>1, <1>1, <1>3, <1>4
  <2>2. CASE i # l
    BY <2>2, <1>1, <1>4
  <2> QED  BY <2>1, <2>2
<1>7. CppOK(t, n)
  BY <1>4, <1>6 DEF CppOK, CppCalls, R
<1> QED  BY <1>5, <1>7 DEF t, f, e

-----------------------------------------------------------------------------
(* Each step keeps the invariant. *)
LEMMA GoodIs ==
  ASSUME NEW c, NEW calls, NEW ps, NEW res, NEW org, Good(c, calls, ps, res, org)
  PROVE  /\ c \in Contexts /\ Len(ps) \in Nat
         /\ ContextOK(c, ps, org = "right") /\ CppOK(calls, Len(ps))
         /\ TopOK(c, TopOf(calls), res, org)
         /\ Statuswise(c, BaseOf(ps, Len(ps)))
         /\ Len(calls) \in Nat /\ (calls = <<>> <=> Len(calls) = 0)
         /\ TopOf(calls) = "application" <=> calls = <<>>
         /\ TopOf(calls) = "execute" <=> Len(calls) = 3 * Len(ps) + 1
         /\ TopOf(calls) = "system" <=> Len(calls) = 3 * Len(ps) + 2
         /\ TopOf(calls) \in Callers <=> Len(calls) = 3 * Len(ps) /\ Len(ps) > 0
<1>1. Len(ps) \in Nat /\ ContextOK(c, ps, org = "right") /\ CppOK(calls, Len(ps))
      /\ TopOK(c, TopOf(calls), res, org)
  BY DEF Good, ContextOK
<1>2. c \in Contexts /\ Statuswise(c, BaseOf(ps, Len(ps)))
  BY <1>1 DEF ContextOK
<1> QED  BY <1>1, <1>2, CppTop

(* Nobody but the application and a nested call finds a context whose      *)
(* Prepare found no stack.                                                 *)
LEMMA OriginRight ==
  ASSUME NEW c, NEW calls, NEW ps, NEW res, NEW org \in {"right", "stale"},
         Good(c, calls, ps, res, org),
         \/ TopOf(calls) \in {"execute", "system"}
         \/ c.status \notin {"exception", "uninitialized"}
  PROVE  org = "right" /\ ContextOK(c, ps, TRUE)
<1>1. TopOK(c, TopOf(calls), res, org) /\ ContextOK(c, ps, org = "right")
  BY GoodIs
<1>2. "application" \notin {"execute", "system"} /\ "execute" \notin Callers
      /\ "system" \notin Callers
  BY ContextAssumption
<1>3. org = "right"
  BY <1>1, <1>2 DEF TopOK
<1>4. (org = "right") = TRUE
  BY <1>3
<1> QED  BY <1>1, <1>3, <1>4

(* Whoever works goes on with what is left of the context. *)
LEMMA GoodSame ==
  ASSUME NEW c, NEW calls, NEW ps, NEW res, NEW org, Good(c, calls, ps, res, org),
         NEW d, ContextOK(d, ps, org = "right"), StackKept(c, d), d.noStack = c.noStack,
         d.status = c.status \/ (d.status = "aborted" /\ c.status = "suspended" /\
                                 (TopOf(calls) \in Callers => res # "suspended"))
  PROVE  Good(d, calls, ps, res, org)
<1>1. TopOK(c, TopOf(calls), res, org) /\ CppOK(calls, Len(ps))
  BY GoodIs
<1>2. TopOK(d, TopOf(calls), res, org)
  BY <1>1 DEF TopOK, StackKept, CallsKept
<1> QED  BY <1>1, <1>2 DEF Good

LEMMA SuspendPointKeeps ==
  ASSUME ContextInv, origin # "lost", NEW q \in Requests, SuspendPoint(q)
  PROVE  ContextInv'
<1> DEFINE l == LineCallback(cx, q)
           d == Checked(l)
           n == Len(pushed)
<1>1. origin \in {"right", "stale"} /\ Good(cx, cpp, pushed, r, origin)
      /\ TopOf(cpp) = "execute" /\ cx.status = "active" /\ cx' = d
      /\ UNCHANGED <<cpp, r, pushed, origin>>
  BY DEF ContextInv, SuspendPoint, Bytecode, Top, TopOf
<1>2. origin = "right" /\ ContextOK(cx, pushed, TRUE)
  BY <1>1, OriginRight
<1>3. cx \in Contexts /\ Statuswise(cx, BaseOf(pushed, n)) /\ CppOK(cpp, n)
  BY <1>1, GoodIs
<1> HIDE DEF n
<1>4. Asked(cx, l) /\ l \in Contexts
  BY <1>3, LineCallbackIs DEF Asked, Flagged
<1>5. Flagged(l, d) /\ d.status \in {l.status, "suspended"}
  BY <1>4, CheckedIs
<1> HIDE DEF l, d
<1>6. Flagged(cx, d) /\ d.status \in {"active", "suspended"}
  BY <1>1, <1>4, <1>5, FlaggedTwice DEF Asked
<1>7. Running(cx.calls, cx.current, cx.index, cx.sp) /\ cx.started /\ ~cx.noStack
  BY <1>1, <1>3 DEF Statuswise
<1>8. ContextOK(d, pushed, TRUE)
  BY <1>1, <1>2, <1>6, <1>7, FlaggedOK
<1>9. TopOK(d, "execute", r, "right")
  <2>1. "execute" \notin Callers
    BY ContextAssumption
  <2> QED  BY <1>6, <2>1 DEF TopOK
<1>10. Good(d, cpp, pushed, r, "right")
  BY <1>1, <1>3, <1>8, <1>9 DEF Good, n
<1> QED  BY <1>1, <1>2, <1>10 DEF ContextInv

LEMMA ReturnExecuteKeeps ==
  ASSUME ContextInv, origin # "lost", NEW q \in Requests, ReturnExecute(q)
  PROVE  ContextInv'
<1> DEFINE l == LineCallback(cx, q)
           e == [l EXCEPT !.process = cx.line, !.doSuspend = FALSE]
           d == Finish(e)
           n == Len(pushed)
           outer == Front(cpp)
           t == Append(Front(outer), [Last(outer) EXCEPT !.doAbort = TRUE])
<1>1. origin \in {"right", "stale"} /\ Good(cx, cpp, pushed, r, origin)
      /\ TopOf(cpp) = "execute" /\ cx.status # "active" /\ cx' = d /\ r' = cx'.status
      /\ UNCHANGED <<pushed, origin>>
      /\ \/ cpp' = outer
         \/ outer # <<>> /\ cpp' = t
  BY DEF ContextInv, ReturnExecute, Top, TopOf
<1>2. origin = "right" /\ ContextOK(cx, pushed, TRUE)
  BY <1>1, OriginRight
<1>3. /\ cx \in Contexts /\ CppOK(cpp, n) /\ n \in Nat
      /\ TopOK(cx, "execute", r, origin) /\ Len(cpp) = 3 * n + 1
  BY <1>1, GoodIs
<1> HIDE DEF n
<1>4. Asked(cx, l) /\ l \in Contexts
  BY <1>3, LineCallbackIs DEF Asked, Flagged
<1> HIDE DEF l
<1>5. Flagged(l, e) /\ e.status = l.status /\ e \in Contexts
  BY <1>3, <1>4 DEF Flagged, StackKept, CallsKept, Contexts
<1> HIDE DEF e
<1>6. Flagged(e, d) /\ d.status \in {e.status, "aborted"}
  BY <1>5, FinishIs
<1> HIDE DEF d
<1>7. Flagged(cx, d) /\ d.status \in {cx.status, "aborted"} /\ cx.status # "uninitialized"
  <2>1. Flagged(cx, e)
    BY <1>4, <1>5, FlaggedTwice DEF Asked
  <2>2. Flagged(cx, d)
    BY <1>6, <2>1, FlaggedTwice
  <2> QED  BY <1>3, <1>4, <1>5, <1>6, <2>2 DEF Asked, TopOK
<1>8. ContextOK(d, pushed, TRUE)
  BY <1>2, <1>7, FlaggedOK
<1>9. CppOK(outer, n) /\ Len(outer) = 3 * n
  <2>1. Len(cpp) > 0 /\ Len(cpp) - 1 \in 3 * n .. 3 * n + 2 /\ Len(cpp) - 1 = 3 * n
    BY <1>3
  <2> HIDE DEF outer
  <2> QED  BY <1>3, <2>1, CppFront DEF outer
<1> HIDE DEF outer
<1>10. TopOf(outer) # "execute" /\ TopOf(outer) # "system"
  BY <1>3, <1>9, CppTop
<1>11. CppOK(cpp', n) /\ TopOf(cpp') = TopOf(outer)
  <2>1. outer # <<>> => CppOK(t, n) /\ TopOf(t) = TopOf(outer)
    BY <1>3, <1>9, CppMarked
  <2> HIDE DEF t
  <2> QED  BY <1>1, <1>9, <2>1
<1>12. TopOK(d, TopOf(outer), d.status, "right")
  BY <1>7, <1>10 DEF TopOK
<1>13. Good(d, cpp', pushed, d.status, "right")
  BY <1>8, <1>11, <1>12 DEF Good, n
<1>14. r' = d.status /\ pushed' = pushed /\ origin' = "right"
  BY <1>1, <1>2
<1> QED  BY <1>1, <1>13, <1>14 DEF ContextInv

(* An Execute, of the application's or of a nested call's. *)
LEMMA ExecuteGood ==
  ASSUME NEW c, NEW calls, NEW ps, NEW res, NEW org \in {"right", "stale"},
         Good(c, calls, ps, res, org), TopOf(calls) \in Callers \cup {"application"},
         c.status \in {"prepared", "suspended"}, NEW q \in Requests
  PROVE  Good(Execute(c, q), Append(calls, [who |-> "execute", doAbort |-> FALSE]), ps, res, org)
<1> DEFINE d == Execute(c, q)
           t == Append(calls, [who |-> "execute", doAbort |-> FALSE])
           n == Len(ps)
<1>1. org = "right" /\ ContextOK(c, ps, TRUE)
  BY OriginRight
<1>2. n \in Nat /\ CppOK(calls, n) /\ Len(calls) = 3 * n
  <2>1. n \in Nat /\ CppOK(calls, n) /\ Len(calls) \in 3 * n .. 3 * n + 2
    BY GoodIs DEF CppOK
  <2>2. TopOf(calls) = "application" => Len(calls) = 0
    BY GoodIs
  <2>3. TopOf(calls) \in Callers => Len(calls) = 3 * n
    BY GoodIs
  <2> QED  BY <2>1, <2>2, <2>3
<1>3. ContextOK(d, ps, TRUE) /\ d.status # "uninitialized"
  BY <1>1, ExecuteIs
<1> HIDE DEF d
<1>4. CppOK(t, n) /\ TopOf(t) = "execute"
  BY <1>2, CppAppend
<1> HIDE DEF t
<1>5. TopOK(d, "execute", res, org)
  <2>1. "execute" \notin Callers
    BY ContextAssumption
  <2> QED  BY <1>1, <1>3, <2>1 DEF TopOK
<1> QED  BY <1>1, <1>3, <1>4, <1>5 DEF Good, d, t

LEMMA NestedExecuteKeeps ==
  ASSUME ContextInv, origin # "lost", NEW q \in Requests, NestedExecute(q)
  PROVE  ContextInv'
<1>1. origin \in {"right", "stale"} /\ Good(cx, cpp, pushed, r, origin)
      /\ TopOf(cpp) \in Callers /\ (cx.status = "prepared" \/ r = "suspended")
      /\ cx' = Execute(cx, q) /\ cpp' = Append(cpp, [who |-> "execute", doAbort |-> FALSE])
      /\ UNCHANGED <<r, pushed, origin>>
  BY DEF ContextInv, NestedExecute, Resumed, Enters, Top, TopOf
<1>2. cx.status \in {"prepared", "suspended"}
  BY <1>1, GoodIs DEF TopOK
<1>3. Good(cx', cpp', pushed, r, origin)
  BY <1>1, <1>2, ExecuteGood
<1> QED  BY <1>1, <1>3 DEF ContextInv

LEMMA HostExecuteKeeps ==
  ASSUME ContextInv, origin # "lost", NEW q \in Requests, HostExecute(q)
  PROVE  ContextInv'
<1>1. origin \in {"right", "stale"} /\ Good(cx, cpp, pushed, r, origin)
      /\ TopOf(cpp) = "application" /\ cx.status \in {"prepared", "suspended"}
      /\ cx' = Execute(cx, q) /\ cpp' = Append(cpp, [who |-> "execute", doAbort |-> FALSE])
      /\ UNCHANGED <<r, pushed, origin>>
  BY DEF ContextInv, HostExecute, Enters, Top, TopOf
<1>2. Good(cx', cpp', pushed, r, origin)
  BY <1>1, ExecuteGood
<1> QED  BY <1>1, <1>2 DEF ContextInv

(* Bytecode finds the context right, and leaves it so. *)
LEMMA BytecodeGood ==
  ASSUME ContextInv, origin # "lost", Bytecode
  PROVE  /\ origin = "right" /\ Good(cx, cpp, pushed, r, "right") /\ TopOf(cpp) = "execute"
         /\ ContextOK(cx, pushed, TRUE) /\ cx.status = "active" /\ cx \in Contexts
         /\ cx.current # None /\ cx.current \in FunctionOrNone /\ cx.started /\ ~cx.noStack
         /\ Running(cx.calls, cx.current, cx.index, cx.sp)
         /\ UNCHANGED <<r, pushed, origin>>
<1>1. origin \in {"right", "stale"} /\ Good(cx, cpp, pushed, r, origin)
      /\ TopOf(cpp) = "execute" /\ cx.status = "active" /\ UNCHANGED <<r, pushed, origin>>
  BY DEF ContextInv, Bytecode, Top, TopOf
<1>2. origin = "right" /\ ContextOK(cx, pushed, TRUE)
  BY <1>1, OriginRight
<1>3. cx \in Contexts /\ Statuswise(cx, BaseOf(pushed, Len(pushed)))
  BY <1>1, GoodIs
<1>4. cx.current # None /\ cx.started /\ ~cx.noStack
      /\ Running(cx.calls, cx.current, cx.index, cx.sp)
  BY <1>1, <1>3 DEF Statuswise
<1>5. cx.current \in FunctionOrNone
  BY <1>3 DEF Contexts
<1> QED  BY <1>1, <1>2, <1>3, <1>4, <1>5

LEMMA BytecodeKeeps ==
  ASSUME ContextInv, origin # "lost", Bytecode, UNCHANGED cpp,
         ContextOK(cx', pushed, TRUE), cx'.status # "uninitialized"
  PROVE  ContextInv'
<1>1. origin = "right" /\ Good(cx, cpp, pushed, r, "right") /\ TopOf(cpp) = "execute"
      /\ UNCHANGED <<r, pushed, origin>>
  BY BytecodeGood
<1>2. TopOK(cx', "execute", r, "right")
  <2>1. "execute" \notin Callers
    BY ContextAssumption
  <2> QED  BY <2>1 DEF TopOK
<1>3. Good(cx', cpp, pushed, r, "right")
  BY <1>1, <1>2 DEF Good
<1> QED  BY <1>1, <1>3 DEF ContextInv

LEMMA CallKeeps ==
  ASSUME ContextInv, origin # "lost", NEW q \in Requests, NEW f \in Functions, Call(f, q)
  PROVE  ContextInv'
<1>1. Bytecode /\ Fn[cx.current].locals + Fn[f].args <= Fn[cx.current].needed
      /\ cx' = PrepareScriptFunction(Called(cx, f), q) /\ UNCHANGED cpp
  BY DEF Call, Called
<1>2. ContextOK(cx, pushed, TRUE) /\ cx.status = "active"
  BY <1>1, BytecodeGood
<1>3. ContextOK(cx', pushed, TRUE) /\ cx'.status # "uninitialized"
  BY <1>1, <1>2, CallOK
<1> QED  BY <1>1, <1>3, BytecodeKeeps

LEMMA ReturnKeeps ==
  ASSUME ContextInv, origin # "lost", Return
  PROVE  ContextInv'
<1> DEFINE c == [cx EXCEPT !.value = cx.current]
<1>1. Bytecode /\ cx' = Returned(c) /\ UNCHANGED cpp
  BY DEF Return
<1>2. ContextOK(cx, pushed, TRUE) /\ cx.status = "active" /\ cx \in Contexts
      /\ cx.current \in FunctionOrNone
  BY <1>1, BytecodeGood
<1>3. Flagged(cx, c) /\ c.status = "active"
  BY <1>2 DEF Flagged, StackKept, CallsKept, Contexts
<1> HIDE DEF c
<1>4. ContextOK(c, pushed, TRUE)
  BY <1>2, <1>3, FlaggedOK
<1>5. ContextOK(cx', pushed, TRUE) /\ cx'.status # "uninitialized"
  BY <1>1, <1>3, <1>4, ReturnedOK
<1> QED  BY <1>1, <1>5, BytecodeKeeps

LEMMA CallSystemKeeps ==
  ASSUME ContextInv, origin # "lost", CallSystem
  PROVE  ContextInv'
<1> DEFINE d == [cx EXCEPT !.calling = cx.current]
           t == Append(cpp, [who |-> "system", doAbort |-> FALSE])
           n == Len(pushed)
<1>1. Bytecode /\ cx' = d /\ cpp' = t
  BY DEF CallSystem, Enters
<1>2. /\ origin = "right" /\ Good(cx, cpp, pushed, r, "right") /\ TopOf(cpp) = "execute"
      /\ ContextOK(cx, pushed, TRUE) /\ cx.status = "active" /\ cx \in Contexts
      /\ cx.current \in FunctionOrNone /\ cx.started /\ ~cx.noStack
      /\ Running(cx.calls, cx.current, cx.index, cx.sp)
      /\ UNCHANGED <<r, pushed, origin>>
  BY <1>1, BytecodeGood
<1>3. Flagged(cx, d) /\ d.status = "active"
  BY <1>2 DEF Flagged, StackKept, CallsKept, Contexts
<1> HIDE DEF d
<1>4. ContextOK(d, pushed, TRUE)
  BY <1>2, <1>3, FlaggedOK
<1>5. CppOK(t, n) /\ TopOf(t) = "system"
  <2>1. n \in Nat /\ CppOK(cpp, n) /\ Len(cpp) = 3 * n + 1
    BY <1>2, GoodIs
  <2> HIDE DEF n
  <2> QED  BY <2>1, CppAppend
<1> HIDE DEF t
<1>6. TopOK(d, "system", r, "right")
  <2>1. "system" \notin Callers
    BY ContextAssumption
  <2> QED  BY <1>2, <1>3, <2>1 DEF TopOK, Flagged, StackKept, CallsKept
<1>7. Good(d, t, pushed, r, "right")
  BY <1>4, <1>5, <1>6 DEF Good
<1> QED  BY <1>1, <1>2, <1>7 DEF ContextInv

(* A system function finds the context right and running, or an exception. *)
LEMMA SystemGood ==
  ASSUME ContextInv, origin # "lost", Top = "system"
  PROVE  /\ origin = "right" /\ Good(cx, cpp, pushed, r, "right") /\ TopOf(cpp) = "system"
         /\ ContextOK(cx, pushed, TRUE) /\ cx.status \in {"active", "exception"}
         /\ cx \in Contexts /\ cx.started /\ ~cx.noStack
         /\ cx.calling \in FunctionOrNone
         /\ Running(cx.calls, cx.current, cx.index, cx.sp)
         /\ Len(pushed) \in Nat /\ CppOK(cpp, Len(pushed)) /\ Len(cpp) = 3 * Len(pushed) + 2
<1>1. origin \in {"right", "stale"} /\ Good(cx, cpp, pushed, r, origin)
      /\ TopOf(cpp) = "system"
  BY DEF ContextInv, Top, TopOf
<1>2. origin = "right" /\ ContextOK(cx, pushed, TRUE)
  BY <1>1, OriginRight
<1>3. /\ cx \in Contexts /\ TopOK(cx, "system", r, "right")
      /\ Len(pushed) \in Nat /\ CppOK(cpp, Len(pushed)) /\ Len(cpp) = 3 * Len(pushed) + 2
  BY <1>1, <1>2, GoodIs
<1>4. cx.status \in {"active", "exception"} /\ cx.started /\ ~cx.noStack
      /\ Running(cx.calls, cx.current, cx.index, cx.sp)
  BY <1>3 DEF TopOK
<1>5. cx.calling \in FunctionOrNone
  BY <1>3 DEF Contexts
<1> QED  BY <1>1, <1>2, <1>3, <1>4, <1>5

LEMMA SystemKeeps ==
  ASSUME ContextInv, origin # "lost", Top = "system", UNCHANGED <<cpp, r, pushed, origin>>,
         Flagged(cx, cx'), cx'.status \in {cx.status, "exception"}
  PROVE  ContextInv'
<1>1. /\ origin = "right" /\ Good(cx, cpp, pushed, r, "right") /\ TopOf(cpp) = "system"
      /\ ContextOK(cx, pushed, TRUE) /\ cx.status \in {"active", "exception"}
      /\ cx.started /\ ~cx.noStack
      /\ Running(cx.calls, cx.current, cx.index, cx.sp) /\ CppOK(cpp, Len(pushed))
  BY SystemGood
<1>2. ContextOK(cx', pushed, TRUE)
  BY <1>1, FlaggedOK
<1>3. TopOK(cx', "system", r, "right")
  <2>1. "system" \notin Callers
    BY ContextAssumption
  <2> QED  BY <1>1, <2>1 DEF TopOK, Flagged, StackKept, CallsKept
<1>4. Good(cx', cpp, pushed, r, "right")
  BY <1>1, <1>2, <1>3 DEF Good
<1> QED  BY <1>1, <1>4 DEF ContextInv

LEMMA SystemAsksKeeps ==
  ASSUME ContextInv, origin # "lost", NEW q \in Requests, SystemAsks(q)
  PROVE  ContextInv'
<1>1. Top = "system" /\ cx' = Requested(cx, q) /\ UNCHANGED <<cpp, r, pushed, origin>>
  BY DEF SystemAsks
<1>2. cx \in Contexts /\ cx.status \in {"active", "exception"}
  BY <1>1, SystemGood
<1>3. Flagged(cx, cx') /\ cx'.status = cx.status
  BY <1>1, <1>2, RequestedIs DEF Asked
<1> QED  BY <1>1, <1>3, SystemKeeps

LEMMA SystemThrowsKeeps ==
  ASSUME ContextInv, origin # "lost", SystemThrows
  PROVE  ContextInv'
<1>1. Top = "system" /\ cx' = SetException(cx) /\ UNCHANGED <<cpp, r, pushed, origin>>
  BY DEF SystemThrows
<1>2. cx \in Contexts
  BY <1>1, SystemGood
<1>3. Flagged(cx, cx') /\ cx'.status \in {cx.status, "exception"}
  BY <1>1, <1>2, SetExceptionIs
<1> QED  BY <1>1, <1>3, SystemKeeps

LEMMA ReturnSystemKeeps ==
  ASSUME ContextInv, origin # "lost", ReturnSystem
  PROVE  ContextInv'
<1> DEFINE e == [cx EXCEPT !.calling = None, !.value = cx.calling]
           d == Checked(e)
           n == Len(pushed)
           t == Front(cpp)
<1>1. Top = "system" /\ cx' = d /\ cpp' = t /\ UNCHANGED <<r, pushed, origin>>
  BY DEF ReturnSystem, Leaves
<1>2. /\ origin = "right" /\ Good(cx, cpp, pushed, r, "right")
      /\ ContextOK(cx, pushed, TRUE) /\ cx.status \in {"active", "exception"}
      /\ cx \in Contexts /\ cx.started /\ ~cx.noStack /\ cx.calling \in FunctionOrNone
      /\ Running(cx.calls, cx.current, cx.index, cx.sp)
      /\ n \in Nat /\ CppOK(cpp, n) /\ Len(cpp) = 3 * n + 2
  BY <1>1, SystemGood
<1> HIDE DEF n
<1>3. Flagged(cx, e) /\ e.status = cx.status /\ e \in Contexts
  BY <1>2 DEF Flagged, StackKept, CallsKept, Contexts, FunctionOrNone
<1> HIDE DEF e
<1>4. Flagged(e, d) /\ d.status \in {e.status, "suspended"}
  BY <1>3, CheckedIs
<1> HIDE DEF d
<1>5. Flagged(cx, d) /\ d.status \in {cx.status, "suspended"}
  BY <1>3, <1>4, FlaggedTwice
<1>6. ContextOK(d, pushed, TRUE)
  BY <1>2, <1>5, FlaggedOK
<1>7. CppOK(t, n) /\ Len(t) = 3 * n + 1
  <2>1. Len(cpp) > 0 /\ Len(cpp) - 1 \in 3 * n .. 3 * n + 2 /\ Len(cpp) - 1 = 3 * n + 1
    BY <1>2
  <2> HIDE DEF t
  <2> QED  BY <1>2, <2>1, CppFront DEF t
<1> HIDE DEF t
<1>8. TopOf(t) = "execute"
  BY <1>2, <1>7, CppTop
<1>9. TopOK(d, "execute", r, "right")
  <2>1. "execute" \notin Callers
    BY ContextAssumption
  <2> QED  BY <1>2, <1>5, <2>1 DEF TopOK
<1>10. Good(d, t, pushed, r, "right")
  BY <1>6, <1>7, <1>8, <1>9 DEF Good, n
<1> QED  BY <1>1, <1>2, <1>10 DEF ContextInv

(* A nested call begins: the context is put aside. *)
LEMMA StartNestedKeeps ==
  ASSUME ContextInv, origin # "lost", NEW who \in Callers, NEW f \in Functions,
         StartNested(who, f)
  PROVE  ContextInv'
<1> DEFINE c == PushState(cx)
           d == Prepare(c, f)
           qs == Append(pushed, Restorable(cx))
           t == Append(cpp, [who |-> who, doAbort |-> FALSE])
           n == Len(pushed)
           org == IF d.noStack THEN "stale" ELSE "right"
<1>1. Top = "system" /\ cx.status = "active" /\ cx' = d /\ pushed' = qs /\ cpp' = t
      /\ r' = "prepared"
      /\ origin' = IF origin # "right" THEN "lost" ELSE IF cx'.noStack THEN "stale" ELSE "right"
  BY DEF StartNested, Enters, StoresOrigin
<1>2. /\ origin = "right" /\ ContextOK(cx, pushed, TRUE)
      /\ n \in Nat /\ CppOK(cpp, n) /\ Len(cpp) = 3 * n + 2
  BY <1>1, SystemGood
<1>3. origin' = org
  <2> HIDE DEF d
  <2> QED  BY <1>1, <1>2
<1>4. ContextOK(c, qs, TRUE)
  BY <1>1, <1>2, PushStateOK
<1>5. Len(qs) = n + 1
  BY <1>2 DEF ContextOK
<1> HIDE DEF c, qs, n
<1>6. ContextOK(d, qs, ~d.noStack) /\ d.status = IF d.noStack THEN "exception" ELSE "prepared"
  BY <1>4, PrepareOK
<1> HIDE DEF d
<1>7. (org = "right") = (~d.noStack)
  BY <1>6 DEF ContextOK, Contexts
<1>8. ContextOK(d, qs, org = "right")
  BY <1>6, <1>7
<1>9. CppOK(t, Len(qs)) /\ TopOf(t) = who
  <2>1. n + 1 \in Nat
    BY <1>2
  <2>2. CppOK(t, n + 1) /\ TopOf(t) = who
    BY <1>2, <2>1, CppAppend
  <2> QED  BY <1>5, <2>2
<1> HIDE DEF t
<1>10. TopOK(d, who, "prepared", org)
  <2>1. "system" \notin Callers
    BY ContextAssumption
  <2> QED  BY <1>6, <2>1 DEF TopOK
<1>11. Good(d, t, qs, "prepared", org)
  BY <1>8, <1>9, <1>10 DEF Good
<1>12. org \in {"right", "stale"}
  OBVIOUS
<1> HIDE DEF org
<1> QED  BY <1>1, <1>3, <1>11, <1>12 DEF ContextInv

LEMMA PrepareGood ==
  ASSUME NEW c, NEW calls, NEW ps, NEW res, Good(c, calls, ps, res, "right"),
         TopOf(calls) \in Callers \cup {"application"}, NEW f \in Functions,
         NEW res2, TopOf(calls) \in Callers => res2 # "suspended"
  PROVE  Good(Prepare(c, f), calls, ps, res2, IF Prepare(c, f).noStack THEN "stale" ELSE "right")
<1> DEFINE d == Prepare(c, f)
           org == IF d.noStack THEN "stale" ELSE "right"
<1>1. ContextOK(c, ps, "right" = "right") /\ CppOK(calls, Len(ps))
  BY GoodIs
<1>2. ContextOK(c, ps, TRUE)
  BY <1>1
<1>3. ContextOK(d, ps, ~d.noStack) /\ d.status = IF d.noStack THEN "exception" ELSE "prepared"
  BY <1>2, PrepareOK
<1> HIDE DEF d
<1>4. (org = "right") = (~d.noStack)
  BY <1>3 DEF ContextOK, Contexts
<1>5. ContextOK(d, ps, org = "right")
  BY <1>3, <1>4
<1>6. TopOK(d, TopOf(calls), res2, org)
  <2>1. "system" \notin Callers
    BY ContextAssumption
  <2> QED  BY <1>3, <2>1 DEF TopOK
<1> HIDE DEF org
<1>7. Good(d, calls, ps, res2, org)
  BY <1>1, <1>5, <1>6 DEF Good
<1> QED  BY <1>7 DEF d, org

LEMMA NestedAgainKeeps ==
  ASSUME ContextInv, origin # "lost", NEW f \in Functions, NestedAgain(f)
  PROVE  ContextInv'
<1> DEFINE d == Prepare(cx, f)
           org == IF d.noStack THEN "stale" ELSE "right"
<1>1. origin \in {"right", "stale"} /\ Good(cx, cpp, pushed, r, origin)
      /\ TopOf(cpp) \in Callers /\ cx' = d /\ r' = "prepared" /\ UNCHANGED <<cpp, pushed>>
      /\ origin' = IF origin # "right" THEN "lost" ELSE IF cx'.noStack THEN "stale" ELSE "right"
  BY DEF ContextInv, NestedAgain, StoresOrigin, Top, TopOf
<1>2. CASE origin = "right"
  <2>1. Good(d, cpp, pushed, "prepared", org)
    BY <1>1, <1>2, PrepareGood
  <2>2. origin' = org
    <3> HIDE DEF d
    <3> QED  BY <1>1, <1>2
  <2>3. org \in {"right", "stale"}
    OBVIOUS
  <2> HIDE DEF d, org
  <2> QED  BY <1>1, <2>1, <2>2, <2>3 DEF ContextInv
<1>3. CASE origin # "right"
  <2>1. origin' = "lost"
    BY <1>1, <1>3
  <2> QED  BY <2>1 DEF ContextInv
<1> QED  BY <1>2, <1>3

LEMMA HostPrepareKeeps ==
  ASSUME ContextInv, origin # "lost", NEW f \in Functions, HostPrepare(f)
  PROVE  ContextInv'
<1> DEFINE d == Prepare(cx, f)
           org == IF d.noStack THEN "stale" ELSE "right"
<1>1. origin \in {"right", "stale"} /\ Good(cx, cpp, pushed, r, origin)
      /\ TopOf(cpp) = "application" /\ cx' = d /\ UNCHANGED <<cpp, r, pushed>>
      /\ origin' = IF origin # "right" THEN "lost" ELSE IF cx'.noStack THEN "stale" ELSE "right"
  BY DEF ContextInv, HostPrepare, StoresOrigin, Top, TopOf
<1>2. CASE origin = "right"
  <2>1. "application" \notin Callers
    BY ContextAssumption
  <2>2. Good(d, cpp, pushed, r, org)
    BY <1>1, <1>2, <2>1, PrepareGood
  <2>3. origin' = org
    <3> HIDE DEF d
    <3> QED  BY <1>1, <1>2
  <2>4. org \in {"right", "stale"}
    OBVIOUS
  <2> HIDE DEF d, org
  <2> QED  BY <1>1, <2>2, <2>3, <2>4 DEF ContextInv
<1>3. CASE origin # "right"
  <2>1. origin' = "lost"
    BY <1>1, <1>3
  <2> QED  BY <2>1 DEF ContextInv
<1> QED  BY <1>2, <1>3

(* What a nested call hands on to the one that was put aside. *)
LEMMA ForwardedIs ==
  ASSUME NEW c \in Contexts, c.status = "active"
  PROVE  LET d == Forwarded(c)
         IN /\ Flagged(c, d) /\ d.status \in {"active", "exception"}
            /\ Restorable(d) = Restorable(c)
<1>1. Forwarded(c) \in {c, Abort(c), SetException(c)}
  BY DEF Forwarded
<1>2. CASE Forwarded(c) = c
  BY <1>2 DEF Flagged, StackKept, CallsKept
<1>3. CASE Forwarded(c) = Abort(c)
  <2> DEFINE s == Suspend(c)
             d == Abort(c)
  <2>1. Flagged(c, d) /\ d.status = "active"
    BY AbortIs DEF Asked
  <2>2. s \in Contexts /\ s.calling = c.calling /\ s.value = c.value
    BY DEF Suspend, Contexts
  <2>3. d.calling = s.calling /\ d.value = s.value
    <3> HIDE DEF s
    <3> QED  BY <2>2 DEF Abort, Contexts, s
  <2> HIDE DEF s, d
  <2>4. /\ d \in Contexts /\ d.current = c.current /\ d.sp = c.sp /\ d.index = c.index
        /\ d.initial = c.initial /\ d.orig = c.orig /\ d.calls = c.calls
        /\ d.calling = c.calling /\ d.value = c.value
    BY <2>1, <2>2, <2>3 DEF Flagged, StackKept, CallsKept
  <2>5. Restorable(d) = Restorable(c)
    BY <2>4, RestorableHas
  <2> QED  BY <1>3, <2>1, <2>5 DEF d
<1>4. CASE Forwarded(c) = SetException(c)
  <2> DEFINE d == SetException(c)
  <2>1. Flagged(c, d) /\ d.status \in {"active", "exception"}
    BY SetExceptionIs
  <2>2. d.calling = c.calling /\ d.value = c.value
    BY DEF SetException, Contexts
  <2> HIDE DEF d
  <2>3. /\ d \in Contexts /\ d.current = c.current /\ d.sp = c.sp /\ d.index = c.index
        /\ d.initial = c.initial /\ d.orig = c.orig /\ d.calls = c.calls
    BY <2>1 DEF Flagged, StackKept, CallsKept
  <2>4. Restorable(d) = Restorable(c)
    BY <2>2, <2>3, RestorableHas
  <2> QED  BY <1>4, <2>1, <2>4 DEF d
<1> QED  BY <1>1, <1>2, <1>3, <1>4

LEMMA EndNestedKeeps ==
  ASSUME ContextInv, origin # "lost", EndNested
  PROVE  ContextInv' /\ Restorable(cx') = Last(pushed)
<1> DEFINE c == PopState(cx)
           d == Forwarded(c)
           qs == Front(pushed)
           t == Front(cpp)
           n == Len(pushed)
<1>1. origin \in {"right", "stale"} /\ Good(cx, cpp, pushed, r, origin)
      /\ TopOf(cpp) \in Callers /\ MarkerOnTop(cx)
      /\ cx' = d /\ pushed' = qs /\ origin' = "right" /\ cpp' = t /\ UNCHANGED r
  BY DEF ContextInv, EndNested, Leaves, Top, TopOf
<1>2. /\ ContextOK(cx, pushed, origin = "right")
      /\ n \in Nat /\ CppOK(cpp, n) /\ Len(cpp) = 3 * n /\ n > 0
  BY <1>1, GoodIs
<1>3. /\ ContextOK(c, qs, TRUE) /\ Restorable(c) = Last(pushed)
      /\ c.status = "active" /\ c.started /\ ~c.noStack
      /\ Running(c.calls, c.current, c.index, c.sp)
  BY <1>1, <1>2, PopStateOK
<1>4. Len(qs) = n - 1 /\ n - 1 \in Nat
  BY <1>2, FrontIs DEF ContextOK
<1> HIDE DEF c, qs, n
<1>5. c \in Contexts
  BY <1>3 DEF ContextOK
<1>6. /\ Flagged(c, d) /\ d.status \in {"active", "exception"}
      /\ Restorable(d) = Restorable(c)
  BY <1>3, <1>5, ForwardedIs
<1> HIDE DEF d
<1>7. ContextOK(d, qs, TRUE)
  BY <1>3, <1>6, FlaggedOK
<1>8. CppOK(t, Len(qs)) /\ Len(t) = 3 * Len(qs) + 2
  <2>1. Len(cpp) > 0 /\ Len(cpp) - 1 = 3 * (n - 1) + 2
        /\ Len(cpp) - 1 \in 3 * (n - 1) .. 3 * (n - 1) + 2
    BY <1>2, <1>4
  <2> HIDE DEF t
  <2>2. CppOK(t, n - 1) /\ Len(t) = Len(cpp) - 1
    BY <1>2, <1>4, <2>1, CppFront DEF t
  <2> QED  BY <1>4, <2>1, <2>2
<1> HIDE DEF t
<1>9. TopOf(t) = "system"
  BY <1>4, <1>8, CppTop
<1>10. TopOK(d, "system", r, "right")
  <2>1. "system" \notin Callers
    BY ContextAssumption
  <2> QED  BY <1>3, <1>6, <2>1 DEF TopOK, Flagged, StackKept, CallsKept
<1>11. Good(d, t, qs, r, "right")
  BY <1>7, <1>8, <1>9, <1>10 DEF Good
<1> QED  BY <1>1, <1>3, <1>6, <1>11 DEF ContextInv

LEMMA HostUnprepareKeeps ==
  ASSUME ContextInv, origin # "lost", HostUnprepare
  PROVE  ContextInv'
<1> DEFINE d == Unprepare(cx)
<1>1. origin \in {"right", "stale"} /\ Good(cx, cpp, pushed, r, origin)
      /\ TopOf(cpp) = "application" /\ ~Busy(cx) /\ cx' = d
      /\ UNCHANGED <<cpp, r, pushed, origin>>
  BY DEF ContextInv, HostUnprepare, Top, TopOf
<1>2. ContextOK(cx, pushed, origin = "right") /\ CppOK(cpp, Len(pushed))
  BY <1>1, GoodIs
<1>3. ContextOK(d, pushed, origin = "right") /\ d.status = "uninitialized"
  BY <1>1, <1>2, UnprepareOK
<1> HIDE DEF d
<1>4. TopOK(d, "application", r, origin)
  <2>1. "application" \notin Callers
    BY ContextAssumption
  <2> QED  BY <1>3, <2>1 DEF TopOK
<1>5. Good(d, cpp, pushed, r, origin)
  BY <1>1, <1>2, <1>3, <1>4 DEF Good
<1> QED  BY <1>1, <1>5 DEF ContextInv

LEMMA HostAbortsKeeps ==
  ASSUME ContextInv, origin # "lost", HostAborts
  PROVE  ContextInv'
<1> DEFINE d == Abort(cx)
<1>1. origin \in {"right", "stale"} /\ Good(cx, cpp, pushed, r, origin)
      /\ TopOf(cpp) = "application" /\ cx' = d /\ UNCHANGED <<cpp, r, pushed, origin>>
  BY DEF ContextInv, HostAborts, Top, TopOf
<1>2. ContextOK(cx, pushed, origin = "right") /\ cx \in Contexts
  BY <1>1, GoodIs
<1>3. Asked(cx, d)
  BY <1>2, AbortIs
<1> HIDE DEF d
<1>4. ContextOK(d, pushed, origin = "right")
  BY <1>2, <1>3, FlaggedOK DEF Asked
<1>5. "application" \notin Callers
  BY ContextAssumption
<1>6. Good(d, cpp, pushed, r, origin)
  BY <1>1, <1>3, <1>4, <1>5, GoodSame DEF Asked, Flagged
<1> QED  BY <1>1, <1>6 DEF ContextInv

LEMMA OtherSuspendsKeeps ==
  ASSUME ContextInv, origin # "lost", OtherSuspends
  PROVE  ContextInv'
<1> DEFINE d == Suspend(cx)
<1>1. origin \in {"right", "stale"} /\ Good(cx, cpp, pushed, r, origin)
      /\ cx' = d /\ UNCHANGED <<cpp, r, pushed, origin>>
  BY DEF ContextInv, OtherSuspends
<1>2. ContextOK(cx, pushed, origin = "right") /\ cx \in Contexts
  BY <1>1, GoodIs
<1>3. Flagged(cx, d) /\ d.status = cx.status
  BY <1>2, SuspendIs
<1> HIDE DEF d
<1>4. ContextOK(d, pushed, origin = "right")
  BY <1>2, <1>3, FlaggedOK
<1>5. Good(d, cpp, pushed, r, origin)
  BY <1>1, <1>3, <1>4, GoodSame DEF Flagged
<1> QED  BY <1>1, <1>5 DEF ContextInv

LEMMA ContextInitOK == ContextInit => ContextInv
<1> SUFFICES ASSUME ContextInit  PROVE ContextInv
  OBVIOUS
<1>1. PICK line \in BOOLEAN :
        cx = [status |-> "uninitialized", line |-> line, process |-> line, doSuspend |-> FALSE,
              doAbort |-> FALSE, noStack |-> FALSE, started |-> FALSE, initial |-> None,
              current |-> None, calling |-> None, value |-> None, index |-> 0, calls |-> <<>>,
              sp |-> [block |-> 0, left |-> Size[0]], orig |-> [block |-> 0, left |-> Size[0]]]
  BY DEF ContextInit
<1>2. cpp = <<>> /\ r = "none" /\ pushed = <<>> /\ origin = "right"
  BY DEF ContextInit
<1>3. [block |-> 0, left |-> Size[0]] \in Pointer
  BY SizesAre DEF Pointer
<1>4. cx \in Contexts
  BY <1>1, <1>3 DEF Contexts, Statuses, FunctionOrNone, CallStacks
<1>5. /\ cx.status = "uninitialized" /\ cx.initial = None /\ cx.calls = <<>> /\ ~cx.noStack
      /\ cx.index = 0 /\ cx.sp.block = 0
  BY <1>1
<1>6. Len(<<>>) = 0 /\ BaseOf(<<>>, 0) = 0
  BY DEF BaseOf
<1>7. LaidOn(<<>>, 0, <<>>) /\ Chain(<<>>, cx.current) /\ Placed(<<>>, cx.index, cx.sp)
  BY <1>5, <1>6 DEF LaidOn, Chain, Placed, Lowest
<1>8. Statuswise(cx, 0)
  BY <1>5, <1>6 DEF Statuswise
<1>9. ContextOK(cx, <<>>, TRUE)
  BY <1>4, <1>5, <1>6, <1>7, <1>8 DEF ContextOK
<1>10. CppOK(<<>>, 0)
  BY DEF CppOK, CppCalls
<1>11. TopOK(cx, TopOf(<<>>), "none", "right")
  <2>1. "application" \notin Callers
    BY ContextAssumption
  <2> QED  BY <2>1 DEF TopOK, TopOf
<1>12. Good(cx, <<>>, <<>>, "none", "right")
  BY <1>6, <1>9, <1>10, <1>11 DEF Good
<1> QED  BY <1>2, <1>12 DEF ContextInv

LEMMA ContextStepOK == ContextInv /\ [ContextNext]_contextVars => ContextInv'
<1> SUFFICES ASSUME ContextInv, [ContextNext]_contextVars  PROVE ContextInv'
  OBVIOUS
<1>1. CASE UNCHANGED contextVars
  BY <1>1 DEF ContextInv, contextVars
<1>2. CASE ContextNext
  <2> USE <1>2 DEF ContextNext
  <2>1. origin # "lost" /\ ContextStep
    OBVIOUS
  <2>2. LineRequests \subseteq Requests
    BY DEF LineRequests, Requests
  <2>3. ASSUME NEW q \in Requests, SuspendPoint(q)  PROVE ContextInv'
    BY <2>1, <2>3, SuspendPointKeeps
  <2>4. ASSUME NEW q \in Requests, ReturnExecute(q)  PROVE ContextInv'
    BY <2>1, <2>4, ReturnExecuteKeeps
  <2>5. ASSUME NEW q \in Requests, NestedExecute(q)  PROVE ContextInv'
    BY <2>1, <2>5, NestedExecuteKeeps
  <2>6. ASSUME NEW q \in Requests, HostExecute(q)  PROVE ContextInv'
    BY <2>1, <2>6, HostExecuteKeeps
  <2>7. ASSUME NEW q \in Requests, NEW f \in Functions, Call(f, q)  PROVE ContextInv'
    BY <2>1, <2>7, CallKeeps
  <2>8. Return => ContextInv'
    BY <2>1, ReturnKeeps
  <2>9. CallSystem => ContextInv'
    BY <2>1, CallSystemKeeps
  <2>10. ReturnSystem => ContextInv'
    BY <2>1, ReturnSystemKeeps
  <2>11. SystemThrows => ContextInv'
    BY <2>1, SystemThrowsKeeps
  <2>12. ASSUME NEW q \in Requests, SystemAsks(q)  PROVE ContextInv'
    BY <2>1, <2>12, SystemAsksKeeps
  <2>13. ASSUME NEW who \in Callers, NEW f \in NestedFns(who), StartNested(who, f)
         PROVE  ContextInv'
    <3>1. f \in Functions
      BY ContextAssumption DEF NestedFns
    <3> QED  BY <2>1, <2>13, <3>1, StartNestedKeeps
  <2>14. ASSUME NEW f \in Functions, NestedAgain(f)  PROVE ContextInv'
    BY <2>1, <2>14, NestedAgainKeeps
  <2>15. EndNested => ContextInv'
    BY <2>1, EndNestedKeeps
  <2>16. ASSUME NEW f \in HostFns, HostPrepare(f)  PROVE ContextInv'
    <3>1. f \in Functions
      BY ContextAssumption
    <3> QED  BY <2>1, <2>16, <3>1, HostPrepareKeeps
  <2>17. HostUnprepare => ContextInv'
    BY <2>1, HostUnprepareKeeps
  <2>18. HostAborts => ContextInv'
    BY <2>1, HostAbortsKeeps
  <2>19. OtherSuspends => ContextInv'
    BY <2>1, OtherSuspendsKeeps
  <2> QED
    BY <2>1, <2>2, <2>3, <2>4, <2>5, <2>6, <2>7, <2>8, <2>9, <2>10, <2>11, <2>12, <2>13,
       <2>14, <2>15, <2>16, <2>17, <2>18, <2>19 DEF ContextStep
<1> QED  BY <1>1, <1>2

(* The arguments that were pushed for a call are no fewer than none. *)
LEMMA PushedForNat ==
  ASSUME NEW c, NEW ps, NEW right, ContextOK(c, ps, right),
         NEW i \in 1 .. Len(c.calls), c.calls[i].kind = "call"
  PROVE  PushedFor(c.calls, c.current, i) \in Nat
<1> DEFINE b == BaseOf(ps, Len(ps))
<1>1. /\ c \in Contexts /\ c.calls \in CallStacks /\ Len(c.calls) \in Nat /\ Statuswise(c, b)
      /\ Cut(c.calls, b)
  BY OKCleanable DEF ContextOK, Cleanable, Contexts, CallStacks
<1> HIDE DEF b
<1>2. CASE i = Len(c.calls)
  <2>1. c.status # "uninitialized"
    BY <1>1, <1>2 DEF Statuswise, Cut
  <2>2. c.current \in Functions
    BY <1>1, <2>1 DEF Statuswise, Contexts, FunctionOrNone
  <2> QED  BY <1>2, <2>2, FnNat DEF PushedFor
<1>3. CASE i # Len(c.calls)
  <2>1. i + 1 \in 1 .. Len(c.calls)
    BY <1>1, <1>3
  <2>2. c.calls[i + 1].kind = "call" => c.calls[i + 1].current \in Functions
    BY <1>1, <2>1, CallIs
  <2>3. c.calls[i + 1].kind = "call" => Fn[c.calls[i + 1].current].args \in Nat
    BY <2>2, FnNat
  <2> QED  BY <1>3, <2>3 DEF PushedFor
<1> QED  BY <1>2, <1>3

LEMMA FramesAreApart ==
  ASSUME ContextInv, origin # "lost"
  PROVE  FramesApart
<1>1. Good(cx, cpp, pushed, r, origin)
  BY DEF ContextInv
<1>2. /\ ContextOK(cx, pushed, origin = "right") /\ cx \in Contexts
      /\ Statuswise(cx, BaseOf(pushed, Len(pushed)))
  BY <1>1, GoodIs
<1>3. /\ cx.calls \in CallStacks /\ Len(cx.calls) \in Nat /\ DOMAIN cx.calls = 1 .. Len(cx.calls)
      /\ Chain(cx.calls, cx.current)
  BY <1>2 DEF ContextOK, Contexts, CallStacks
<1>4. \A i \in CallFrames : i \in 1 .. Len(cx.calls) /\ cx.calls[i].kind = "call"
  BY <1>3 DEF CallFrames
<1>5. ASSUME cx.status \in {"prepared", "active", "suspended", "finished"}
      PROVE  /\ cx.sp.block = cx.index
             /\ cx.sp.left >= Reserve
             /\ \A i \in CallFrames : Below(cx.index, cx.sp, cx.calls[i])
  <2>1. Placed(cx.calls, cx.index, cx.sp)
    BY <1>2, <1>5 DEF Statuswise, Running
  <2>2. cx.sp.left >= Reserve
    <3>1. cx.current \in Functions /\ cx.sp.left \in Int
      BY <1>2, <1>5 DEF Statuswise, Contexts, FunctionOrNone, Pointer
    <3>2. /\ Room(cx.current) \in Nat /\ Room(cx.current) >= Reserve /\ Reserve \in Nat
          /\ Fn[cx.current].needed \in Nat
      BY <3>1, FnNat
    <3>3. cx.sp.left >= Room(cx.current) \/ cx.sp.left >= Fn[cx.current].needed + Reserve
      BY <1>2, <1>5 DEF Statuswise, Running
    <3> QED  BY <3>1, <3>2, <3>3
  <2>3. \A i \in CallFrames : Below(cx.index, cx.sp, cx.calls[i])
    BY <1>4, <2>1 DEF Placed, Lowest, Under, Below
  <2> QED  BY <2>1, <2>2, <2>3 DEF Placed
<1>6. ASSUME NEW i \in CallFrames
      PROVE  /\ cx.calls[i].sp.block = cx.calls[i].index
             /\ \A j \in CallFrames :
                  j < i => Below(cx.calls[i].index, cx.calls[i].sp, cx.calls[j])
  <2> DEFINE n == PushedFor(cx.calls, cx.current, i)
  <2>1. i \in 1 .. Len(cx.calls) /\ cx.calls[i].kind = "call"
    BY <1>4
  <2>2. n \in Nat
    BY <1>2, <2>1, PushedForNat
  <2>3. cx.calls[i].sp.block = cx.calls[i].index
        /\ Lowest(cx.calls, i - 1, cx.calls[i].index, cx.calls[i].sp.left + n)
    BY <1>3, <2>1 DEF Chain, FrameFits
  <2>4. cx.calls[i].index \in Nat /\ cx.calls[i].sp.left \in Int
    BY <1>3, <2>1, CallIs
  <2> HIDE DEF n
  <2>5. /\ i - 1 \in Nat /\ i - 1 <= Len(cx.calls) /\ cx.calls[i].sp.left + n \in Int
        /\ cx.calls[i].sp.left <= cx.calls[i].sp.left + n
    BY <1>3, <2>1, <2>2, <2>4
  <2>6. Lowest(cx.calls, i - 1, cx.calls[i].index, cx.calls[i].sp.left)
    BY <1>3, <2>3, <2>4, <2>5, LowestLower
  <2>7. ASSUME NEW j \in CallFrames, j < i
        PROVE  Below(cx.calls[i].index, cx.calls[i].sp, cx.calls[j])
    <3>1. j \in 1 .. i - 1 /\ cx.calls[j].kind = "call"
      BY <1>4, <2>1, <2>7
    <3>2. Under(cx.calls[i].index, cx.calls[i].sp.left, cx.calls[j])
      BY <2>6, <3>1 DEF Lowest
    <3> QED  BY <3>2 DEF Under, Below
  <2> QED  BY <2>3, <2>7
<1> QED  BY <1>5, <1>6 DEF FramesApart

LEMMA ContextInvAlways == ContextSpec => []ContextInv
<1> QED  BY ContextInitOK, ContextStepOK, PTL DEF ContextSpec

(* However contexts are prepared, called, suspended, aborted and used for  *)
(* nested calls, for every stack limit and every set of functions: what    *)
(* runs has its reserve and lies below everyone who waits for it to return *)
(* (as_context.cpp, ReserveStackSpace, PushState, CleanStack).             *)
THEOREM FramesStayApart == ContextSpec => []StacksApart
<1>1. ContextInv => StacksApart
  BY FramesAreApart DEF StacksApart
<1> QED  BY <1>1, ContextInvAlways, PTL

(* Whatever happens between PushState and PopState, the outer call comes   *)
(* back as it was: its call stack, function, stack pointer and registers.  *)
THEOREM OuterCallRestored == ContextSpec => PopStateRestores
<1>1. ASSUME ContextInv, ContextNext, Len(pushed') < Len(pushed)
      PROVE  Restorable(cx') = Last(pushed)
  <2>1. origin # "lost" /\ ContextStep
    BY <1>1 DEF ContextNext
  <2>2. Len(pushed) \in Nat /\ pushed \in Seq(Restorables)
    BY <1>1, <2>1 DEF ContextInv, Good, ContextOK
  <2>3. pushed' # pushed
    BY <1>1, <2>2
  <2>4. \A who, f : ~StartNested(who, f)
    <3> SUFFICES ASSUME NEW who, NEW f, StartNested(who, f)  PROVE FALSE
      OBVIOUS
    <3>1. pushed' = Append(pushed, Restorable(cx))
      BY DEF StartNested
    <3>2. Len(pushed') = Len(pushed) + 1
      BY <2>2, <3>1
    <3> QED  BY <1>1, <2>2, <3>2
  <2>5. EndNested
    BY <2>1, <2>3, <2>4 DEF ContextStep, SuspendPoint, ReturnExecute, NestedExecute, HostExecute,
       Call, Return, CallSystem, ReturnSystem, SystemThrows, SystemAsks, NestedAgain,
       HostPrepare, HostUnprepare, HostAborts, OtherSuspends, Bytecode
  <2> QED  BY <1>1, <2>1, <2>5, EndNestedKeeps
<1>2. ContextInv /\ [ContextNext]_contextVars =>
        [Len(pushed') < Len(pushed) => Restorable(cx') = Last(pushed)]_contextVars
  BY <1>1
<1> QED  BY <1>2, ContextInvAlways, PTL DEF ContextSpec, PopStateRestores

-----------------------------------------------------------------------------
(* An abort a callback has asked for.  A destructor has been told of it:   *)
MarkedAt(calls, i) == i \in DOMAIN calls /\ calls[i].who = "destructor" /\ calls[i].doAbort

(* or the context is about to stop for it, or has.                         *)
Forwards(c, calls, top, res) ==
  /\ top = "application" => c.status \notin {"prepared", "active", "suspended"}
  /\ top = "execute" => \/ MarkedAt(calls, Len(calls) - 1)
                        \/ c.doAbort /\ c.status \notin {"active", "finished"}
  /\ top = "system" => \/ MarkedAt(calls, Len(calls) - 2)
                       \/ c.doAbort /\ c.doSuspend /\ c.process
  /\ top \in Callers => \/ MarkedAt(calls, Len(calls))
                        \/ top # "destructor" /\ res = "aborted" /\ c.status = "aborted"

(* A line callback that is there is called. *)
Attends(c) == c.line => c.process
AbortInv ==
  /\ asked \in BOOLEAN
  /\ Attends(cx)
  /\ asked => Forwards(cx, cpp, Top, r)

(* What the operators do to the requests. *)
Alert(c, d) == d.line = c.line /\ (c.process => d.process)
StillAsked(c, d) ==
  Alert(c, d) /\ (c.doAbort => d.doAbort) /\ (c.doSuspend => d.doSuspend)
Stops(d) == d.doAbort /\ d.doSuspend /\ d.process

LEMMA AlertAttends ==
  ASSUME NEW c, NEW d, Attends(c), Alert(c, d)
  PROVE  Attends(d)
BY DEF Attends, Alert

LEMMA SuspendSets ==
  ASSUME NEW c \in Contexts
  PROVE  LET d == Suspend(c)
         IN /\ StillAsked(c, d) /\ d.doSuspend /\ d.process /\ d.doAbort = c.doAbort
            /\ d.status = c.status /\ d \in Contexts
BY DEF Suspend, Contexts, StillAsked, Alert

LEMMA AbortSets ==
  ASSUME NEW c \in Contexts
  PROVE  LET d == Abort(c)
         IN /\ StillAsked(c, d) /\ Stops(d)
            /\ d.status = IF c.status = "suspended" THEN "aborted" ELSE c.status
<1> DEFINE s == Suspend(c)
<1>1. /\ StillAsked(c, s) /\ s.doSuspend /\ s.process /\ s.status = c.status /\ s \in Contexts
  BY SuspendSets
<1>2. Abort(c) = [s EXCEPT !.status = IF @ = "suspended" THEN "aborted" ELSE @, !.doAbort = TRUE]
  BY DEF Abort
<1> HIDE DEF s
<1> QED  BY <1>1, <1>2 DEF Contexts, StillAsked, Alert, Stops

LEMMA RequestedSets ==
  ASSUME NEW c \in Contexts, NEW q \in Requests
  PROVE  LET d == Requested(c, q)
         IN /\ StillAsked(c, d) /\ (q = "abort" => Stops(d))
            /\ d.status = c.status \/ (c.status = "suspended" /\ d.status = "aborted")
<1>1. q = "nothing" => Requested(c, q) = c
  BY DEF Requested
<1>2. q = "suspend" => Requested(c, q) = Suspend(c)
  BY DEF Requested
<1>3. q = "abort" => Requested(c, q) = Abort(c)
  BY DEF Requested
<1>4. StillAsked(c, c)
  BY DEF StillAsked, Alert
<1>5. CASE q = "nothing"
  BY <1>1, <1>4, <1>5
<1>6. CASE q = "suspend"
  BY <1>2, <1>6, SuspendSets
<1>7. CASE q = "abort"
  BY <1>3, <1>7, AbortSets
<1> QED  BY <1>5, <1>6, <1>7 DEF Requests

LEMMA LineCallbackSets ==
  ASSUME NEW c \in Contexts, NEW q \in Requests
  PROVE  LET d == LineCallback(c, q)
         IN /\ StillAsked(c, d) /\ (q = "abort" /\ c.line => Stops(d))
            /\ d.status = c.status \/ (c.status = "suspended" /\ d.status = "aborted")
<1>1. CASE c.line
  BY <1>1, RequestedSets DEF LineCallback
<1>2. CASE ~c.line
  BY <1>2 DEF LineCallback, StillAsked, Alert
<1> QED  BY <1>1, <1>2 DEF Contexts

LEMMA CheckedSets ==
  ASSUME NEW c \in Contexts
  PROVE  LET d == Checked(c)
         IN /\ StillAsked(c, d) /\ d.doAbort = c.doAbort
            /\ c.process /\ c.doSuspend => d.status = "suspended"
BY DEF Checked, Contexts, StillAsked, Alert

LEMMA SetExceptionSets ==
  ASSUME NEW c \in Contexts
  PROVE  StillAsked(c, SetException(c))
<1>1. CASE c.calling = None
  BY <1>1 DEF SetException, StillAsked, Alert
<1>2. CASE c.calling # None
  BY <1>2 DEF SetException, StillAsked, Alert, Contexts
<1> QED  BY <1>1, <1>2

LEMMA ReserveAlert ==
  ASSUME NEW c \in Contexts, NEW size
  PROVE  Alert(c, ReserveStackSpace(c, size))
<1> DEFINE final == c.index + MaxBlocks
           ends == {b \in c.index .. final : Fits(Grown(c, b), size) \/ ~MayGrow(b) \/ b = final}
           b0 == Min(ends)
           p == [block |-> b0, left |-> Size[b0] - Fn[c.current].args]
           last == Grown(c, b0)
<1>1. ReserveStackSpace(c, size) =
        IF Fits(last, size) THEN last
        ELSE [last EXCEPT !.noStack = TRUE, !.status = "exception", !.process = TRUE]
  BY DEF ReserveStackSpace
<1>2. last = c \/ last = [c EXCEPT !.index = b0, !.sp = p]
  BY DEF Grown
<1> HIDE DEF last, p, b0
<1>3. DOMAIN last = DOMAIN c /\ last.line = c.line /\ last.process = c.process
  BY <1>2 DEF Contexts
<1>4. {"line", "process", "noStack", "status"} \subseteq DOMAIN last
  BY <1>3 DEF Contexts
<1>5. CASE Fits(last, size)
  BY <1>1, <1>3, <1>5 DEF Alert
<1>6. CASE ~Fits(last, size)
  <2> DEFINE e == [last EXCEPT !.noStack = TRUE, !.status = "exception", !.process = TRUE]
  <2>1. e.line = last.line /\ e.process
    BY <1>4
  <2> HIDE DEF e
  <2> QED  BY <1>1, <1>3, <1>6, <2>1 DEF Alert, e
<1> QED  BY <1>5, <1>6

(* A line callback that asks for an abort stops the function that is       *)
(* entered, unless it had no stack.                                        *)
LEMMA PrepareScriptSets ==
  ASSUME NEW c \in Contexts, c.current \in Functions, NEW q \in Requests, c.status = "active",
         ~c.noStack, Attends(c)
  PROVE  LET d == PrepareScriptFunction(c, q)
         IN Attends(d) /\ (q = "abort" /\ c.line => d.status \notin {"active", "finished"})
<1> DEFINE d == ReserveStackSpace(c, Fn[c.current].needed)
           e == Push(d, Fn[c.current].locals)
           l == LineCallback(e, q)
           p == PrepareScriptFunction(c, q)
<1>1. Fn[c.current].needed \in Nat /\ Fn[c.current].locals \in Int
  BY FnNat
<1>2. d \in Contexts /\ (d.noStack => d.status = "exception")
  <2>1. /\ Moved(c, d)
        /\ \/ d.status = c.status /\ d.noStack = c.noStack
           \/ d.noStack /\ d.status = "exception"
    BY <1>1, ReserveIs
  <2> HIDE DEF d
  <2> QED  BY <2>1 DEF Moved
<1>3. Alert(c, d)
  BY ReserveAlert
<1>4. p = IF d.noStack THEN d ELSE IF e.process THEN Checked(l) ELSE e
  BY DEF PrepareScriptFunction
<1> HIDE DEF d
<1>5. Attends(d) /\ d.line = c.line
  BY <1>3, AlertAttends DEF Alert
<1>6. CASE d.noStack
  BY <1>2, <1>4, <1>5, <1>6
<1>7. CASE ~d.noStack
  <2>1. e \in Contexts
    BY <1>1, <1>2, PushIs
  <2>2. e.line = d.line /\ e.process = d.process
    BY <1>2 DEF Push, Contexts
  <2>3. p = IF e.process THEN Checked(l) ELSE e
    BY <1>4, <1>7
  <2> HIDE DEF e
  <2>4. Attends(e)
    BY <1>5, <2>2 DEF Attends
  <2>5. CASE e.process
    <3>1. l \in Contexts /\ StillAsked(e, l) /\ (q = "abort" /\ e.line => Stops(l))
      BY <2>1, LineCallbackIs, LineCallbackSets DEF Asked, Flagged
    <3> HIDE DEF l
    <3>2. Attends(l)
      BY <2>4, <3>1, AlertAttends DEF StillAsked
    <3>3. /\ StillAsked(l, Checked(l))
          /\ l.process /\ l.doSuspend => Checked(l).status = "suspended"
      BY <3>1, CheckedSets
    <3>4. Attends(Checked(l))
      BY <3>2, <3>3, AlertAttends DEF StillAsked
    <3>5. q = "abort" /\ c.line => Checked(l).status = "suspended"
      BY <1>5, <2>2, <3>1, <3>3 DEF Stops
    <3> QED  BY <2>3, <2>5, <3>4, <3>5
  <2>6. CASE ~e.process
    <3>1. ~c.line
      BY <1>5, <2>2, <2>4, <2>6 DEF Attends
    <3> QED  BY <2>3, <2>4, <2>6, <3>1
  <2> QED  BY <2>5, <2>6
<1> QED  BY <1>6, <1>7

LEMMA CleanedAlert ==
  ASSUME NEW c \in Contexts
  PROVE  Alert(c, Cleaned(c))
<1> DEFINE u == CleanStack(c)
           d == IF c.status \in {"finished", "uninitialized"} THEN c ELSE u
<1>1. DOMAIN u = DOMAIN c /\ u.line = c.line /\ u.process = c.process
  <2> DEFINE markers == {i \in DOMAIN c.calls : c.calls[i].kind = "nested"}
             top == IF markers = {} THEN 0
                    ELSE CHOOSE i \in markers : \A j \in markers : j <= i
             t == SubSeq(c.calls, 1, top + 1)
             x == [c EXCEPT !.calls = t]
             y == IF AtBase(c) THEN c ELSE PopCallState(x)
  <2>1. u = [y EXCEPT !.status = "exception", !.noStack = FALSE]
    BY DEF CleanStack
  <2> HIDE DEF top, u
  <2>2. DOMAIN x = DOMAIN c /\ x.line = c.line /\ x.process = c.process
    BY DEF Contexts
  <2> HIDE DEF x
  <2>3. PopCallState(x) = [x EXCEPT !.current = Last(x.calls).current, !.sp = Last(x.calls).sp,
                                    !.index = Last(x.calls).index, !.calls = Front(@)]
    BY DEF PopCallState
  <2>4. /\ DOMAIN PopCallState(x) = DOMAIN x /\ PopCallState(x).line = x.line
        /\ PopCallState(x).process = x.process
    BY <2>2, <2>3 DEF Contexts
  <2>5. DOMAIN y = DOMAIN c /\ y.line = c.line /\ y.process = c.process
    BY <2>2, <2>4
  <2> HIDE DEF y
  <2> QED  BY <2>1, <2>5 DEF Contexts
<1> HIDE DEF u
<1>2. DOMAIN d = DOMAIN c /\ d.line = c.line /\ d.process = c.process
  BY <1>1
<1>3. Cleaned(c) = IF c.initial = None THEN d ELSE [d EXCEPT !.sp = c.orig]
  BY DEF Cleaned, u
<1> HIDE DEF d
<1> QED  BY <1>2, <1>3 DEF Contexts, Alert

LEMMA PrepareAttends ==
  ASSUME NEW c, NEW b, Cleanable(c, b), NEW f \in Functions, Attends(c)
  PROVE  Attends(Prepare(c, f))
<1> DEFINE u == Cleaned(c)
           d == [u EXCEPT !.initial = f, !.current = f]
           n == Fn[f].args + Fn[f].needed
           e == IF f = c.initial THEN d ELSE ReserveStackSpace(d, n)
           k == IF e.status = "finished" THEN e
                ELSE [e EXCEPT !.doAbort = FALSE, !.doSuspend = FALSE, !.process = e.line]
           p == Push(k, Fn[e.current].args)
<1>1. c \in Contexts /\ u \in Contexts
  BY CleanedIs DEF Clean, Cleanable
<1>2. Attends(u)
  BY <1>1, CleanedAlert, AlertAttends
<1>3. Prepare(c, f) = IF e.noStack THEN e ELSE Prepared(e)
  BY DEF Prepare
<1> HIDE DEF u
<1>4. d \in Contexts /\ d.line = u.line /\ d.process = u.process /\ d.current = f
  BY <1>1 DEF Contexts, FunctionOrNone
<1> HIDE DEF d
<1>5. Attends(d)
  BY <1>2, <1>4 DEF Attends
<1>6. n \in Nat
  BY FnNat
<1> HIDE DEF n
<1>7. e \in Contexts /\ Attends(e)
  <2>1. CASE f = c.initial
    BY <1>4, <1>5, <2>1
  <2>2. CASE f # c.initial
    <3>1. e = ReserveStackSpace(d, n)
      BY <2>2
    <3> HIDE DEF e
    <3> QED  BY <1>4, <1>5, <1>6, <3>1, ReserveIs, ReserveAlert, AlertAttends DEF Moved
  <2> QED  BY <2>1, <2>2
<1> HIDE DEF e
<1>8. Attends(Prepared(e))
  <2>1. Prepared(e) = [p EXCEPT !.status = "prepared", !.started = FALSE, !.orig = e.sp]
    BY DEF Prepared
  <2>2. k \in Contexts
    BY <1>7 DEF Contexts
  <2>3. Attends(k)
    BY <1>7 DEF Contexts, Attends
  <2> HIDE DEF k
  <2>4. p = [k EXCEPT !.sp.left = @ - Fn[e.current].args]
    BY DEF Push
  <2>5. DOMAIN p = DOMAIN k /\ p.line = k.line /\ p.process = k.process
    BY <2>2, <2>4 DEF Contexts
  <2> HIDE DEF p
  <2>6. Prepared(e).line = k.line /\ Prepared(e).process = k.process
    BY <2>1, <2>2, <2>5 DEF Contexts
  <2> QED  BY <2>3, <2>6 DEF Attends
<1> QED  BY <1>3, <1>7, <1>8

LEMMA UnprepareAttends ==
  ASSUME NEW c, NEW ps, NEW right, ContextOK(c, ps, right), Attends(c)
  PROVE  Attends(Unprepare(c))
<1> DEFINE u == Cleaned(c)
<1>1. c \in Contexts /\ u \in Contexts
  BY OKCleanable, CleanedIs DEF Clean, Cleanable
<1>2. Attends(u)
  BY <1>1, CleanedAlert, AlertAttends
<1>3. Unprepare(c) = IF Busy(c) THEN c
                     ELSE [u EXCEPT !.initial = None, !.current = None, !.started = FALSE,
                                    !.status = "uninitialized"]
  BY DEF Unprepare
<1> HIDE DEF u
<1> QED  BY <1>1, <1>2, <1>3 DEF Contexts, Attends

LEMMA PushStateAttends ==
  ASSUME NEW c \in Contexts, c.current # None, Attends(c)
  PROVE  Attends(PushState(c))
<1> DEFINE u == PushCallState(c)
           p == Push(u, 2)
<1>1. PushState(c) = [p EXCEPT !.calls = Append(@, MarkerOf(c)), !.initial = None,
                               !.calling = None, !.value = None, !.status = "uninitialized"]
  BY DEF PushState, MarkerOf
<1>2. u \in Contexts
  BY PushCallIs
<1>3. u.line = c.line /\ u.process = c.process
  BY DEF PushCallState, Contexts
<1> HIDE DEF u
<1>4. p \in Contexts
  BY <1>2, PushIs
<1>5. p.line = u.line /\ p.process = u.process
  BY <1>2 DEF Push, Contexts
<1> HIDE DEF p
<1>6. PushState(c).line = p.line /\ PushState(c).process = p.process
  BY <1>1, <1>4 DEF Contexts
<1> QED  BY <1>3, <1>5, <1>6 DEF Attends

LEMMA PopCallAlert ==
  ASSUME NEW c, NEW x, DOMAIN x = DOMAIN c, c \in Contexts
  PROVE  /\ DOMAIN PopCallState(x) = DOMAIN x
         /\ PopCallState(x).line = x.line /\ PopCallState(x).process = x.process
<1>1. PopCallState(x) = [x EXCEPT !.current = Last(x.calls).current, !.sp = Last(x.calls).sp,
                                  !.index = Last(x.calls).index, !.calls = Front(@)]
  BY DEF PopCallState
<1> QED  BY <1>1 DEF Contexts

LEMMA PopStateAttends ==
  ASSUME NEW c, NEW ps, NEW right, ContextOK(c, ps, right), Attends(c), ~Busy(c)
  PROVE  Attends(PopState(c))
<1> DEFINE u == Unprepare(c)
           m == Last(u.calls)
           v == [u EXCEPT !.calls = Front(@)]
           x == PopCallState(v)
<1>1. u \in Contexts /\ Attends(u)
  BY UnprepareIs, UnprepareAttends
<1>2. PopState(c) = [x EXCEPT !.calling = m.calling, !.initial = m.initial, !.orig = m.orig,
                              !.value = m.value, !.started = TRUE, !.status = "active"]
  BY DEF PopState
<1> HIDE DEF u, m
<1>3. DOMAIN v = DOMAIN u /\ v.line = u.line /\ v.process = u.process
  BY <1>1 DEF Contexts
<1> HIDE DEF v
<1>4. DOMAIN x = DOMAIN u /\ x.line = u.line /\ x.process = u.process
  BY <1>1, <1>3, PopCallAlert
<1> HIDE DEF x
<1>5. PopState(c).line = x.line /\ PopState(c).process = x.process
  BY <1>1, <1>2, <1>4 DEF Contexts
<1> QED  BY <1>1, <1>4, <1>5 DEF Attends

LEMMA ExecuteSets ==
  ASSUME NEW c, NEW ps, ContextOK(c, ps, TRUE), NEW q \in Requests,
         c.status \in {"prepared", "suspended"}, Attends(c)
  PROVE  LET d == Execute(c, q)
         IN /\ Attends(d)
            /\ ~c.started /\ q = "abort" /\ c.line => d.status \notin {"active", "finished"}
<1> DEFINE b == BaseOf(ps, Len(ps))
           d == [c EXCEPT !.status = "active", !.started = TRUE]
<1>1. c \in Contexts /\ Statuswise(c, b)
  BY DEF ContextOK
<1>2. /\ d \in Contexts /\ d.status = "active" /\ d.current = c.current
      /\ d.noStack = c.noStack /\ d.line = c.line /\ d.process = c.process
  BY <1>1 DEF Contexts, Statuses
<1>3. Execute(c, q) = IF c.started THEN d ELSE PrepareScriptFunction(d, q)
  BY DEF Execute
<1> HIDE DEF d
<1>4. ~c.noStack /\ c.current \in Functions
  BY <1>1 DEF Statuswise, Contexts, FunctionOrNone
<1>5. Attends(d)
  BY <1>2 DEF Attends
<1>6. /\ Attends(PrepareScriptFunction(d, q))
      /\ q = "abort" /\ d.line => PrepareScriptFunction(d, q).status \notin {"active", "finished"}
  BY <1>2, <1>4, <1>5, PrepareScriptSets
<1> QED  BY <1>2, <1>3, <1>5, <1>6

(* Where the marks are when calls come and go. *)
LEMMA CppBelow ==
  ASSUME NEW n \in Nat, NEW calls, CppOK(calls, n), calls # <<>>
  PROVE  LET t == Front(calls)
         IN /\ Len(calls) \in Nat /\ Len(t) = Len(calls) - 1 /\ Len(t) \in Nat
            /\ \A i \in 1 .. Len(t) : t[i] = calls[i]
            /\ DOMAIN t = 1 .. Len(t) /\ DOMAIN calls = 1 .. Len(calls)
            /\ TopOf(calls) = "system" => TopOf(t) = "execute"
            /\ TopOf(calls) \in Callers => TopOf(t) = "system"
            /\ TopOf(calls) = "execute" =>
                 /\ TopOf(t) \in Callers \cup {"application"} /\ CppOK(t, n)
                 /\ TopOf(t) = "application" <=> t = <<>>
<1> DEFINE t == Front(calls)
           l == Len(calls)
<1>1. calls \in CppCalls /\ l \in Nat /\ l > 0 /\ l \in 3 * n .. 3 * n + 2
  BY CppTop DEF CppOK
<1>2. /\ t \in CppCalls /\ Len(t) = l - 1 /\ \A i \in 1 .. l - 1 : t[i] = calls[i]
  BY <1>1, FrontIs DEF CppCalls
<1>3. DOMAIN t = 1 .. Len(t) /\ DOMAIN calls = 1 .. l
  BY <1>1, <1>2 DEF CppCalls
<1>4. TopOf(calls) = "system" => TopOf(t) = "execute"
  <2> SUFFICES ASSUME TopOf(calls) = "system"  PROVE TopOf(t) = "execute"
    OBVIOUS
  <2>1. l = 3 * n + 2
    BY CppTop
  <2>2. l > 0 /\ l - 1 \in 3 * n .. 3 * n + 2 /\ l - 1 = 3 * n + 1
    BY <2>1
  <2>3. CppOK(t, n)
    BY <2>2, CppFront
  <2> QED  BY <1>2, <2>2, <2>3, CppTop
<1>5. TopOf(calls) \in Callers => TopOf(t) = "system"
  <2> SUFFICES ASSUME TopOf(calls) \in Callers  PROVE TopOf(t) = "system"
    OBVIOUS
  <2>1. l = 3 * n /\ n > 0
    BY CppTop
  <2>2. PICK m \in Nat : n = m + 1
    <3>1. n - 1 \in Nat /\ n = (n - 1) + 1
      BY <2>1
    <3> QED  BY <3>1
  <2>3. l > 0 /\ l - 1 \in 3 * m .. 3 * m + 2 /\ l - 1 = 3 * m + 2
    BY <2>1, <2>2
  <2>4. CppOK(t, m)
    BY <2>3, CppFront
  <2> QED  BY <1>2, <2>3, <2>4, CppTop
<1>6. ASSUME TopOf(calls) = "execute"
      PROVE  /\ TopOf(t) \in Callers \cup {"application"} /\ CppOK(t, n)
             /\ TopOf(t) = "application" <=> t = <<>>
  <2>1. l = 3 * n + 1
    BY <1>6, CppTop
  <2>2. l > 0 /\ l - 1 \in 3 * n .. 3 * n + 2 /\ l - 1 = 3 * n
    BY <2>1
  <2>3. CppOK(t, n) /\ Len(t) = 3 * n
    BY <1>2, <2>2, CppFront
  <2> HIDE DEF t
  <2>4. /\ TopOf(t) = "application" <=> t = <<>>
        /\ t = <<>> <=> Len(t) = 0
        /\ TopOf(t) \in Callers <=> Len(t) = 3 * n /\ n > 0
    BY <2>3, CppTop
  <2>5. n = 0 => Len(t) = 0
    BY <2>3
  <2> QED  BY <2>3, <2>4, <2>5
<1> QED  BY <1>1, <1>2, <1>3, <1>4, <1>5, <1>6

LEMMA MarkedPush ==
  ASSUME NEW calls \in CppCalls, NEW who, NEW i, MarkedAt(calls, i)
  PROVE  MarkedAt(Append(calls, [who |-> who, doAbort |-> FALSE]), i)
<1> DEFINE e == [who |-> who, doAbort |-> FALSE]
           t == Append(calls, e)
<1>1. calls \in Seq(UNION {{calls[j] : j \in DOMAIN calls}, {e}})
  BY DEF CppCalls
<1> HIDE DEF e
<1>2. DOMAIN calls \subseteq DOMAIN t /\ \A j \in DOMAIN calls : t[j] = calls[j]
  BY <1>1
<1> HIDE DEF t
<1>3. MarkedAt(t, i)
  BY <1>2 DEF MarkedAt
<1> QED  BY <1>3 DEF t, e

LEMMA PushedLen ==
  ASSUME NEW calls \in CppCalls, NEW who
  PROVE  LET t == Append(calls, [who |-> who, doAbort |-> FALSE])
         IN Len(t) = Len(calls) + 1 /\ TopOf(t) = who /\ Len(calls) \in Nat
<1> DEFINE e == [who |-> who, doAbort |-> FALSE]
           t == Append(calls, e)
<1>1. calls \in Seq(UNION {{calls[j] : j \in DOMAIN calls}, {e}}) /\ e.who = who
  BY DEF CppCalls
<1> HIDE DEF e
<1>2. Len(t) = Len(calls) + 1 /\ Len(calls) \in Nat /\ t[Len(calls) + 1] = e
  BY <1>1
<1>3. TopOf(t) = who
  <2> HIDE DEF t
  <2>1. t # <<>>
    BY <1>2
  <2> QED  BY <1>1, <1>2, <2>1 DEF TopOf, Last
<1> QED  BY <1>2, <1>3 DEF t, e

LEMMA AbortFacts ==
  ASSUME ContextInv, origin # "lost"
  PROVE  /\ cx \in Contexts /\ Len(pushed) \in Nat /\ CppOK(cpp, Len(pushed)) /\ cpp \in CppCalls
         /\ ContextOK(cx, pushed, origin = "right")
         /\ Len(cpp) \in Nat /\ Top = TopOf(cpp) /\ Top' = TopOf(cpp')
         /\ Top = "application" <=> cpp = <<>>
         /\ "application" \notin Callers /\ "execute" \notin Callers /\ "system" \notin Callers
<1>1. Good(cx, cpp, pushed, r, origin)
  BY DEF ContextInv
<1>2. Top = TopOf(cpp) /\ Top' = TopOf(cpp')
  BY DEF Top, TopOf
<1> QED  BY <1>1, <1>2, GoodIs, ContextAssumption DEF CppOK

(* Bytecode goes on though an abort was asked for only under a destructor  *)
(* that has been told.                                                     *)
LEMMA BytecodeForwards ==
  ASSUME ContextInv, AbortInv, origin # "lost", Bytecode, UNCHANGED cpp, asked' \in BOOLEAN,
         Attends(cx'),
         asked' => asked \/ (cx'.doAbort /\ cx'.status \notin {"active", "finished"})
  PROVE  AbortInv'
<1>1. Top = "execute" /\ cx.status = "active" /\ Top' = "execute"
  BY DEF Bytecode, Top
<1>2. "execute" \notin Callers
  BY ContextAssumption
<1>3. asked => MarkedAt(cpp, Len(cpp) - 1)
  BY <1>1 DEF AbortInv, Forwards
<1>4. asked' => Forwards(cx', cpp', Top', r')
  BY <1>1, <1>2, <1>3 DEF Forwards
<1> QED  BY <1>4 DEF AbortInv, Attends

LEMMA SuspendPointForwards ==
  ASSUME ContextInv, AbortInv, origin # "lost", NEW q \in LineRequests, SuspendPoint(q)
  PROVE  AbortInv'
<1> DEFINE l == LineCallback(cx, q)
<1>1. /\ Bytecode /\ cx' = Checked(l) /\ UNCHANGED cpp
      /\ asked' = (asked \/ (q = "abort" /\ cx'.doAbort))
  BY DEF SuspendPoint, Asks
<1>2. q \in Requests /\ (q = "abort" => cx.line)
  BY DEF LineRequests, Requests
<1>3. /\ l \in Contexts /\ StillAsked(cx, l) /\ (q = "abort" /\ cx.line => Stops(l))
  BY <1>2, AbortFacts, LineCallbackIs, LineCallbackSets DEF Asked, Flagged
<1> HIDE DEF l
<1>4. /\ StillAsked(l, cx') /\ cx'.doAbort = l.doAbort
      /\ l.process /\ l.doSuspend => cx'.status = "suspended"
  BY <1>1, <1>3, CheckedSets
<1>5. Attends(cx')
  BY <1>3, <1>4, AlertAttends DEF StillAsked, AbortInv
<1>6. q = "abort" => cx'.doAbort /\ cx'.status = "suspended"
  BY <1>2, <1>3, <1>4 DEF Stops
<1>7. asked' \in BOOLEAN /\ (asked' => asked \/ (cx'.doAbort /\ cx'.status = "suspended"))
  <2>1. asked' = TRUE \/ asked' = FALSE
    BY <1>1, Zenon
  <2> QED  BY <1>1, <1>6, <2>1
<1> QED  BY <1>1, <1>5, <1>7, BytecodeForwards

LEMMA CalledKeepsLine ==
  ASSUME NEW c \in Contexts, c.current # None, NEW f \in Functions
  PROVE  Called(c, f).line = c.line /\ Called(c, f).process = c.process
<1> DEFINE p == Push(c, Fn[f].args)
           u == PushCallState(p)
<1>1. Called(c, f) = [u EXCEPT !.current = f]
  BY DEF Called
<1>2. Fn[f].args \in Int
  BY FnNat
<1>3. p \in Contexts /\ p.current = c.current
  BY <1>2, PushIs DEF CallsKept
<1>4. p.line = c.line /\ p.process = c.process
  BY DEF Push, Contexts
<1> HIDE DEF p
<1>5. u \in Contexts
  BY <1>3, PushCallIs
<1>6. u.line = p.line /\ u.process = p.process
  BY <1>3 DEF PushCallState, Contexts
<1> HIDE DEF u
<1> QED  BY <1>1, <1>4, <1>5, <1>6 DEF Contexts

LEMMA CallForwards ==
  ASSUME ContextInv, AbortInv, origin # "lost", NEW q \in LineRequests, NEW f \in Functions,
         Call(f, q)
  PROVE  AbortInv'
<1> DEFINE c == Called(cx, f)
<1>1. /\ Bytecode /\ cx' = PrepareScriptFunction(c, q) /\ UNCHANGED cpp
      /\ asked' = (asked \/ (q = "abort" /\ cx'.doAbort))
  BY DEF Call, Called, Asks
<1>2. q \in Requests /\ (q = "abort" => cx.line)
  BY DEF LineRequests, Requests
<1>3. cx \in Contexts /\ cx.current # None /\ cx.status = "active" /\ ~cx.noStack
  BY <1>1, BytecodeGood
<1>4. c \in Contexts /\ c.current = f /\ c.status = "active" /\ ~c.noStack
  BY <1>3, CalledIs
<1>5. c.line = cx.line /\ c.process = cx.process
  BY <1>3, CalledKeepsLine
<1> HIDE DEF c
<1>6. Attends(c)
  BY <1>5 DEF Attends, AbortInv
<1>7. Attends(cx') /\ (q = "abort" /\ c.line => cx'.status \notin {"active", "finished"})
  BY <1>1, <1>2, <1>4, <1>6, PrepareScriptSets
<1>8. asked' \in BOOLEAN
  <2>1. asked' = TRUE \/ asked' = FALSE
    BY <1>1, Zenon
  <2> QED  BY <2>1
<1>9. asked' => asked \/ (cx'.doAbort /\ cx'.status \notin {"active", "finished"})
  BY <1>1, <1>2, <1>5, <1>7
<1> QED  BY <1>1, <1>7, <1>8, <1>9, BytecodeForwards

LEMMA ReturnForwards ==
  ASSUME ContextInv, AbortInv, origin # "lost", Return
  PROVE  AbortInv'
<1> DEFINE c == [cx EXCEPT !.value = cx.current]
           p == PopCallState(c)
<1>1. Bytecode /\ cx' = Returned(c) /\ UNCHANGED <<cpp, asked>>
  BY DEF Return
<1>2. cx \in Contexts
  BY AbortFacts
<1>3. DOMAIN c = DOMAIN cx /\ c.line = cx.line /\ c.process = cx.process
  BY <1>2 DEF Contexts
<1>4. cx' = IF AtBase(c) THEN [c EXCEPT !.status = "finished"]
            ELSE [p EXCEPT !.sp.left = @ - (-Fn[c.current].args)]
  BY <1>1 DEF Returned, Push
<1> HIDE DEF c
<1>5. DOMAIN p = DOMAIN cx /\ p.line = c.line /\ p.process = c.process
  BY <1>2, <1>3, PopCallAlert
<1> HIDE DEF p
<1>6. cx'.line = cx.line /\ cx'.process = cx.process
  BY <1>2, <1>3, <1>4, <1>5 DEF Contexts
<1>7. Attends(cx') /\ asked' \in BOOLEAN
  BY <1>1, <1>6 DEF Attends, AbortInv
<1> QED  BY <1>1, <1>7, BytecodeForwards

LEMMA CallSystemForwards ==
  ASSUME ContextInv, AbortInv, origin # "lost", CallSystem
  PROVE  AbortInv'
<1>1. /\ Top = "execute" /\ cx.status = "active" /\ cx' = [cx EXCEPT !.calling = cx.current]
      /\ cpp' = Append(cpp, [who |-> "system", doAbort |-> FALSE]) /\ UNCHANGED asked
  BY DEF CallSystem, Bytecode, Enters
<1>2. cx \in Contexts /\ cpp \in CppCalls /\ Top' = TopOf(cpp') /\ "system" \notin Callers
  BY AbortFacts
<1>3. Len(cpp') = Len(cpp) + 1 /\ TopOf(cpp') = "system" /\ Len(cpp) \in Nat
  BY <1>1, <1>2, PushedLen
<1>4. asked => MarkedAt(cpp, Len(cpp) - 1)
  BY <1>1 DEF AbortInv, Forwards
<1>5. asked => MarkedAt(cpp', Len(cpp) - 1)
  BY <1>1, <1>2, <1>4, MarkedPush
<1>6. Len(cpp') - 2 = Len(cpp) - 1
  BY <1>3
<1>7. asked' => Forwards(cx', cpp', Top', r')
  BY <1>1, <1>2, <1>3, <1>5, <1>6 DEF Forwards
<1>8. Attends(cx')
  BY <1>1, <1>2 DEF Attends, AbortInv, Contexts
<1> QED  BY <1>1, <1>7, <1>8 DEF AbortInv, Attends

LEMMA ReturnSystemForwards ==
  ASSUME ContextInv, AbortInv, origin # "lost", ReturnSystem
  PROVE  AbortInv'
<1> DEFINE c == [cx EXCEPT !.calling = None, !.value = cx.calling]
<1>1. Top = "system" /\ cx' = Checked(c) /\ cpp' = Front(cpp) /\ UNCHANGED <<r, asked>>
  BY DEF ReturnSystem, Leaves
<1>2. cx \in Contexts /\ Top = TopOf(cpp) /\ Top' = TopOf(cpp') /\ "execute" \notin Callers
      /\ CppOK(cpp, Len(pushed)) /\ Len(pushed) \in Nat /\ cpp # <<>>
  BY <1>1, AbortFacts
<1>3. /\ TopOf(cpp') = "execute" /\ Len(cpp) \in Nat /\ Len(cpp') = Len(cpp) - 1
      /\ Len(cpp') \in Nat /\ \A i \in 1 .. Len(cpp') : cpp'[i] = cpp[i]
      /\ DOMAIN cpp' = 1 .. Len(cpp') /\ DOMAIN cpp = 1 .. Len(cpp)
  BY <1>1, <1>2, CppBelow
<1>4. /\ c \in Contexts /\ c.line = cx.line /\ c.process = cx.process
      /\ c.doAbort = cx.doAbort /\ c.doSuspend = cx.doSuspend
  BY <1>2 DEF Contexts, FunctionOrNone
<1> HIDE DEF c
<1>5. /\ StillAsked(c, cx') /\ cx'.doAbort = c.doAbort
      /\ c.process /\ c.doSuspend => cx'.status = "suspended"
  BY <1>1, <1>4, CheckedSets
<1>6. Attends(cx')
  BY <1>4, <1>5 DEF Attends, AbortInv, StillAsked, Alert
<1>7. CASE MarkedAt(cpp, Len(cpp) - 2)
  <2>1. Len(cpp') - 1 = Len(cpp) - 2 /\ Len(cpp) - 2 \in 1 .. Len(cpp')
    BY <1>3, <1>7 DEF MarkedAt
  <2>2. MarkedAt(cpp', Len(cpp') - 1)
    BY <1>3, <1>7, <2>1 DEF MarkedAt
  <2> QED  BY <1>1, <1>2, <1>3, <1>6, <2>2 DEF AbortInv, Forwards, Attends
<1>8. CASE ~MarkedAt(cpp, Len(cpp) - 2)
  <2>1. asked => cx.doAbort /\ cx.doSuspend /\ cx.process
    BY <1>1, <1>8 DEF AbortInv, Forwards
  <2>2. asked => cx'.doAbort /\ cx'.status = "suspended"
    BY <1>4, <1>5, <2>1
  <2> QED  BY <1>1, <1>2, <1>3, <1>6, <2>2 DEF AbortInv, Forwards, Attends
<1> QED  BY <1>7, <1>8

(* What asked for an abort returns with it, to the application or to a     *)
(* nested call that looks at it.                                           *)
LEMMA ReturnExecuteForwards ==
  ASSUME ContextInv, AbortInv, origin # "lost", NEW q \in LineRequests, ReturnExecute(q)
  PROVE  AbortInv' /\ (asked /\ cpp' = <<>> => cx'.status # "finished")
<1> DEFINE l == LineCallback(cx, q)
           e == [l EXCEPT !.process = cx.line, !.doSuspend = FALSE]
           d == Finish(e)
           outer == Front(cpp)
           t == Append(Front(outer), [Last(outer) EXCEPT !.doAbort = TRUE])
           told == outer # <<>> /\ Last(outer).who = "destructor" /\ r' = "aborted"
<1>1. /\ Top = "execute" /\ cx' = d /\ r' = cx'.status /\ UNCHANGED <<pushed, asked, origin>>
      /\ cpp' = IF told THEN t ELSE outer
  BY DEF ReturnExecute
<1>2. /\ cx \in Contexts /\ Top = TopOf(cpp) /\ Top' = TopOf(cpp') /\ q \in Requests
      /\ CppOK(cpp, Len(pushed)) /\ Len(pushed) \in Nat /\ cpp # <<>>
      /\ "execute" \notin Callers /\ "system" \notin Callers /\ "application" \notin Callers
  BY <1>1, AbortFacts DEF LineRequests, Requests
<1>3. /\ TopOf(outer) \in Callers \cup {"application"} /\ CppOK(outer, Len(pushed))
      /\ TopOf(outer) = "application" <=> outer = <<>>
      /\ Len(cpp) \in Nat /\ Len(outer) = Len(cpp) - 1 /\ Len(outer) \in Nat
      /\ \A i \in 1 .. Len(outer) : outer[i] = cpp[i]
      /\ DOMAIN outer = 1 .. Len(outer)
  BY <1>1, <1>2, CppBelow
<1>4. /\ l \in Contexts /\ StillAsked(cx, l)
      /\ l.status = cx.status \/ (cx.status = "suspended" /\ l.status = "aborted")
  BY <1>2, LineCallbackIs, LineCallbackSets DEF Asked, Flagged
<1> HIDE DEF l
<1>5. /\ e \in Contexts /\ e.status = l.status /\ e.doAbort = l.doAbort
      /\ e.line = cx.line /\ e.process = cx.line
  BY <1>2, <1>4 DEF Contexts, StillAsked, Alert
<1> HIDE DEF e
<1>6. /\ d.line = e.line /\ d.process = e.process
      /\ e.doAbort /\ e.status # "finished" => d.status = "aborted"
  BY <1>5 DEF Finish, Contexts
<1> HIDE DEF d
<1>7. Attends(cx')
  BY <1>1, <1>5, <1>6 DEF Attends
<1>8. cx.doAbort /\ cx.status \notin {"active", "finished"} => cx'.status = "aborted"
  BY <1>1, <1>4, <1>5, <1>6 DEF StillAsked
<1>9. ASSUME outer # <<>>
      PROVE  /\ TopOf(t) = TopOf(outer) /\ t # <<>> /\ TopOf(outer) = Last(outer).who
             /\ MarkedAt(t, Len(t)) <=> TopOf(t) = "destructor"
  <2> DEFINE R == [who : {"execute", "system"} \cup Callers, doAbort : BOOLEAN]
             m == [Last(outer) EXCEPT !.doAbort = TRUE]
             f == Front(outer)
  <2>1. outer \in Seq(R) /\ Len(outer) > 0
    BY <1>3, <1>9 DEF CppOK, CppCalls
  <2> HIDE DEF outer
  <2>2. Last(outer) \in R
    <3> HIDE DEF R
    <3>1. outer[Len(outer)] \in R
      BY <2>1
    <3> QED  BY <3>1 DEF Last
  <2>3. m \in R /\ m.doAbort /\ m.who = Last(outer).who
    <3>1. PICK x \in R : x = Last(outer)
      BY <2>2
    <3>2. m = [x EXCEPT !.doAbort = TRUE]
      BY <3>1
    <3> HIDE DEF m
    <3> QED  BY <3>1, <3>2
  <2> HIDE DEF R
  <2>4. f \in Seq(R)
    BY <2>1, FrontIs
  <2> HIDE DEF m, f
  <2>5. t = Append(f, m)
    BY DEF f, m
  <2> HIDE DEF t
  <2>6. t \in Seq(R) /\ Len(t) = Len(f) + 1 /\ Len(f) \in Nat /\ t[Len(f) + 1] = m
    BY <2>3, <2>4, <2>5
  <2>7. Len(t) \in DOMAIN t /\ t[Len(t)] = m /\ t # <<>>
    BY <2>6
  <2>8. TopOf(t) = m.who /\ TopOf(outer) = Last(outer).who
    BY <1>9, <2>7 DEF TopOf, Last
  <2>9. MarkedAt(t, Len(t)) <=> TopOf(t) = "destructor"
    BY <2>3, <2>7, <2>8 DEF MarkedAt
  <2> QED  BY <2>3, <2>7, <2>8, <2>9
<1> HIDE DEF t, outer
<1>10. CASE MarkedAt(cpp, Len(cpp) - 1)
  <2>1. outer # <<>> /\ MarkedAt(outer, Len(outer))
    <3>1. Len(outer) \in 1 .. Len(outer)
      BY <1>2, <1>3, <1>10 DEF MarkedAt, CppOK, CppCalls
    <3>2. Len(outer) # 0
      BY <3>1
    <3> QED  BY <1>3, <1>10, <3>1, <3>2 DEF MarkedAt
  <2>2. TopOf(outer) = "destructor" /\ TopOf(outer) \in Callers
    BY <1>3, <1>9, <2>1 DEF MarkedAt, Last
  <2>3. cpp' # <<>> /\ TopOf(cpp') \in Callers /\ MarkedAt(cpp', Len(cpp'))
    BY <1>1, <1>9, <2>1, <2>2
  <2>4. Forwards(cx', cpp', Top', r')
    BY <1>2, <2>3 DEF Forwards
  <2> QED  BY <1>1, <1>7, <2>3, <2>4 DEF AbortInv, Attends
<1>11. CASE ~MarkedAt(cpp, Len(cpp) - 1)
  <2>1. asked => cx'.status = "aborted" /\ r' = "aborted"
    BY <1>1, <1>8, <1>11 DEF AbortInv, Forwards
  <2>2. asked => Forwards(cx', cpp', Top', r')
    <3>1. CASE outer = <<>>
      BY <1>1, <1>2, <1>3, <2>1, <3>1 DEF Forwards
    <3>2. CASE outer # <<>>
      <4>1. TopOf(outer) \in Callers /\ TopOf(cpp') = TopOf(outer)
        BY <1>1, <1>3, <1>9, <3>2
      <4>2. asked /\ TopOf(outer) = "destructor" => MarkedAt(cpp', Len(cpp'))
        BY <1>1, <1>9, <2>1, <3>2
      <4> QED  BY <1>2, <2>1, <4>1, <4>2 DEF Forwards
    <3> QED  BY <3>1, <3>2
  <2> QED  BY <1>1, <1>7, <2>1, <2>2 DEF AbortInv, Attends
<1> QED  BY <1>10, <1>11

LEMMA SystemStillAsked ==
  ASSUME ContextInv, AbortInv, origin # "lost", Top = "system", UNCHANGED cpp, asked' \in BOOLEAN,
         StillAsked(cx, cx'), asked' => asked \/ Stops(cx')
  PROVE  AbortInv'
<1>1. Top' = "system" /\ "system" \notin Callers
  BY AbortFacts DEF Top
<1>2. asked => MarkedAt(cpp, Len(cpp) - 2) \/ Stops(cx)
  BY DEF AbortInv, Forwards, Stops
<1>3. Stops(cx) => Stops(cx')
  BY DEF Stops, StillAsked, Alert
<1>4. asked' => Forwards(cx', cpp', Top', r')
  BY <1>1, <1>2, <1>3 DEF Forwards, Stops
<1>5. Attends(cx')
  BY AlertAttends DEF AbortInv, StillAsked
<1> QED  BY <1>4, <1>5 DEF AbortInv, Attends

LEMMA SystemThrowsForwards ==
  ASSUME ContextInv, AbortInv, origin # "lost", SystemThrows
  PROVE  AbortInv'
<1>1. Top = "system" /\ cx' = SetException(cx) /\ UNCHANGED <<cpp, asked>>
  BY DEF SystemThrows
<1>2. StillAsked(cx, cx')
  BY <1>1, AbortFacts, SetExceptionSets
<1>3. asked' \in BOOLEAN
  BY <1>1 DEF AbortInv
<1> QED  BY <1>1, <1>2, <1>3, SystemStillAsked

LEMMA SystemAsksForwards ==
  ASSUME ContextInv, AbortInv, origin # "lost", NEW q \in Requests, SystemAsks(q)
  PROVE  AbortInv'
<1>1. /\ Top = "system" /\ cx' = Requested(cx, q) /\ UNCHANGED cpp
      /\ asked' = (asked \/ (q = "abort" /\ cx'.doAbort))
  BY DEF SystemAsks, Asks
<1>2. StillAsked(cx, cx') /\ (q = "abort" => Stops(cx'))
  BY <1>1, AbortFacts, RequestedSets
<1>3. asked' \in BOOLEAN
  <2>1. asked' = TRUE \/ asked' = FALSE
    BY <1>1, Zenon
  <2> QED  BY <2>1
<1>4. asked' => asked \/ Stops(cx')
  BY <1>1, <1>2
<1> QED  BY <1>1, <1>2, <1>3, <1>4, SystemStillAsked

LEMMA StartNestedForwards ==
  ASSUME ContextInv, AbortInv, origin # "lost", NEW who \in Callers, NEW f \in Functions,
         StartNested(who, f)
  PROVE  AbortInv'
<1> DEFINE d == PushState(cx)
           qs == Append(pushed, Restorable(cx))
<1>1. Top = "system" /\ cx.status = "active" /\ cx' = Prepare(d, f) /\ asked' = FALSE
  BY DEF StartNested
<1>2. origin = "right" /\ ContextOK(cx, pushed, TRUE)
  <2>1. origin \in {"right", "stale"} /\ Good(cx, cpp, pushed, r, origin)
    BY DEF ContextInv
  <2>2. TopOf(cpp) \in {"execute", "system"}
    BY <1>1, AbortFacts
  <2> QED  BY <2>1, <2>2, OriginRight
<1>3. cx \in Contexts /\ Statuswise(cx, BaseOf(pushed, Len(pushed)))
  BY <1>2 DEF ContextOK
<1>4. cx.current # None
  BY <1>1, <1>3 DEF Statuswise
<1>5. Attends(d)
  BY <1>3, <1>4, PushStateAttends DEF AbortInv
<1>6. ContextOK(d, qs, TRUE)
  BY <1>1, <1>2, PushStateOK
<1> HIDE DEF d, qs
<1>7. Cleanable(d, BaseOf(qs, Len(qs)))
  BY <1>6, OKCleanable
<1>8. Attends(cx')
  BY <1>1, <1>5, <1>7, PrepareAttends
<1> QED  BY <1>1, <1>8 DEF AbortInv, Attends

LEMMA PreparedAttends ==
  ASSUME ContextInv, AbortInv, origin # "lost", NEW f \in Functions, cx' = Prepare(cx, f)
  PROVE  Attends(cx')
<1>1. ContextOK(cx, pushed, origin = "right")
  BY AbortFacts
<1>2. Cleanable(cx, BaseOf(pushed, Len(pushed)))
  BY <1>1, OKCleanable
<1> QED  BY <1>2, PrepareAttends DEF AbortInv

LEMMA NestedAgainForwards ==
  ASSUME ContextInv, AbortInv, origin # "lost", NEW f \in Functions, NestedAgain(f)
  PROVE  AbortInv'
<1>1. /\ Top \in Callers /\ cx' = Prepare(cx, f) /\ asked' = (asked /\ Top = "destructor")
      /\ UNCHANGED cpp
  BY DEF NestedAgain
<1>2. Top' = Top /\ Top \notin {"application", "execute", "system"}
  BY <1>1, AbortFacts DEF Top
<1>3. Attends(cx')
  BY <1>1, PreparedAttends
<1>4. asked' => MarkedAt(cpp, Len(cpp))
  BY <1>1 DEF AbortInv, Forwards
<1>5. asked' => Forwards(cx', cpp', Top', r')
  BY <1>1, <1>2, <1>4 DEF Forwards
<1>6. asked' \in BOOLEAN
  <2>1. asked' = TRUE \/ asked' = FALSE
    BY <1>1, Zenon
  <2> QED  BY <2>1
<1> QED  BY <1>3, <1>5, <1>6 DEF AbortInv, Attends

(* A function that is executed by one that has not been told of an abort   *)
(* begins with none asked for.                                             *)
LEMMA ExecuteForwards ==
  ASSUME ContextInv, AbortInv, origin # "lost", NEW q \in LineRequests,
         Top \in Callers \cup {"application"}, cx.status \in {"prepared", "suspended"},
         cx' = Execute(cx, q), Enters("execute"), IF cx.started THEN UNCHANGED asked ELSE Asks(q)
  PROVE  AbortInv'
<1>1. cpp' = Append(cpp, [who |-> "execute", doAbort |-> FALSE])
  BY DEF Enters
<1>2. /\ cx \in Contexts /\ cpp \in CppCalls /\ Top' = TopOf(cpp') /\ Top = TopOf(cpp)
      /\ "execute" \notin Callers /\ "application" \notin Callers /\ "system" \notin Callers
      /\ q \in Requests /\ (q = "abort" => cx.line)
  BY AbortFacts DEF LineRequests, Requests
<1>3. Len(cpp') = Len(cpp) + 1 /\ Top' = "execute" /\ Len(cpp) \in Nat
  BY <1>1, <1>2, PushedLen
<1>4. asked => MarkedAt(cpp, Len(cpp))
  BY <1>2 DEF AbortInv, Forwards
<1>5. asked => MarkedAt(cpp', Len(cpp') - 1)
  <2>1. asked => MarkedAt(cpp', Len(cpp))
    BY <1>1, <1>2, <1>4, MarkedPush
  <2>2. Len(cpp') - 1 = Len(cpp)
    BY <1>3
  <2> QED  BY <2>1, <2>2
<1>6. /\ Attends(cx')
      /\ ~cx.started /\ q = "abort" /\ cx.line => cx'.status \notin {"active", "finished"}
  <2>1. ContextOK(cx, pushed, TRUE)
    <3>1. origin \in {"right", "stale"} /\ Good(cx, cpp, pushed, r, origin)
      BY DEF ContextInv
    <3>2. cx.status \notin {"exception", "uninitialized"}
      OBVIOUS
    <3> QED  BY <3>1, <3>2, OriginRight
  <2> QED  BY <1>2, <2>1, ExecuteSets DEF AbortInv
<1>7. asked' = asked \/ asked' = (asked \/ (q = "abort" /\ cx'.doAbort))
  BY DEF Asks
<1>8. asked' => asked \/ (~cx.started /\ q = "abort" /\ cx'.doAbort)
  BY DEF Asks
<1>9. asked' => Forwards(cx', cpp', Top', r')
  BY <1>2, <1>3, <1>5, <1>6, <1>8 DEF Forwards
<1>10. asked' \in BOOLEAN
  <2>1. asked \in BOOLEAN
    BY DEF AbortInv
  <2>2. asked' = asked \/ asked' = TRUE \/ asked' = FALSE
    BY <1>7, Zenon
  <2> QED  BY <2>1, <2>2
<1> QED  BY <1>6, <1>9, <1>10 DEF AbortInv, Attends

LEMMA NestedExecuteForwards ==
  ASSUME ContextInv, AbortInv, origin # "lost", NEW q \in LineRequests, NestedExecute(q)
  PROVE  AbortInv'
<1>1. /\ Top \in Callers /\ cx' = Execute(cx, q) /\ Enters("execute")
      /\ IF cx.started THEN UNCHANGED asked ELSE Asks(q)
      /\ cx.status = "prepared" \/ r = "suspended"
  BY DEF NestedExecute, Resumed
<1>2. cx.status \in {"prepared", "suspended"}
  <2>1. Good(cx, cpp, pushed, r, origin) /\ TopOf(cpp) \in Callers
    BY <1>1, AbortFacts DEF ContextInv
  <2> QED  BY <1>1, <2>1, GoodIs DEF TopOK
<1> QED  BY <1>1, <1>2, ExecuteForwards

LEMMA HostExecuteForwards ==
  ASSUME ContextInv, AbortInv, origin # "lost", NEW q \in LineRequests, HostExecute(q)
  PROVE  AbortInv'
<1>1. /\ Top = "application" /\ cx' = Execute(cx, q) /\ Enters("execute")
      /\ IF cx.started THEN UNCHANGED asked ELSE Asks(q)
      /\ cx.status \in {"prepared", "suspended"}
  BY DEF HostExecute
<1> QED  BY <1>1, ExecuteForwards

LEMMA EndNestedForwards ==
  ASSUME ContextInv, AbortInv, origin # "lost", EndNested
  PROVE  AbortInv'
<1> DEFINE c == PopState(cx)
<1>1. /\ Top \in Callers /\ cx' = Forwarded(c) /\ cpp' = Front(cpp) /\ MarkerOnTop(cx)
      /\ UNCHANGED asked
  BY DEF EndNested, Leaves
<1>2. /\ cx \in Contexts /\ Top = TopOf(cpp) /\ Top' = TopOf(cpp')
      /\ CppOK(cpp, Len(pushed)) /\ Len(pushed) \in Nat /\ cpp # <<>>
      /\ ContextOK(cx, pushed, origin = "right")
      /\ "execute" \notin Callers /\ "system" \notin Callers /\ "application" \notin Callers
  BY <1>1, AbortFacts
<1>3. Len(pushed) > 0
  BY <1>1, <1>2, CppTop
<1>4. Top' = "system"
  BY <1>1, <1>2, CppBelow
<1>5. c \in Contexts
  BY <1>1, <1>2, <1>3, PopStateIs
<1>6. Attends(c)
  <2>1. Unprepare(cx).status = "uninitialized" \/ Busy(cx)
    <3>1. Unprepare(cx) = IF Busy(cx) THEN cx
                          ELSE [Cleaned(cx) EXCEPT !.initial = None, !.current = None,
                                  !.started = FALSE, !.status = "uninitialized"]
      BY DEF Unprepare
    <3>2. ~Busy(cx) => Unprepare(cx).status = "uninitialized"
      BY <1>2, UnprepareIs
    <3> QED  BY <3>2
  <2>2. CASE ~Busy(cx)
    BY <1>2, <2>2, PopStateAttends DEF AbortInv
  <2>3. CASE Busy(cx)
    <3>1. Unprepare(cx) = cx
      BY <2>3 DEF Unprepare
    <3> DEFINE m == Last(cx.calls)
               v == [cx EXCEPT !.calls = Front(@)]
               x == PopCallState(v)
    <3>2. c = [x EXCEPT !.calling = m.calling, !.initial = m.initial, !.orig = m.orig,
                        !.value = m.value, !.started = TRUE, !.status = "active"]
      BY <3>1 DEF PopState
    <3> HIDE DEF m, c
    <3>3. DOMAIN v = DOMAIN cx /\ v.line = cx.line /\ v.process = cx.process
      BY <1>2 DEF Contexts
    <3> HIDE DEF v
    <3>4. DOMAIN x = DOMAIN cx /\ x.line = cx.line /\ x.process = cx.process
      BY <1>2, <3>3, PopCallAlert
    <3> HIDE DEF x
    <3>5. c.line = cx.line /\ c.process = cx.process
      BY <1>2, <3>2, <3>4 DEF Contexts
    <3> QED  BY <3>5 DEF AbortInv, Attends
  <2> QED  BY <2>2, <2>3
<1> HIDE DEF c
<1>7. asked => Last(cpp).doAbort \/ (Top # "destructor" /\ r = "aborted")
  BY <1>1 DEF AbortInv, Forwards, MarkedAt, Last
<1>8. asked => cx' = Abort(c)
  BY <1>1, <1>7 DEF Forwarded
<1>9. asked => Stops(cx')
  BY <1>5, <1>8, AbortSets
<1>10. Attends(cx')
  <2>1. cx' \in {c, Abort(c), SetException(c)}
    BY <1>1 DEF Forwarded
  <2>2. StillAsked(c, Abort(c)) /\ StillAsked(c, SetException(c))
    BY <1>5, AbortSets, SetExceptionSets
  <2> QED  BY <1>6, <2>1, <2>2, AlertAttends DEF StillAsked
<1>11. asked' => Forwards(cx', cpp', Top', r')
  BY <1>1, <1>2, <1>4, <1>9 DEF Forwards, Stops
<1> QED  BY <1>1, <1>10, <1>11 DEF AbortInv, Attends

LEMMA HostPrepareForwards ==
  ASSUME ContextInv, AbortInv, origin # "lost", NEW f \in Functions, HostPrepare(f)
  PROVE  AbortInv'
<1>1. cx' = Prepare(cx, f) /\ asked' = FALSE
  BY DEF HostPrepare
<1>2. Attends(cx')
  BY <1>1, PreparedAttends
<1> QED  BY <1>1, <1>2 DEF AbortInv, Attends

LEMMA HostUnprepareForwards ==
  ASSUME ContextInv, AbortInv, origin # "lost", HostUnprepare
  PROVE  AbortInv'
<1>1. /\ Top = "application" /\ ~Busy(cx) /\ cx' = Unprepare(cx) /\ UNCHANGED <<cpp, asked>>
      /\ Top' = Top
  BY DEF HostUnprepare, Top
<1>2. ContextOK(cx, pushed, origin = "right") /\ "application" \notin Callers
  BY AbortFacts
<1>3. cx'.status = "uninitialized" /\ Attends(cx')
  BY <1>1, <1>2, UnprepareIs, UnprepareAttends DEF AbortInv
<1>4. asked' => Forwards(cx', cpp', Top', r')
  BY <1>1, <1>2, <1>3 DEF Forwards
<1> QED  BY <1>1, <1>3, <1>4 DEF AbortInv, Attends

LEMMA HostAbortsForwards ==
  ASSUME ContextInv, AbortInv, origin # "lost", HostAborts
  PROVE  AbortInv'
<1>1. Top = "application" /\ cx' = Abort(cx) /\ UNCHANGED <<cpp, asked>> /\ Top' = Top
  BY DEF HostAborts, Top
<1>2. cx \in Contexts /\ "application" \notin Callers
  BY AbortFacts
<1>3. StillAsked(cx, cx') /\ cx'.status = IF cx.status = "suspended" THEN "aborted" ELSE cx.status
  BY <1>1, <1>2, AbortSets
<1>4. Attends(cx')
  BY <1>3, AlertAttends DEF AbortInv, StillAsked
<1>5. asked' => Forwards(cx', cpp', Top', r')
  BY <1>1, <1>2, <1>3 DEF Forwards, AbortInv
<1> QED  BY <1>1, <1>4, <1>5 DEF AbortInv, Attends

LEMMA OtherSuspendsForwards ==
  ASSUME ContextInv, AbortInv, origin # "lost", OtherSuspends
  PROVE  AbortInv'
<1>1. cx' = Suspend(cx) /\ UNCHANGED <<cpp, asked, r>> /\ Top' = Top
  BY DEF OtherSuspends, Top
<1>2. /\ StillAsked(cx, cx') /\ cx'.doSuspend /\ cx'.process /\ cx'.doAbort = cx.doAbort
      /\ cx'.status = cx.status
  BY <1>1, AbortFacts, SuspendSets
<1>3. Attends(cx')
  BY <1>2, AlertAttends DEF AbortInv, StillAsked
<1>4. asked' => Forwards(cx', cpp', Top', r')
  BY <1>1, <1>2 DEF Forwards, AbortInv
<1> QED  BY <1>1, <1>3, <1>4 DEF AbortInv, Attends

LEMMA AbortInitOK == ContextInit => AbortInv
<1> SUFFICES ASSUME ContextInit  PROVE AbortInv
  OBVIOUS
<1>1. asked = FALSE /\ cx.line = cx.process
  BY DEF ContextInit
<1> QED  BY <1>1 DEF AbortInv, Attends

LEMMA AbortStepOK == ContextInv /\ AbortInv /\ [ContextNext]_contextVars => AbortInv'
<1> SUFFICES ASSUME ContextInv, AbortInv, [ContextNext]_contextVars  PROVE AbortInv'
  OBVIOUS
<1>1. CASE UNCHANGED contextVars
  BY <1>1 DEF AbortInv, contextVars, Attends, Forwards, MarkedAt, Top
<1>2. CASE ContextNext
  <2>1. origin # "lost" /\ ContextStep
    BY <1>2 DEF ContextNext
  <2>2. ASSUME NEW q \in LineRequests, SuspendPoint(q)  PROVE AbortInv'
    BY <2>1, <2>2, SuspendPointForwards
  <2>3. ASSUME NEW q \in LineRequests, ReturnExecute(q)  PROVE AbortInv'
    BY <2>1, <2>3, ReturnExecuteForwards
  <2>4. ASSUME NEW q \in LineRequests, NestedExecute(q)  PROVE AbortInv'
    BY <2>1, <2>4, NestedExecuteForwards
  <2>5. ASSUME NEW q \in LineRequests, HostExecute(q)  PROVE AbortInv'
    BY <2>1, <2>5, HostExecuteForwards
  <2>6. ASSUME NEW q \in LineRequests, NEW f \in Functions, Call(f, q)  PROVE AbortInv'
    BY <2>1, <2>6, CallForwards
  <2>7. Return => AbortInv'
    BY <2>1, ReturnForwards
  <2>8. CallSystem => AbortInv'
    BY <2>1, CallSystemForwards
  <2>9. ReturnSystem => AbortInv'
    BY <2>1, ReturnSystemForwards
  <2>10. SystemThrows => AbortInv'
    BY <2>1, SystemThrowsForwards
  <2>11. ASSUME NEW q \in Requests, SystemAsks(q)  PROVE AbortInv'
    BY <2>1, <2>11, SystemAsksForwards
  <2>12. ASSUME NEW who \in Callers, NEW f \in NestedFns(who), StartNested(who, f)
         PROVE  AbortInv'
    <3>1. f \in Functions
      BY ContextAssumption DEF NestedFns
    <3> QED  BY <2>1, <2>12, <3>1, StartNestedForwards
  <2>13. ASSUME NEW f \in Functions, NestedAgain(f)  PROVE AbortInv'
    BY <2>1, <2>13, NestedAgainForwards
  <2>14. EndNested => AbortInv'
    BY <2>1, EndNestedForwards
  <2>15. ASSUME NEW f \in HostFns, HostPrepare(f)  PROVE AbortInv'
    <3>1. f \in Functions
      BY ContextAssumption
    <3> QED  BY <2>1, <2>15, <3>1, HostPrepareForwards
  <2>16. HostUnprepare => AbortInv'
    BY <2>1, HostUnprepareForwards
  <2>17. HostAborts => AbortInv'
    BY <2>1, HostAbortsForwards
  <2>18. OtherSuspends => AbortInv'
    BY <2>1, OtherSuspendsForwards
  <2> QED
    BY <2>1, <2>2, <2>3, <2>4, <2>5, <2>6, <2>7, <2>8, <2>9, <2>10, <2>11, <2>12, <2>13,
       <2>14, <2>15, <2>16, <2>17, <2>18 DEF ContextStep
<1> QED  BY <1>1, <1>2

(* Only an Execute returns to the application. *)
LEMMA ReturnsToApplication ==
  ASSUME ContextInv, ContextNext, cpp # <<>>, cpp' = <<>>
  PROVE  \E q \in LineRequests : ReturnExecute(q)
<1>1. origin # "lost" /\ ContextStep /\ cpp' # cpp
  BY DEF ContextNext
<1>2. /\ cpp \in CppCalls /\ CppOK(cpp, Len(pushed)) /\ Len(pushed) \in Nat
      /\ Top = TopOf(cpp) /\ Top' = TopOf(cpp')
  BY <1>1, AbortFacts
<1>3. ASSUME NEW who, Enters(who)  PROVE FALSE
  <2>1. cpp' = Append(cpp, [who |-> who, doAbort |-> FALSE])
    BY <1>3 DEF Enters
  <2>2. Len(cpp') = Len(cpp) + 1 /\ Len(cpp) \in Nat
    BY <1>2, <2>1, PushedLen
  <2> QED  BY <2>2
<1>4. Top' = "application"
  BY DEF Top
<1>5. ~EndNested /\ ~ReturnSystem
  <2>1. ASSUME EndNested \/ ReturnSystem  PROVE FALSE
    <3>1. cpp' = Front(cpp) /\ Top \in Callers \cup {"system"}
      BY <2>1 DEF EndNested, ReturnSystem, Leaves
    <3>2. Top' \in {"system", "execute"}
      BY <1>2, <3>1, CppBelow
    <3> QED  BY <1>4, <3>2
  <2> QED  BY <2>1
<1>6. \A q, f, who : /\ ~NestedExecute(q) /\ ~HostExecute(q) /\ ~CallSystem
                     /\ ~StartNested(who, f)
  BY <1>3 DEF NestedExecute, HostExecute, CallSystem, StartNested
<1> QED
  BY <1>1, <1>5, <1>6 DEF ContextStep, SuspendPoint, Call, Return, SystemThrows, SystemAsks,
     NestedAgain, HostPrepare, HostUnprepare, HostAborts, OtherSuspends

(* Once a callback has asked for an abort, the application is not told     *)
(* that the script finished: each Execute, destructor, comparison and      *)
(* factory on the way hands it on, except those that call again.           *)
THEOREM AbortReachesApplication == ContextSpec => AbortForwarded
<1>1. ASSUME ContextInv, AbortInv, ContextNext, cpp # <<>>, cpp' = <<>>, asked
      PROVE  cx'.status # "finished"
  <2>1. PICK q \in LineRequests : ReturnExecute(q)
    BY <1>1, ReturnsToApplication
  <2>2. origin # "lost"
    BY <1>1 DEF ContextNext
  <2> QED  BY <1>1, <2>1, <2>2, ReturnExecuteForwards
<1>2. ContextInv /\ AbortInv /\ [ContextNext]_contextVars =>
        [cpp # <<>> /\ cpp' = <<>> /\ asked => cx'.status # "finished"]_contextVars
  BY <1>1
<1>3. ContextSpec => []AbortInv
  BY AbortInitOK, AbortStepOK, ContextInvAlways, PTL DEF ContextSpec
<1> QED  BY <1>2, <1>3, ContextInvAlways, PTL DEF ContextSpec, AbortForwarded
=============================================================================
