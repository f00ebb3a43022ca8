------------------------------ MODULE ScriptGC ------------------------------
(***************************************************************************)
(* The garbage collector of AngelScript (source/as_gc.cpp) and the         *)
(* reference counts of the script objects it collects (as_scriptobject     *)
(* .cpp): new and old objects, the incremental detection of cycles, full   *)
(* cycles, and the script that goes on between any two steps.  gc is the   *)
(* collector and the heap.                                                 *)
(*                                                                         *)
(* An object is its address, a number; it has one handle member, next.     *)
(* Object types have all the behaviours of the collector.  A step of the   *)
(* collector is one call of DestroyNewGarbage, DestroyOldGarbage or        *)
(* IdentifyGarbageWithCyclicRefs; states it only passes through are not    *)
(* told apart.  In a full cycle the script that goes on is in another      *)
(* thread.                                                                 *)
(***************************************************************************)
EXTENDS Integers, Sequences, FiniteSets, TLC

CONSTANTS
  Objects,   \* addresses of objects, reused
  Rising,    \* those whose destructor stores a handle of its object
  Uses,      \* how a program collects: subset of {"steps", "cycles"}
  Modes,     \* of a collection: <<doDetect, doDestroy>>, not both FALSE
  Moves,     \* bound: steps of the script
  WeaklyHeld \* those a script may hold weak references to

Null == 0
ASSUME GcAssumption ==
  /\ {1, 2} \subseteq Objects /\ Objects \subseteq Nat \ {Null} /\ IsFiniteSet(Objects)
  /\ Moves \in Nat /\ Modes \subseteq (BOOLEAN \X BOOLEAN) \ {<<FALSE, FALSE>>}

VARIABLES
  gc,     \* asCGarbageCollector, with the heap
  raised, \* history: what was out of the script's reach and came back
  moves,  \* the steps the script has left
  quiet   \* history: the script has not moved since the full cycle began

gcVars == <<gc, raised, moves, quiet>>

(* held counts the script's handles; rc = 0 is no object at all.           *)
NoObject == [rc |-> 0, flag |-> FALSE, next |-> Null, held |-> 0, destructed |-> FALSE,
             torn |-> FALSE, weak |-> "none"]

Lists == {"new", "old"}

Linked(h) == {o \in Objects : h[o].rc > 0}
Reaches(h, S) ==
  LET R[n \in 0 .. Cardinality(Objects)] ==
        IF n = 0 THEN S ELSE R[n - 1] \cup ({h[o].next : o \in R[n - 1]} \ {Null})
  IN R[Cardinality(Objects)]
Reachable(h) == Reaches(h, {o \in Objects : h[o].held > 0})

-----------------------------------------------------------------------------
(* asCScriptObject.  The destructor is called once, when one reference is  *)
(* left or by the collector; weak references end before it.                *)
ObjAddRef(h, o) == [h EXCEPT ![o].rc = @ + 1, ![o].flag = FALSE]

CallDestructor(h, o) ==
  IF o \notin Rising \/ h[o].destructed THEN h
  ELSE [ObjAddRef(h, o) EXCEPT ![o].destructed = TRUE, ![o].held = @ + 1]

EndWeak(h, o) == [h EXCEPT ![o].weak = IF @ = "held" THEN "dead" ELSE @]

Unreferenced(h, o) ==
  [IF h[o].rc = 1 THEN CallDestructor(EndWeak(h, o), o) ELSE h EXCEPT
     ![o].rc = @ - 1, ![o].flag = FALSE]

(* Destruct, when none is left, releases what the object refers to.        *)
Destruct(r) ==
  LET h == Unreferenced(r.heap, r.obj)
  IN IF r.obj = Null THEN r
     ELSE IF h[r.obj].rc > 0 THEN [heap |-> h, obj |-> Null]
     ELSE [heap |-> [h EXCEPT ![r.obj] = NoObject], obj |-> h[r.obj].next]
ObjRelease(h, o) ==
  LET released[n \in 0 .. Cardinality(Objects)] ==
        IF n = 0 THEN [heap |-> h, obj |-> o] ELSE Destruct(released[n - 1])
  IN released[Cardinality(Objects)].heap

Refer(h, p) == IF p = Null THEN h ELSE ObjAddRef(h, p)
SetHandle(h, o, p) == [Refer(ObjRelease(h, h[o].next), p) EXCEPT ![o].next = p]

ReleaseAllHandles(h, o) == [SetHandle(h, o, Null) EXCEPT ![o].torn = TRUE]

-----------------------------------------------------------------------------
(* DestroyNewGarbage and DestroyOldGarbage: a sweep over one list.  What   *)
(* only the collector refers to is released; a new object that has lived   *)
(* through three sweeps is old.                                            *)
RemoveObjectAtIdx(s, i) ==
  IF i = Len(s) THEN SubSeq(s, 1, i - 1)
  ELSE [SubSeq(s, 1, Len(s) - 1) EXCEPT ![i] = s[Len(s)]]

(* Slip: whether the object rose is not asked. *)
Collect_noRise(g, list, i) ==
  [g EXCEPT !.heap = ObjRelease(@, g.lists[list][i].obj),
            !.lists[list] = RemoveObjectAtIdx(@, i),
            !.sweep[list] = [state |-> "haveMore", at |-> i - 1]]
Collect(g, list, i) ==
  LET o == g.lists[list][i].obj
      h == ObjRelease(g.heap, o)
  IN IF h[o].rc = 0
     THEN [g EXCEPT !.heap = h, !.lists[list] = RemoveObjectAtIdx(@, i),
                    !.sweep[list] = [state |-> "haveMore", at |-> i - 1]]
     ELSE [g EXCEPT !.heap = ObjAddRef(h, o),
                    !.sweep[list] = [state |-> "haveMore", at |-> i]]

Unstarted == [state |-> "init", at |-> 0]

Aged(lists, i) ==
  [lists EXCEPT !["old"] = Append(@, lists["new"][i]), !["new"] = RemoveObjectAtIdx(@, i)]

Inspect(g, list) ==
  LET i == g.sweep[list].at + 1
      e == g.lists[list][i]
      n == [g EXCEPT !.ret = 1]
  IN IF g.heap[e.obj].rc = 1 THEN Collect(n, list, i)
     ELSE IF list = "new" /\ e.sweeps = 3
     THEN [n EXCEPT !.lists = Aged(@, i)]
     ELSE [n EXCEPT !.sweep[list].at = i]

(* Comparing seqNbr with seqAtSweepStart[0] counts sweeps, up to three.    *)
Older(e) == [e EXCEPT !.sweeps = IF @ = 3 THEN 3 ELSE @ + 1]

StartSweep(g, list) ==
  LET begun == [g EXCEPT !.sweep[list] = [state |-> "loop", at |-> 0]]
  IN IF g.lists[list] = <<>> THEN [g EXCEPT !.sweep[list] = Unstarted, !.ret = 0]
     ELSE Inspect(IF list = "old" THEN begun
                  ELSE [begun EXCEPT !.lists["new"] = [i \in DOMAIN @ |-> Older(@[i])]], list)

DestroyGarbage(g, list) ==
  LET s == g.sweep[list]
      over == s.at >= Len(g.lists[list])
  IN IF s.state = "init" \/ (over /\ s.state = "haveMore") THEN StartSweep(g, list)
     ELSE IF over THEN [g EXCEPT !.sweep[list] = Unstarted, !.ret = 0]
     ELSE Inspect(g, list)

-----------------------------------------------------------------------------
(* IdentifyGarbageWithCyclicRefs, its last state first.  The map is sorted *)
(* by address.                                                             *)
NextInMap(g) ==
  LET after == {o \in DOMAIN g.map : o > g.cursor}
  IN IF after = {} THEN Null ELSE CHOOSE o \in after : \A p \in after : o <= p
FirstInMap(g) == [g EXCEPT !.cursor = NextInMap([g EXCEPT !.cursor = Null])]

(* The map takes a reference to its objects and gives it back. *)
LeaveMap(g, o) ==
  [g EXCEPT !.map = [p \in DOMAIN @ \ {o} |-> @[p]], !.heap = ObjRelease(@, o)]

BreakCircles(g) ==
  IF g.cursor = Null
  THEN [g EXCEPT !.detect = "clearCounters",
                 !.ret = IF g.detect = "breakCircles_haveGarbage" THEN 1 ELSE 0]
  ELSE [g EXCEPT !.heap = ReleaseAllHandles(CallDestructor(@, g.cursor), g.cursor),
                 !.cursor = NextInMap(g), !.detect = "breakCircles_haveGarbage", !.ret = 1]

(* Slip: what the script touched is not looked at. *)
VerifyUnmarked_unchecked(g) == BreakCircles(FirstInMap([g EXCEPT !.detect = "breakCircles"]))
VerifyUnmarked(g) ==
  IF g.cursor = Null THEN BreakCircles(FirstInMap([g EXCEPT !.detect = "breakCircles"]))
  ELSE IF g.heap[g.cursor].flag
  THEN [g EXCEPT !.cursor = NextInMap(g), !.detect = "verifyUnmarked", !.ret = 1]
  ELSE [g EXCEPT !.detect = "detectGarbage_init", !.ret = 1]

DetectGarbage2(g) ==
  LET o == g.live[Len(g.live)]
      left == LeaveMap([g EXCEPT !.live = SubSeq(@, 1, Len(@) - 1)], o)
      next == g.heap[o].next
      on == IF g.live = <<>> THEN g
            ELSE IF o \notin DOMAIN g.map THEN [g EXCEPT !.live = SubSeq(@, 1, Len(@) - 1)]
            ELSE IF next \in DOMAIN left.map THEN [left EXCEPT !.live = Append(@, next)]
            ELSE left
  IN IF g.live = <<>> THEN VerifyUnmarked(FirstInMap(g))
     ELSE [on EXCEPT !.detect = "detectGarbage_loop2", !.ret = 1]

(* An object is alive if it was touched or referred to from outside. *)
Alive(g, o) == ~g.heap[o].flag \/ g.map[o] > 0
DetectGarbage1(g) ==
  IF g.cursor = Null THEN DetectGarbage2(g)
  ELSE [g EXCEPT !.live = IF Alive(g, g.cursor) THEN Append(@, g.cursor) ELSE @,
                 !.cursor = NextInMap(g), !.detect = "detectGarbage_loop1", !.ret = 1]
DetectGarbageInit(g) == DetectGarbage1(FirstInMap([g EXCEPT !.live = <<>>]))

CountReferences(g) ==
  LET next == g.heap[g.cursor].next
      counts == g.heap[g.cursor].flag /\ next \in DOMAIN g.map
  IN IF g.cursor = Null THEN DetectGarbageInit(g)
     ELSE [g EXCEPT !.map = IF counts THEN [g.map EXCEPT ![next] = @ - 1] ELSE @,
                    !.cursor = NextInMap(g), !.detect = "countReferences", !.ret = 1]

EnterMap(g, o) ==
  [g EXCEPT !.map = [p \in DOMAIN @ \cup {o} |-> IF p = o THEN g.heap[o].rc - 1 ELSE @[p]],
            !.heap = [ObjAddRef(@, o) EXCEPT ![o].flag = TRUE]]
BuildMap(g) ==
  LET n == [g EXCEPT !.detectIdx = @ + 1, !.detect = "buildMap", !.ret = 1]
      o == g.lists["old"][n.detectIdx].obj
  IN IF g.detectIdx >= Len(g.lists["old"]) THEN CountReferences(FirstInMap([g EXCEPT !.detectIdx = 0]))
     ELSE IF g.heap[o].rc > 1 THEN EnterMap(n, o) ELSE n

ClearCounters(g) ==
  IF DOMAIN g.map = {} THEN BuildMap(g)
  ELSE [LeaveMap(g, FirstInMap(g).cursor) EXCEPT !.detect = "clearCounters", !.ret = 1]

IdentifyGarbageWithCyclicRefs(g) ==
  CASE g.detect = "clearCounters" -> ClearCounters(g)
    [] g.detect = "buildMap" -> BuildMap(g)
    [] g.detect = "countReferences" -> CountReferences(g)
    [] g.detect = "detectGarbage_init" -> DetectGarbageInit(g)
    [] g.detect = "detectGarbage_loop1" -> DetectGarbage1(g)
    [] g.detect = "detectGarbage_loop2" -> DetectGarbage2(g)
    [] g.detect = "verifyUnmarked" -> VerifyUnmarked(g)
    [] g.detect = "breakCircles_haveGarbage" -> BreakCircles(g)

-----------------------------------------------------------------------------
(* What comes back into the script's reach, but for a created object.      *)
Risen(g, created) ==
  (raised \cup (Reachable(g.heap) \ (Reachable(gc.heap) \cup created))) \cap Linked(g.heap)

CollectorStep(g) ==
  /\ gc' = g
  /\ raised' = Risen(g, {})
  /\ UNCHANGED <<moves, quiet>>

Idle == gc.full.phase = "no"

(* GarbageCollect(flags, 1), not a full cycle.                             *)
Destroyed(g) == DestroyGarbage(DestroyGarbage(g, "new"), "old")
Detected(g) == IF g.lists["old"] # <<>> THEN IdentifyGarbageWithCyclicRefs(g) ELSE g

GarbageCollect(doDetect, doDestroy) ==
  LET destroyed == IF doDestroy THEN Destroyed(gc) ELSE gc
  IN /\ Idle /\ gc.use = "steps"
     /\ CollectorStep(IF doDetect THEN Detected(destroyed) ELSE destroyed)

(* With asGC_FULL_CYCLE it loops, one step at a time.  No object type is   *)
(* unused, so that ClearUnusedTypes returns 0.                             *)
FirstPhase(f) == IF f.doDetect THEN "detect" ELSE "destroyNew"

NoCycle == [phase |-> "no", doDetect |-> FALSE, doDestroy |-> FALSE, count |-> 0]

StartFullCycle(doDetect, doDestroy) ==
  LET moved == [gc EXCEPT !.lists = [list \in Lists |-> IF list = "old" THEN @["old"] \o @["new"] ELSE <<>>],
                           !.detect = "clearCounters", !.detectIdx = 0, !.cursor = Null,
                           !.live = <<>>]
      g == IF doDetect THEN moved ELSE gc
      f == [NoCycle EXCEPT !.doDetect = doDetect, !.doDestroy = doDestroy]
      sweeping == [g EXCEPT !.sweep = [list \in Lists |-> Unstarted]]
  IN /\ Idle /\ gc.use = "cycles"
     /\ gc' = [IF doDestroy THEN sweeping ELSE g EXCEPT
                 !.full = [f EXCEPT !.phase = FirstPhase(f), !.count = Len(g.lists["old"])]]
     /\ quiet' = TRUE
     /\ UNCHANGED <<raised, moves>>

(* Once a phase finds nothing more: the next, another round, or the end.   *)
(* Slips: one round is enough; the count of the first round is kept.       *)
Finished_oneRound(g) ==
  IF g.full.phase \in {"detect", "destroyNew"} /\ g.full.doDestroy
  THEN [g EXCEPT !.full.phase = "destroyOld"] ELSE [g EXCEPT !.full = NoCycle]
Finished_oldCount(g) ==
  IF g.full.phase \in {"detect", "destroyNew"} /\ g.full.doDestroy
  THEN [g EXCEPT !.full.phase = "destroyOld"]
  ELSE IF g.full.count # Len(g.lists["old"]) THEN [g EXCEPT !.full.phase = FirstPhase(g.full)]
  ELSE [g EXCEPT !.full = NoCycle]
Finished(g) ==
  LET f == g.full
  IN CASE f.phase = "detect" /\ f.doDestroy -> [g EXCEPT !.full.phase = "destroyOld"]
       [] f.phase = "destroyNew" -> [g EXCEPT !.full.phase = "destroyOld"]
       [] OTHER -> IF f.count # Len(g.lists["old"])
                   THEN [g EXCEPT !.full.count = Len(g.lists["old"]), !.full.phase = FirstPhase(f)]
                   ELSE [g EXCEPT !.full = NoCycle]

FullCycleStep ==
  LET g == CASE gc.full.phase = "detect" -> IdentifyGarbageWithCyclicRefs(gc)
             [] gc.full.phase = "destroyNew" -> DestroyGarbage(gc, "new")
             [] gc.full.phase = "destroyOld" -> DestroyGarbage(gc, "old")
  IN /\ ~Idle
     /\ CollectorStep(IF g.ret = 0 THEN Finished(g) ELSE g)

-----------------------------------------------------------------------------
(* The script.  Bound: one handle of its own to each object.               *)
ScriptStep(g, created) ==
  /\ moves > 0
  /\ moves' = moves - 1
  /\ gc' = g
  /\ raised' = Risen(g, created)
  /\ quiet' = FALSE
WithHeap(h) == [gc EXCEPT !.heap = h]

(* AddScriptObjectToGC: the collector takes a reference, and if nothing    *)
(* runs it yet it destroys some garbage before the object is listed.       *)
DestroySomeNew(g) ==
  LET n == IF Len(g.lists["new"]) > 10 THEN 10 ELSE Len(g.lists["new"])
      steps[i \in 0 .. n] == IF i = 0 THEN g ELSE DestroyGarbage(steps[i - 1], "new")
  IN steps[n]
AutoCollect(g) ==
  IF g.full.phase # "no" \/ g.lists["new"] = <<>> THEN g
  ELSE DestroySomeNew(IF g.lists["old"] = <<>> THEN g
                      ELSE DestroyGarbage(IdentifyGarbageWithCyclicRefs(g), "old"))

AddScriptObjectToGC(g, o) ==
  [AutoCollect([g EXCEPT !.heap = ObjAddRef(@, o)]) EXCEPT
     !.lists["new"] = Append(@, [obj |-> o, sweeps |-> 0])]

Created(g, o) ==
  AddScriptObjectToGC([g EXCEPT !.heap[o] = [NoObject EXCEPT !.rc = 1, !.held = 1]], o)

CreateObject(o) ==
  /\ gc.heap[o].rc = 0
  /\ ScriptStep(Created(gc, o), {o})

TakeHandle(o) ==
  /\ gc.heap[o].held = 0
  /\ ScriptStep(WithHeap([ObjAddRef(gc.heap, o) EXCEPT ![o].held = 1]), {})

LoadHandle(o) == gc.heap[o].held > 0 /\ gc.heap[o].next # Null /\ TakeHandle(gc.heap[o].next)

(* A weak reference gives a handle for as long as its object has not died. *)
LoadWeak(o) == gc.heap[o].weak = "held" /\ TakeHandle(o)
KeepWeak(o) ==
  /\ o \in WeaklyHeld /\ gc.heap[o].held > 0 /\ gc.heap[o].weak = "none"
  /\ ScriptStep(WithHeap([gc.heap EXCEPT ![o].weak = "held"]), {})

AssignHandle(o, p) ==
  /\ gc.heap[o].held > 0
  /\ p # Null => gc.heap[p].held > 0
  /\ p # gc.heap[o].next
  /\ ScriptStep(WithHeap(SetHandle(gc.heap, o, p)), {})

DropHandle(o) ==
  /\ gc.heap[o].held > 0
  /\ ScriptStep(WithHeap(ObjRelease([gc.heap EXCEPT ![o].held = @ - 1], o)), {})

Script ==
  \E o \in Objects :
    \/ CreateObject(o) \/ LoadHandle(o) \/ LoadWeak(o) \/ KeepWeak(o) \/ DropHandle(o)
    \/ \E p \in Objects \cup {Null} : AssignHandle(o, p)

Unused(use) ==
  [heap |-> [o \in Objects |-> NoObject], lists |-> [list \in Lists |-> <<>>],
   sweep |-> [list \in Lists |-> Unstarted],
   detect |-> "clearCounters", detectIdx |-> 0, map |-> <<>>, cursor |-> Null,
   live |-> <<>>, full |-> NoCycle, ret |-> 0, use |-> use]

(* The script begins with two objects. *)
GcInit ==
  /\ \E use \in Uses : gc = Created(Created(Unused(use), 1), 2)
  /\ raised = {} /\ moves = Moves /\ quiet = FALSE

GcNext ==
  \/ Script
  \/ \E m \in Modes : GarbageCollect(m[1], m[2]) \/ StartFullCycle(m[1], m[2])
  \/ FullCycleStep

GcSpec == GcInit /\ [][GcNext]_gcVars /\ WF_gcVars(FullCycleStep)

-----------------------------------------------------------------------------
GcTypeOK ==
  /\ DOMAIN gc.map \subseteq Objects /\ gc.cursor \in Objects \cup {Null}
  /\ gc.live \in Seq(Objects)
  /\ \A o \in Objects : gc.heap[o].rc \in Nat /\ gc.heap[o].next \in Objects \cup {Null}
  /\ raised \subseteq Objects /\ moves \in 0 .. Moves

Listed(g, o) ==
  UNION {{<<list, i>> : i \in {j \in DOMAIN g.lists[list] : g.lists[list][j].obj = o}} : list \in Lists}

(* Whatever the collector and the script do in between, every object is    *)
(* counted exactly: by the script's handles, by the handles in objects, by *)
(* its one entry in the lists and by the map.  What is gone is not         *)
(* referred to from anywhere.                                              *)
GcRefCountsExact ==
  \A o \in Objects :
    LET referrers == {p \in Linked(gc.heap) : gc.heap[p].next = o}
        listed == Cardinality(Listed(gc, o))
    IN /\ gc.heap[o].rc = gc.heap[o].held + Cardinality(referrers) + listed
                            + (IF o \in DOMAIN gc.map THEN 1 ELSE 0)
       /\ listed = (IF gc.heap[o].rc > 0 THEN 1 ELSE 0)

(* The collector takes the handles from no object the script can reach,    *)
(* unless that was dead and a destructor or a weak reference raised it.    *)
GcKeepsLiveWhole ==
  \A o \in Reachable(gc.heap) : gc.heap[o].torn => o \in raised

(* A full cycle the script leaves alone ends with no garbage at all.       *)
GcFullCycleCollects ==
  [][ gc.full.phase # "no" /\ gc.full.doDetect /\ gc.full.doDestroy /\ gc'.full.phase = "no" /\ quiet
        => Linked(gc'.heap) = Reachable(gc'.heap) ]_gcVars

(* And it does end. *)
GcFullCycleEnds == gc.full.phase # "no" ~> gc.full.phase = "no" \/ ~quiet
=============================================================================
