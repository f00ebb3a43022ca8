--------------------------- MODULE ScriptGCProofs ---------------------------
(***************************************************************************)
(* What ScriptGC promises, for every number of objects, every set of those *)
(* that rise or are held weakly, and every way a program collects: every   *)
(* object is counted exactly, the collector takes the handles from nothing *)
(* the script can reach, unless it was dead and came back, and a full      *)
(* cycle the script leaves alone leaves no garbage.                        *)
(*                                                                         *)
(* The inductive invariant has two halves.  One (Fit) is about the heap    *)
(* and the lists: each object there is has one entry, and its count is the *)
(* script's handles, the objects that refer to it, its entry and the map.  *)
(* The other (Inside) is what the detection knows at each of its states.   *)
(* An object whose flag is still set was left alone since the map was      *)
(* built, so that who refers to it and who holds it is as it was counted   *)
(* (Steady): a sweep, the script or another destructor between two steps   *)
(* cannot make what is known of it false.  When the map is about to be     *)
(* emptied either a flag was cleared, which verifyUnmarked will find, or   *)
(* all of it was left alone and is referred to from within only, so that   *)
(* the script reaches none of it (Found).                                  *)
(*                                                                         *)
(* That a full cycle collects everything needs the converse, of the cycles *)
(* the script stays out of (CycleInv).  An object is sure if a handle, or  *)
(* an object that nothing refers to, leads to it.  Every object that is    *)
(* not sure is in the map, whose numbers count no referrer that is not     *)
(* there (Thorough), so that what ends up live is sure.  A round of the    *)
(* cycle that frees nothing then leaves only what handles lead to, since a *)
(* sweep frees what nothing refers to (WholeCycle); any other round is     *)
(* followed by one more.                                                   *)
(***************************************************************************)
EXTENDS ScriptGC, FiniteSetTheorems, WellFoundedInduction, TLAPS

-----------------------------------------------------------------------------
(* Every set of naturals has a first, and one that goes on has them all.   *)
NatLess == OpToRel(<, Nat)

LEMMA LeastNat ==
  ASSUME NEW S \in SUBSET Nat, S # {}
  PROVE  \E n \in S : \A m \in S : n <= m
<1>1. NatLess = {p \in Nat \X Nat : p[1] < p[2]}
  BY DEF NatLess, OpToRel
<1>2. IsWellFoundedOn(NatLess, Nat)
  BY NatLessThanWellFounded DEF NatLess
<1>3. PICK n \in S : \A m \in S : ~(<<m, n>> \in NatLess)
  BY <1>2, WFMin
<1>4. \A m \in S : m \in Nat /\ n \in Nat /\ ~(m < n)
  BY <1>1, <1>3, Zenon
<1> QED  BY <1>4

LEMMA EveryNat ==
  ASSUME NEW S, 0 \in S, \A n \in Nat : n \in S => n + 1 \in S
  PROVE  \A n \in Nat : n \in S
<1> SUFFICES ASSUME Nat \ S # {}  PROVE FALSE
  OBVIOUS
<1>1. PICK n \in Nat \ S : \A m \in Nat \ S : n <= m
  BY LeastNat
<1>2. n # 0 /\ n - 1 \in Nat /\ n - 1 + 1 = n
  BY <1>1
<1>3. n - 1 \in S
  BY <1>1, <1>2
<1> QED  BY <1>1, <1>2, <1>3

LEMMA ObjectsCounted == Cardinality(Objects) \in Nat /\ Cardinality(Objects) >= 2
<1>1. {1, 2} \subseteq Objects /\ IsFiniteSet(Objects)
  BY GcAssumption
<1>2. Cardinality({1, 2}) = 2
  <2>1. IsFiniteSet({1}) /\ Cardinality({1}) = 1
    BY FS_Singleton
  <2>2. {1} \cup {2} = {1, 2} /\ 2 \notin {1}
    OBVIOUS
  <2>3. Cardinality({1} \cup {2}) = Cardinality({1}) + 1
    BY <2>1, <2>2, FS_AddElement
  <2> QED  BY <2>1, <2>2, <2>3
<1>3. Cardinality(Objects) \in Nat
  BY <1>1, FS_CardinalityType
<1>4. Cardinality({1, 2}) <= Cardinality(Objects)
  BY <1>1, FS_Subset
<1> QED  BY <1>2, <1>3, <1>4

-----------------------------------------------------------------------------
(* Release.                                                                *)
ReleasedTo(h, o, n, f) ==
  f = [i \in 0 .. n |-> IF i = 0 THEN [heap |-> h, obj |-> o] ELSE Destruct(f[i - 1])]

LEMMA ReleasesExist ==
  ASSUME NEW h, NEW o  PROVE  \A n \in Nat : \E f : ReleasedTo(h, o, n, f)
<1> DEFINE S == {n \in Nat : \E f : ReleasedTo(h, o, n, f)}
<1>1. 0 \in S
  <2>1. ReleasedTo(h, o, 0, [i \in 0 .. 0 |-> [heap |-> h, obj |-> o]])
    BY DEF ReleasedTo
  <2> QED  BY <2>1
<1>2. ASSUME NEW n \in Nat, n \in S  PROVE n + 1 \in S
  <2>1. PICK f : ReleasedTo(h, o, n, f)
    BY <1>2
  <2> DEFINE d == Destruct(f[n])
             e == [i \in 0 .. n + 1 |-> IF i = n + 1 THEN d ELSE f[i]]
  <2>2. d = Destruct(f[n])
    OBVIOUS
  <2> HIDE DEF d
  <2>3. \A i \in 0 .. n : f[i] = IF i = 0 THEN [heap |-> h, obj |-> o] ELSE Destruct(f[i - 1])
    BY <2>1 DEF ReleasedTo
  <2>4. ASSUME NEW i \in 0 .. n + 1
        PROVE  e[i] = IF i = 0 THEN [heap |-> h, obj |-> o] ELSE Destruct(e[i - 1])
    <3>1. CASE i = n + 1
      <4>1. e[i] = d /\ e[i - 1] = f[n] /\ i # 0
        BY <3>1
      <4> HIDE DEF e
      <4> QED  BY <4>1, <2>2
    <3>2. CASE i \in 0 .. n
      <4>1. e[i] = f[i] /\ (i # 0 => e[i - 1] = f[i - 1])
        BY <3>2
      <4> HIDE DEF e
      <4> QED  BY <4>1, <3>2, <2>3
    <3> QED  BY <3>1, <3>2
  <2>5. e = [i \in 0 .. n + 1 |-> e[i]]
    OBVIOUS
  <2> HIDE DEF e
  <2>6. ReleasedTo(h, o, n + 1, e)
    BY <2>4, <2>5 DEF ReleasedTo
  <2> QED  BY <2>6
<1> HIDE DEF S
<1>3. \A n \in Nat : n \in S
  BY <1>1, <1>2, EveryNat
<1> QED  BY <1>3 DEF S

LEMMA Releases ==
  ASSUME NEW h, NEW o
  PROVE  \E f : /\ f[0] = [heap |-> h, obj |-> o]
                /\ \A i \in 1 .. Cardinality(Objects) : f[i] = Destruct(f[i - 1])
                /\ ObjRelease(h, o) = f[Cardinality(Objects)].heap
<1> DEFINE C == Cardinality(Objects)
           F == CHOOSE f : ReleasedTo(h, o, C, f)
<1>1. C \in Nat
  BY ObjectsCounted
<1>2. ReleasedTo(h, o, C, F)
  BY <1>1, ReleasesExist
<1>3. ObjRelease(h, o) = F[C].heap
  BY DEF ObjRelease, ReleasedTo
<1> HIDE DEF F
<1>4. /\ F[0] = [heap |-> h, obj |-> o]
      /\ \A i \in 1 .. C : F[i] = Destruct(F[i - 1])
  BY <1>1, <1>2 DEF ReleasedTo
<1> QED  BY <1>3, <1>4

-----------------------------------------------------------------------------
(* The heap.                                                               *)
Object == [rc : Nat, flag : BOOLEAN, next : Objects \cup {Null}, held : Nat,
           destructed : BOOLEAN, torn : BOOLEAN, weak : {"none", "held", "dead"}]
Heaps == [Objects -> Object]

(* Nothing to release is nothing done; an object two or more refer to is   *)
(* only counted down.                                                      *)
CountDown(h, o) == [h EXCEPT ![o].rc = @ - 1, ![o].flag = FALSE]

LEMMA NoRelease ==
  ASSUME NEW h  PROVE ObjRelease(h, Null) = h
<1> DEFINE C == Cardinality(Objects)
<1>1. PICK f : /\ f[0] = [heap |-> h, obj |-> Null]
               /\ \A i \in 1 .. C : f[i] = Destruct(f[i - 1])
               /\ ObjRelease(h, Null) = f[C].heap
  BY Releases
<1>2. C \in Nat
  BY ObjectsCounted
<1> HIDE DEF C
<1> DEFINE S == {n \in Nat : n <= C => f[n] = [heap |-> h, obj |-> Null]}
<1>3. 0 \in S
  BY <1>1
<1>4. ASSUME NEW n \in Nat, n \in S  PROVE n + 1 \in S
  <2>1. CASE n + 1 <= C
    <3>1. f[n + 1] = Destruct(f[n]) /\ f[n] = [heap |-> h, obj |-> Null]
      BY <1>1, <1>2, <1>4, <2>1
    <3>2. Destruct(f[n]) = f[n]
      BY <3>1 DEF Destruct
    <3> QED  BY <3>1, <3>2
  <2> QED  BY <2>1
<1> HIDE DEF S
<1>5. C \in S
  BY <1>2, <1>3, <1>4, EveryNat
<1>6. f[C] = [heap |-> h, obj |-> Null]
  BY <1>2, <1>5 DEF S
<1> QED  BY <1>1, <1>6

(* Once released, what the first object referred to goes on alone.         *)
LEMMA ReleaseOn ==
  ASSUME NEW h, NEW o, NEW k \in Heaps, NEW h1, NEW q,
         Destruct([heap |-> h, obj |-> o]) = [heap |-> h1, obj |-> q],
         Destruct([heap |-> h1, obj |-> q]) = [heap |-> k, obj |-> Null]
  PROVE  ObjRelease(h, o) = k
<1> DEFINE C == Cardinality(Objects)
<1>1. PICK f : /\ f[0] = [heap |-> h, obj |-> o]
               /\ \A i \in 1 .. C : f[i] = Destruct(f[i - 1])
               /\ ObjRelease(h, o) = f[C].heap
  BY Releases
<1>2. C \in Nat /\ C >= 2
  BY ObjectsCounted
<1> HIDE DEF C
<1>3. f[1] = Destruct(f[0]) /\ f[2] = Destruct(f[1])
  <2>1. 1 \in 1 .. C /\ 2 \in 1 .. C /\ 1 - 1 = 0 /\ 2 - 1 = 1
    BY <1>2
  <2> QED  BY <2>1, <1>1
<1>4. f[2] = [heap |-> k, obj |-> Null]
  BY <1>1, <1>3
<1> DEFINE S == {n \in Nat : n >= 2 /\ n <= C => f[n] = [heap |-> k, obj |-> Null]}
<1>5. 0 \in S
  BY DEF S
<1>6. ASSUME NEW n \in Nat, n \in S  PROVE n + 1 \in S
  <2>1. CASE n + 1 <= C /\ n >= 2
    <3>1. f[n + 1] = Destruct(f[n]) /\ f[n] = [heap |-> k, obj |-> Null]
      BY <1>1, <1>2, <1>6, <2>1
    <3>2. Destruct(f[n]) = f[n]
      BY <3>1 DEF Destruct
    <3> QED  BY <3>1, <3>2
  <2>2. CASE n = 1
    BY <2>2, <1>4
  <2> QED  BY <2>1, <2>2
<1> HIDE DEF S
<1>7. C \in S
  BY <1>2, <1>5, <1>6, EveryNat
<1>8. f[C] = [heap |-> k, obj |-> Null]
  BY <1>2, <1>7 DEF S
<1> QED  BY <1>1, <1>8

LEMMA DestructShared ==
  ASSUME NEW h \in Heaps, NEW o \in Objects, h[o].rc >= 2
  PROVE  Destruct([heap |-> h, obj |-> o]) = [heap |-> CountDown(h, o), obj |-> Null]
<1>1. o # Null
  BY GcAssumption
<1>2. Unreferenced(h, o) = CountDown(h, o)
  BY DEF Unreferenced, CountDown
<1>3. CountDown(h, o)[o].rc = h[o].rc - 1
  BY DEF CountDown, Heaps, Object
<1>4. h[o].rc \in Nat
  BY DEF Heaps, Object
<1> QED  BY <1>1, <1>2, <1>3, <1>4 DEF Destruct

LEMMA CountDownType ==
  ASSUME NEW h \in Heaps, NEW o \in Objects, h[o].rc >= 1
  PROVE  CountDown(h, o) \in Heaps
<1> h[o].rc - 1 \in Nat
  BY DEF Heaps, Object
<1> QED  BY DEF CountDown, Heaps, Object

LEMMA ReleaseShared ==
  ASSUME NEW h \in Heaps, NEW o \in Objects, h[o].rc >= 2
  PROVE  ObjRelease(h, o) = CountDown(h, o) /\ CountDown(h, o) \in Heaps
<1>1. CountDown(h, o) \in Heaps
  <2>1. h[o].rc \in Nat
    BY DEF Heaps, Object
  <2> QED  BY <2>1, CountDownType
<1>2. Destruct([heap |-> CountDown(h, o), obj |-> Null]) = [heap |-> CountDown(h, o), obj |-> Null]
  BY DEF Destruct
<1>3. Destruct([heap |-> h, obj |-> o]) = [heap |-> CountDown(h, o), obj |-> Null]
  BY DestructShared
<1> QED  BY <1>1, <1>2, <1>3, ReleaseOn

-----------------------------------------------------------------------------
(* The counts.  L is what the collector lists or is about to, M what its   *)
(* map holds.                                                              *)
Referrers(h, o) == {p \in Linked(h) : h[p].next = o}
One(o, S) == IF o \in S THEN 1 ELSE 0

Exact(h, L, M) ==
  /\ M \subseteq L /\ L \subseteq Objects
  /\ \A o \in Objects :
       /\ h[o].rc = h[o].held + Cardinality(Referrers(h, o)) + One(o, L) + One(o, M)
       /\ o \in L <=> h[o].rc > 0
       /\ h[o].rc = 0 => h[o] = NoObject

LEMMA ReferrersFinite ==
  ASSUME NEW h, NEW o
  PROVE  /\ Referrers(h, o) \subseteq Objects /\ IsFiniteSet(Referrers(h, o))
         /\ Cardinality(Referrers(h, o)) \in Nat
<1>1. Referrers(h, o) \subseteq Objects
  BY DEF Referrers, Linked
<1>2. IsFiniteSet(Referrers(h, o))
  BY <1>1, GcAssumption, FS_Subset
<1> QED  BY <1>1, <1>2, FS_CardinalityType

LEMMA HeapType ==
  ASSUME NEW h \in Heaps, NEW o \in Objects
  PROVE  /\ h[o] \in Object /\ h[o].rc \in Nat /\ h[o].held \in Nat
         /\ h[o].next \in Objects \cup {Null} /\ h[o].flag \in BOOLEAN
BY DEF Heaps, Object

(* What follows from the counts: an object the script has a handle to, and *)
(* one another object refers to, is there, and not for the collector only. *)
LEMMA ExactGives ==
  ASSUME NEW h \in Heaps, NEW L, NEW M, Exact(h, L, M), NEW o \in Objects
  PROVE  /\ h[o].held > 0 => o \in L /\ h[o].rc >= 2
         /\ o \in M => o \in L /\ h[o].rc >= 2
         /\ \A p \in Objects : h[p].next = o => p \in L /\ o \in L /\ h[o].rc >= 2
         /\ o \in L => h[o].rc >= 1
         /\ o \in L /\ h[o].rc = 1 => h[o].held = 0 /\ Referrers(h, o) = {} /\ o \notin M
<1>1. /\ h[o].rc \in Nat /\ h[o].held \in Nat /\ Cardinality(Referrers(h, o)) \in Nat
      /\ IsFiniteSet(Referrers(h, o))
  BY HeapType, ReferrersFinite
<1>2. /\ h[o].rc = h[o].held + Cardinality(Referrers(h, o)) + One(o, L) + One(o, M)
      /\ o \in L <=> h[o].rc > 0
      /\ M \subseteq L
  BY DEF Exact
<1>3. /\ o \in L => One(o, L) = 1
      /\ o \notin L => One(o, L) = 0
      /\ o \in M => One(o, M) = 1
      /\ o \notin M => One(o, M) = 0
  BY DEF One
<1>4. Cardinality(Referrers(h, o)) = 0 <=> Referrers(h, o) = {}
  BY <1>1, FS_EmptySet
<1>5. ASSUME NEW p \in Objects, h[p].next = o
      PROVE  p \in L /\ Referrers(h, o) # {}
  <2>1. h[p].rc # 0
    <3>1. o # Null
      BY GcAssumption
    <3> QED  BY <1>5, <3>1 DEF Exact, NoObject
  <2>2. h[p].rc > 0
    BY <2>1, HeapType
  <2> QED  BY <1>5, <2>2 DEF Exact, Referrers, Linked
<1>6. Referrers(h, o) # {} => o \in L /\ h[o].rc >= 2
  BY <1>1, <1>2, <1>3, <1>4
<1> QED  BY <1>1, <1>2, <1>3, <1>4, <1>5, <1>6

(* An operation that changes no handle of an object and what it counts     *)
(* with.                                                                   *)
SameLinks(h, k) ==
  \A o \in Objects : k[o].next = h[o].next /\ (k[o].rc > 0 <=> h[o].rc > 0)

LEMMA SameReferrers ==
  ASSUME NEW h, NEW k, SameLinks(h, k)
  PROVE  Linked(k) = Linked(h) /\ \A o \in Objects : Referrers(k, o) = Referrers(h, o)
<1>1. Linked(k) = Linked(h)
  BY DEF SameLinks, Linked
<1> QED  BY <1>1 DEF SameLinks, Referrers, Linked

LEMMA StillExact ==
  ASSUME NEW h \in Heaps, NEW k \in Heaps, NEW L, NEW M, Exact(h, L, M), SameLinks(h, k),
         NEW N, N \subseteq L,
         \A o \in Objects : /\ k[o].rc - k[o].held - One(o, N) = h[o].rc - h[o].held - One(o, M)
                            /\ k[o].rc = 0 => k[o] = h[o]
  PROVE  Exact(k, L, N)
<1>1. \A o \in Objects : Referrers(k, o) = Referrers(h, o)
  BY SameReferrers
<1>2. ASSUME NEW o \in Objects
      PROVE  /\ k[o].rc = k[o].held + Cardinality(Referrers(k, o)) + One(o, L) + One(o, N)
             /\ o \in L <=> k[o].rc > 0
             /\ k[o].rc = 0 => k[o] = NoObject
  <2>1. /\ h[o].rc \in Nat /\ h[o].held \in Nat /\ Cardinality(Referrers(h, o)) \in Nat
        /\ k[o].rc \in Nat /\ k[o].held \in Nat
    BY HeapType, ReferrersFinite
  <2>2. One(o, L) \in Int /\ One(o, M) \in Int /\ One(o, N) \in Int
    BY DEF One
  <2>3. /\ h[o].rc = h[o].held + Cardinality(Referrers(h, o)) + One(o, L) + One(o, M)
        /\ o \in L <=> h[o].rc > 0
        /\ h[o].rc = 0 => h[o] = NoObject
    BY DEF Exact
  <2>4. k[o].rc - k[o].held - One(o, N) = h[o].rc - h[o].held - One(o, M)
    OBVIOUS
  <2>5. k[o].rc > 0 <=> h[o].rc > 0
    BY DEF SameLinks
  <2>6. k[o].rc = k[o].held + Cardinality(Referrers(h, o)) + One(o, L) + One(o, N)
    <3> DEFINE c == Cardinality(Referrers(h, o))
               l == One(o, L)
               m == One(o, M)
               n == One(o, N)
               a == h[o].rc
               b == h[o].held
               d == k[o].rc
               e == k[o].held
    <3>1. a \in Nat /\ b \in Nat /\ c \in Nat /\ d \in Nat /\ e \in Nat /\ l \in Int /\ m \in Int /\ n \in Int
      BY <2>1, <2>2
    <3>2. a = b + c + l + m /\ d - e - n = a - b - m
      BY <2>3, <2>4
    <3> HIDE DEF a, b, c, d, e, l, m, n
    <3>3. d = e + c + l + n
      BY <3>1, <3>2
    <3> QED  BY <3>3 DEF c, d, e, l, n
  <2>7. k[o].rc = 0 => h[o].rc = 0
    BY <2>1, <2>5
  <2> QED  BY <1>1, <2>3, <2>5, <2>6, <2>7
<1> QED  BY <1>2 DEF Exact

(* No object that was left alone lost or gained anyone who refers to it.   *)
Steady(h, k) ==
  \A o \in Objects : k[o].flag =>
    /\ h[o].flag /\ k[o].held = h[o].held
    /\ Referrers(k, o) = Referrers(h, o)

LEMMA SteadyTwice ==
  ASSUME NEW h, NEW k, NEW l, Steady(h, k), Steady(k, l)  PROVE Steady(h, l)
BY DEF Steady

LEMMA SteadySelf == ASSUME NEW h  PROVE Steady(h, h)
BY DEF Steady

LEMMA AddRefType ==
  ASSUME NEW h \in Heaps, NEW o \in Objects
  PROVE  ObjAddRef(h, o) \in Heaps
<1> h[o].rc + 1 \in Nat
  BY DEF Heaps, Object
<1> QED  BY DEF ObjAddRef, Heaps, Object

LEMMA FieldType ==
  ASSUME NEW h \in Heaps, NEW o \in Objects
  PROVE  /\ \A b \in BOOLEAN : /\ [h EXCEPT ![o].flag = b] \in Heaps
                              /\ [h EXCEPT ![o].torn = b] \in Heaps
         /\ \A n \in Nat : [h EXCEPT ![o].held = n] \in Heaps
         /\ \A w \in {"none", "held", "dead"} : [h EXCEPT ![o].weak = w] \in Heaps
         /\ \A p \in Objects \cup {Null} : [h EXCEPT ![o].next = p] \in Heaps
<1>1. \A b \in BOOLEAN : [h EXCEPT ![o].flag = b] \in Heaps
  BY DEF Heaps, Object
<1>2. \A b \in BOOLEAN : [h EXCEPT ![o].torn = b] \in Heaps
  BY DEF Heaps, Object
<1>3. \A n \in Nat : [h EXCEPT ![o].held = n] \in Heaps
  BY DEF Heaps, Object
<1>4. \A w \in {"none", "held", "dead"} : [h EXCEPT ![o].weak = w] \in Heaps
  BY DEF Heaps, Object
<1>5. \A p \in Objects \cup {Null} : [h EXCEPT ![o].next = p] \in Heaps
  BY DEF Heaps, Object
<1> QED  BY <1>1, <1>2, <1>3, <1>4, <1>5

Untorn(h, k) == \A o \in Objects : k[o].torn => h[o].torn

LEMMA SteadyLinks ==
  ASSUME NEW h, NEW k, SameLinks(h, k),
         \A o \in Objects : k[o].flag => h[o].flag /\ k[o].held = h[o].held
  PROVE  Steady(h, k)
BY SameReferrers DEF Steady

LEMMA LeavesMap ==
  ASSUME NEW h \in Heaps, NEW L, NEW M, Exact(h, L, M), NEW o \in M
  PROVE  LET k == ObjRelease(h, o)
         IN k \in Heaps /\ Exact(k, L, M \ {o}) /\ Steady(h, k) /\ Untorn(h, k)
<1> DEFINE k == CountDown(h, o)
<1>1. o \in Objects /\ o \in L /\ h[o].rc >= 2 /\ h[o].rc \in Nat
  BY ExactGives, HeapType DEF Exact
<1>2. ObjRelease(h, o) = k /\ k \in Heaps
  BY <1>1, ReleaseShared
<1>3. /\ k[o].rc = h[o].rc - 1 /\ k[o].held = h[o].held /\ k[o].next = h[o].next /\ k[o].torn = h[o].torn
      /\ k[o].flag = FALSE
      /\ \A x \in Objects \ {o} : k[x] = h[x]
  BY <1>1 DEF CountDown, Heaps, Object
<1> HIDE DEF k
<1>4. SameLinks(h, k)
  BY <1>1, <1>3 DEF SameLinks
<1>5. Steady(h, k) /\ Untorn(h, k)
  BY <1>3, <1>4, SteadyLinks DEF Untorn
<1>6. Exact(k, L, M \ {o})
  <2>1. M \ {o} \subseteq L
    BY DEF Exact
  <2>2. ASSUME NEW x \in Objects
        PROVE  /\ k[x].rc - k[x].held - One(x, M \ {o}) = h[x].rc - h[x].held - One(x, M)
               /\ k[x].rc = 0 => k[x] = h[x]
    <3>1. CASE x = o
      <4>1. One(x, M \ {o}) = 0 /\ One(x, M) = 1 /\ h[o].held \in Nat
        BY <3>1, <1>1, HeapType DEF One
      <4> QED  BY <3>1, <4>1, <1>1, <1>3
    <3>2. CASE x # o
      BY <3>2, <1>3 DEF One
    <3> QED  BY <3>1, <3>2
  <2> QED  BY <1>2, <1>4, <2>1, <2>2, StillExact
<1> QED  BY <1>2, <1>5, <1>6 DEF k

(* A reference more, counted with the map or with a handle. *)
LEMMA EntersMap ==
  ASSUME NEW h \in Heaps, NEW L, NEW M, Exact(h, L, M), NEW o \in L \ M
  PROVE  LET k == [ObjAddRef(h, o) EXCEPT ![o].flag = TRUE]
         IN /\ k \in Heaps /\ Exact(k, L, M \cup {o}) /\ Untorn(h, k) /\ SameLinks(h, k)
            /\ \A x \in Objects : k[x].held = h[x].held /\ (x # o => k[x].flag = h[x].flag)
<1> DEFINE k == [ObjAddRef(h, o) EXCEPT ![o].flag = TRUE]
<1>1. o \in Objects /\ h[o].rc >= 1 /\ h[o].rc \in Nat
  BY ExactGives, HeapType DEF Exact
<1>2. k \in Heaps
  BY <1>1, AddRefType, FieldType
<1>3. /\ k[o].rc = h[o].rc + 1 /\ k[o].held = h[o].held /\ k[o].next = h[o].next /\ k[o].torn = h[o].torn
      /\ \A x \in Objects \ {o} : k[x] = h[x]
  BY <1>1 DEF ObjAddRef, Heaps, Object
<1> HIDE DEF k
<1>4. SameLinks(h, k)
  BY <1>1, <1>3 DEF SameLinks
<1>5. Untorn(h, k) /\ \A x \in Objects : k[x].held = h[x].held /\ (x # o => k[x].flag = h[x].flag)
  BY <1>3 DEF Untorn
<1>6. Exact(k, L, M \cup {o})
  <2>1. M \cup {o} \subseteq L
    BY DEF Exact
  <2>2. ASSUME NEW x \in Objects
        PROVE  /\ k[x].rc - k[x].held - One(x, M \cup {o}) = h[x].rc - h[x].held - One(x, M)
               /\ k[x].rc = 0 => k[x] = h[x]
    <3>1. CASE x = o
      <4>1. One(x, M \cup {o}) = 1 /\ One(x, M) = 0 /\ h[o].held \in Nat
        BY <3>1, <1>1, HeapType DEF One
      <4> QED  BY <3>1, <4>1, <1>1, <1>3
    <3>2. CASE x # o
      BY <3>2, <1>3 DEF One
    <3> QED  BY <3>1, <3>2
  <2> QED  BY <1>2, <1>4, <2>1, <2>2, StillExact
<1> QED  BY <1>2, <1>4, <1>5, <1>6 DEF k

(* Handles of the script: one more or one fewer, and a weak reference.     *)
SameCounts(h, k) ==
  \A x \in Objects : k[x].rc - k[x].held = h[x].rc - h[x].held /\ (k[x].rc = 0 => k[x] = h[x])

LEMMA HandlesExact ==
  ASSUME NEW h \in Heaps, NEW k \in Heaps, NEW L, NEW M, Exact(h, L, M), SameLinks(h, k), SameCounts(h, k)
  PROVE  Exact(k, L, M)
<1>1. M \subseteq L
  BY DEF Exact
<1>2. \A x \in Objects : /\ k[x].rc - k[x].held - One(x, M) = h[x].rc - h[x].held - One(x, M)
                         /\ k[x].rc = 0 => k[x] = h[x]
  BY DEF SameCounts
<1> QED  BY <1>1, <1>2, StillExact

LEMMA TakesHandle ==
  ASSUME NEW h \in Heaps, NEW L, NEW M, Exact(h, L, M), NEW o \in L, h[o].held = 0
  PROVE  LET k == [ObjAddRef(h, o) EXCEPT ![o].held = 1]
         IN k \in Heaps /\ Exact(k, L, M) /\ Steady(h, k) /\ Untorn(h, k)
<1> DEFINE k == [ObjAddRef(h, o) EXCEPT ![o].held = 1]
<1>1. o \in Objects /\ h[o].rc >= 1 /\ h[o].rc \in Nat
  BY ExactGives, HeapType DEF Exact
<1>2. k \in Heaps
  BY <1>1, AddRefType, FieldType
<1>3. /\ k[o].rc = h[o].rc + 1 /\ k[o].held = 1 /\ k[o].next = h[o].next /\ k[o].torn = h[o].torn
      /\ k[o].flag = FALSE
      /\ \A x \in Objects \ {o} : k[x] = h[x]
  BY <1>1 DEF ObjAddRef, Heaps, Object
<1> HIDE DEF k
<1>4. SameLinks(h, k)
  BY <1>1, <1>3 DEF SameLinks
<1>5. SameCounts(h, k)
  BY <1>1, <1>3 DEF SameCounts
<1>6. Steady(h, k) /\ Untorn(h, k)
  BY <1>3, <1>4, SteadyLinks DEF Untorn
<1> QED  BY <1>2, <1>4, <1>5, <1>6, HandlesExact DEF k

LEMMA Destructs ==
  ASSUME NEW h \in Heaps, NEW L, NEW M, Exact(h, L, M), NEW o \in L
  PROVE  LET k == CallDestructor(h, o)
         IN /\ k \in Heaps /\ Exact(k, L, M) /\ Steady(h, k) /\ Untorn(h, k)
            /\ k[o].next = h[o].next
<1> DEFINE k == CallDestructor(h, o)
<1>1. o \in Objects /\ h[o].rc >= 1 /\ h[o].rc \in Nat /\ h[o].held \in Nat
  BY ExactGives, HeapType DEF Exact
<1>2. CASE o \notin Rising \/ h[o].destructed
  <2>1. k = h
    BY <1>2 DEF CallDestructor
  <2> QED  BY <2>1, SteadySelf DEF Untorn
<1>3. CASE ~(o \notin Rising \/ h[o].destructed)
  <2>1. k = [ObjAddRef(h, o) EXCEPT ![o].destructed = TRUE, ![o].held = @ + 1]
    BY <1>3 DEF CallDestructor
  <2> HIDE DEF k
  <2>2. k \in Heaps
    BY <1>1, <2>1 DEF ObjAddRef, Heaps, Object
  <2>3. /\ k[o].rc = h[o].rc + 1 /\ k[o].held = h[o].held + 1 /\ k[o].next = h[o].next /\ k[o].torn = h[o].torn
        /\ k[o].flag = FALSE
        /\ \A x \in Objects \ {o} : k[x] = h[x]
    BY <1>1, <2>1 DEF ObjAddRef, Heaps, Object
  <2>4. SameLinks(h, k)
    BY <1>1, <2>3 DEF SameLinks
  <2>5. SameCounts(h, k)
    BY <1>1, <2>3 DEF SameCounts
  <2>6. Steady(h, k) /\ Untorn(h, k)
    BY <2>3, <2>4, SteadyLinks DEF Untorn
  <2> QED  BY <2>2, <2>3, <2>4, <2>5, <2>6, HandlesExact DEF k
<1> QED  BY <1>2, <1>3

LEMMA KeepsWeak ==
  ASSUME NEW h \in Heaps, NEW L, NEW M, Exact(h, L, M), NEW o \in L,
         NEW w \in {"none", "held", "dead"}
  PROVE  LET k == [h EXCEPT ![o].weak = w]
         IN k \in Heaps /\ Exact(k, L, M) /\ Steady(h, k) /\ Untorn(h, k)
<1> DEFINE k == [h EXCEPT ![o].weak = w]
<1>1. o \in Objects /\ h[o].rc >= 1 /\ h[o].rc \in Nat
  BY ExactGives, HeapType DEF Exact
<1>2. k \in Heaps
  BY <1>1, FieldType
<1>3. /\ k[o].rc = h[o].rc /\ k[o].held = h[o].held /\ k[o].next = h[o].next /\ k[o].torn = h[o].torn
      /\ k[o].flag = h[o].flag
      /\ \A x \in Objects \ {o} : k[x] = h[x]
  BY <1>1 DEF Heaps, Object
<1> HIDE DEF k
<1>4. SameLinks(h, k)
  BY <1>1, <1>3 DEF SameLinks
<1>5. SameCounts(h, k)
  BY <1>1, <1>3 DEF SameCounts
<1>6. Steady(h, k) /\ Untorn(h, k)
  BY <1>3, <1>4, SteadyLinks DEF Untorn
<1> QED  BY <1>2, <1>4, <1>5, <1>6, HandlesExact DEF k

LEMMA DropsHandle ==
  ASSUME NEW h \in Heaps, NEW L, NEW M, Exact(h, L, M), NEW o \in Objects, h[o].held > 0
  PROVE  LET k == ObjRelease([h EXCEPT ![o].held = @ - 1], o)
         IN k \in Heaps /\ Exact(k, L, M) /\ Steady(h, k) /\ Untorn(h, k)
<1> DEFINE d == [h EXCEPT ![o].held = @ - 1]
           k == CountDown(d, o)
<1>1. h[o].rc >= 2 /\ h[o].rc \in Nat /\ h[o].held \in Nat /\ h[o].held - 1 \in Nat
  BY ExactGives, HeapType
<1>2. d \in Heaps /\ d[o].rc = h[o].rc
  <2>1. d \in Heaps
    BY <1>1, FieldType
  <2> QED  BY <2>1 DEF Heaps, Object
<1>3. /\ d[o].held = h[o].held - 1 /\ d[o].next = h[o].next /\ d[o].torn = h[o].torn
      /\ \A x \in Objects \ {o} : d[x] = h[x]
  BY <1>1 DEF Heaps, Object
<1> HIDE DEF d
<1>4. ObjRelease(d, o) = k /\ k \in Heaps
  BY <1>1, <1>2, ReleaseShared
<1>5. /\ k[o].rc = h[o].rc - 1 /\ k[o].held = h[o].held - 1 /\ k[o].next = h[o].next /\ k[o].torn = h[o].torn
      /\ k[o].flag = FALSE
      /\ \A x \in Objects \ {o} : k[x] = h[x]
  BY <1>2, <1>3 DEF CountDown, Heaps, Object
<1> HIDE DEF k
<1>6. SameLinks(h, k)
  BY <1>1, <1>5 DEF SameLinks
<1>7. SameCounts(h, k)
  BY <1>1, <1>5 DEF SameCounts
<1>8. Steady(h, k) /\ Untorn(h, k)
  BY <1>5, <1>6, SteadyLinks DEF Untorn
<1>9. Exact(k, L, M)
  BY <1>4, <1>6, <1>7, HandlesExact
<1> QED  BY <1>4, <1>8, <1>9 DEF d

(* The handle in an object goes from q to p, one of which may be none.     *)
Moved(h, k, o, p) ==
  LET q == h[o].next
  IN /\ k[o].next = p
     /\ \A x \in Objects :
          /\ k[x].rc = h[x].rc + (IF x = p THEN 1 ELSE 0) - (IF x = q THEN 1 ELSE 0)
          /\ k[x].held = h[x].held
          /\ x # o => k[x].next = h[x].next
          /\ k[x].torn = h[x].torn
          /\ k[x].flag => h[x].flag /\ x # p /\ x # q
          /\ x # o /\ x # p /\ x # q => k[x] = h[x]

LEMMA SetsHandle ==
  ASSUME NEW h \in Heaps, NEW o \in Objects, NEW p \in Objects \cup {Null}, p # h[o].next,
         h[o].next # Null => h[h[o].next].rc >= 2
  PROVE  LET k == SetHandle(h, o, p)
         IN k \in Heaps /\ Moved(h, k, o, p)
<1> DEFINE q == h[o].next
           d == ObjRelease(h, q)
           e == Refer(d, p)
           k == [e EXCEPT ![o].next = p]
<1>1. q \in Objects \cup {Null} /\ q # p /\ Null \notin Objects
  BY HeapType, GcAssumption
<1>2. k = SetHandle(h, o, p)
  BY DEF SetHandle
<1>3. /\ d \in Heaps
      /\ \A x \in Objects :
           /\ d[x].rc = h[x].rc - (IF x = q THEN 1 ELSE 0)
           /\ d[x].held = h[x].held /\ d[x].next = h[x].next /\ d[x].torn = h[x].torn
           /\ d[x].flag => h[x].flag /\ x # q
           /\ x # q => d[x] = h[x]
  <2>1. CASE q = Null
    <3>1. d = h
      BY <2>1, NoRelease
    <3>2. \A x \in Objects : h[x].rc \in Nat
      BY HeapType
    <3> HIDE DEF d
    <3> QED  BY <3>1, <3>2, <2>1, <1>1
  <2>2. CASE q # Null
    <3>1. q \in Objects /\ h[q].rc >= 2
      BY <1>1, <2>2
    <3>2. d = CountDown(h, q) /\ CountDown(h, q) \in Heaps
      BY <3>1, ReleaseShared
    <3> HIDE DEF d, q
    <3>3. /\ d[q].rc = h[q].rc - 1 /\ d[q].held = h[q].held /\ d[q].next = h[q].next /\ d[q].torn = h[q].torn
          /\ d[q].flag = FALSE
          /\ \A x \in Objects \ {q} : d[x] = h[x]
      BY <3>1, <3>2 DEF CountDown, Heaps, Object
    <3>4. \A x \in Objects : h[x].rc \in Nat
      BY HeapType
    <3> QED  BY <3>2, <3>3, <3>4
  <2> QED  BY <2>1, <2>2
<1> HIDE DEF d
<1>4. /\ e \in Heaps
      /\ \A x \in Objects :
           /\ e[x].rc = d[x].rc + (IF x = p THEN 1 ELSE 0)
           /\ e[x].held = d[x].held /\ e[x].next = d[x].next /\ e[x].torn = d[x].torn
           /\ e[x].flag => d[x].flag /\ x # p
           /\ x # p => e[x] = d[x]
  <2>1. CASE p = Null
    <3>1. e = d
      BY <2>1 DEF Refer
    <3>2. \A x \in Objects : d[x].rc \in Nat
      BY <1>3, HeapType
    <3> HIDE DEF e
    <3> QED  BY <3>1, <3>2, <1>3, <2>1, <1>1
  <2>2. CASE p # Null
    <3>1. p \in Objects
      BY <2>2
    <3>2. e = ObjAddRef(d, p)
      BY <2>2 DEF Refer
    <3>3. ObjAddRef(d, p) \in Heaps
      BY <3>1, <1>3, AddRefType
    <3> HIDE DEF e, q
    <3>4. /\ e[p].rc = d[p].rc + 1 /\ e[p].held = d[p].held /\ e[p].next = d[p].next /\ e[p].torn = d[p].torn
          /\ e[p].flag = FALSE
          /\ \A x \in Objects \ {p} : e[x] = d[x]
      BY <3>1, <3>2, <1>3 DEF ObjAddRef, Heaps, Object
    <3>5. \A x \in Objects : d[x].rc \in Nat
      BY <1>3, HeapType
    <3> QED  BY <3>2, <3>3, <3>4, <3>5
  <2> QED  BY <2>1, <2>2
<1> HIDE DEF e
<1>5. /\ k \in Heaps
      /\ k[o].next = p
      /\ \A x \in Objects :
           /\ k[x].rc = e[x].rc /\ k[x].held = e[x].held /\ k[x].torn = e[x].torn /\ k[x].flag = e[x].flag
           /\ x # o => k[x] = e[x]
  <2>1. k \in Heaps
    BY <1>4, FieldType
  <2> QED  BY <2>1, <1>4 DEF Heaps, Object
<1> HIDE DEF k
<1>6. Moved(h, k, o, p)
  <2>1. ASSUME NEW x \in Objects
        PROVE  /\ k[x].rc = h[x].rc + (IF x = p THEN 1 ELSE 0) - (IF x = q THEN 1 ELSE 0)
               /\ k[x].held = h[x].held
               /\ x # o => k[x].next = h[x].next
               /\ k[x].torn = h[x].torn
               /\ k[x].flag => h[x].flag /\ x # p /\ x # q
               /\ x # o /\ x # p /\ x # q => k[x] = h[x]
    <3>1. h[x].rc \in Nat
      BY HeapType
    <3> QED  BY <3>1, <1>3, <1>4, <1>5
  <2> QED  BY <2>1, <1>5 DEF Moved
<1> QED  BY <1>2, <1>5, <1>6 DEF k

LEMMA MovedReferrers ==
  ASSUME NEW h \in Heaps, NEW k \in Heaps, NEW o \in Objects, NEW p, Moved(h, k, o, p),
         h[o].rc > 0, Linked(k) = Linked(h), p # h[o].next
  PROVE  \A x \in Objects :
           /\ x = p => /\ Referrers(k, x) = Referrers(h, x) \cup {o}
                       /\ Cardinality(Referrers(k, x)) = Cardinality(Referrers(h, x)) + 1
           /\ x = h[o].next => /\ Referrers(k, x) = Referrers(h, x) \ {o}
                               /\ Cardinality(Referrers(k, x)) = Cardinality(Referrers(h, x)) - 1
           /\ x # p /\ x # h[o].next => Referrers(k, x) = Referrers(h, x)
<1> SUFFICES ASSUME NEW x \in Objects
             PROVE /\ x = p => /\ Referrers(k, x) = Referrers(h, x) \cup {o}
                               /\ Cardinality(Referrers(k, x)) = Cardinality(Referrers(h, x)) + 1
                   /\ x = h[o].next => /\ Referrers(k, x) = Referrers(h, x) \ {o}
                                       /\ Cardinality(Referrers(k, x)) = Cardinality(Referrers(h, x)) - 1
                   /\ x # p /\ x # h[o].next => Referrers(k, x) = Referrers(h, x)
  OBVIOUS
<1>1. o \in Linked(h) /\ k[o].next = p /\ \A y \in Objects \ {o} : k[y].next = h[y].next
  BY DEF Moved, Linked
<1>2. \A y : y \in Referrers(h, x) <=> y \in Linked(h) /\ h[y].next = x
  BY DEF Referrers
<1>3. \A y : y \in Referrers(k, x) <=> y \in Linked(h) /\ k[y].next = x
  BY DEF Referrers
<1>4. Linked(h) \subseteq Objects
  BY DEF Linked
<1>5. x = p => Referrers(k, x) = Referrers(h, x) \cup {o} /\ o \notin Referrers(h, x)
  BY <1>1, <1>2, <1>3, <1>4
<1>6. x = h[o].next => Referrers(k, x) = Referrers(h, x) \ {o} /\ o \in Referrers(h, x)
  BY <1>1, <1>2, <1>3, <1>4
<1>7. x # p /\ x # h[o].next => Referrers(k, x) = Referrers(h, x)
  BY <1>1, <1>2, <1>3, <1>4
<1>8. IsFiniteSet(Referrers(h, x))
  BY ReferrersFinite
<1>9. x = p => Cardinality(Referrers(k, x)) = Cardinality(Referrers(h, x)) + 1
  BY <1>5, <1>8, FS_AddElement
<1>10. x = h[o].next => Cardinality(Referrers(k, x)) = Cardinality(Referrers(h, x)) - 1
  BY <1>6, <1>8, FS_RemoveElement
<1> QED  BY <1>5, <1>6, <1>7, <1>9, <1>10

LEMMA MovesHandle ==
  ASSUME NEW h \in Heaps, NEW L, NEW M, Exact(h, L, M), NEW o \in L,
         NEW p \in Objects \cup {Null}, p # h[o].next, p # Null => p \in L
  PROVE  LET k == SetHandle(h, o, p)
         IN k \in Heaps /\ Exact(k, L, M) /\ Steady(h, k) /\ Untorn(h, k)
<1> DEFINE k == SetHandle(h, o, p)
           q == h[o].next
<1>1. o \in Objects /\ h[o].rc > 0 /\ h[o].rc \in Nat
  BY ExactGives, HeapType DEF Exact
<1>2. q # Null => q \in Objects /\ h[q].rc >= 2 /\ h[q].rc \in Nat
  BY <1>1, ExactGives, HeapType
<1>3. p # Null => p \in Objects /\ h[p].rc >= 1 /\ h[p].rc \in Nat
  BY ExactGives, HeapType
<1>4. k \in Heaps /\ Moved(h, k, o, p)
  BY <1>1, <1>2, SetsHandle
<1> HIDE DEF k
<1>5. \A x \in Objects : k[x].rc > 0 <=> h[x].rc > 0
  <2> SUFFICES ASSUME NEW x \in Objects  PROVE k[x].rc > 0 <=> h[x].rc > 0
    OBVIOUS
  <2>1. k[x].rc = h[x].rc + (IF x = p THEN 1 ELSE 0) - (IF x = q THEN 1 ELSE 0)
    BY <1>4 DEF Moved
  <2>2. h[x].rc \in Nat /\ x # Null
    BY HeapType, GcAssumption
  <2> HIDE DEF q
  <2> QED  BY <2>1, <2>2, <1>2, <1>3
<1>6. Linked(k) = Linked(h)
  BY <1>5 DEF Linked
<1>7. \A x \in Objects :
        /\ x = p => /\ Referrers(k, x) = Referrers(h, x) \cup {o}
                    /\ Cardinality(Referrers(k, x)) = Cardinality(Referrers(h, x)) + 1
        /\ x = q => /\ Referrers(k, x) = Referrers(h, x) \ {o}
                    /\ Cardinality(Referrers(k, x)) = Cardinality(Referrers(h, x)) - 1
        /\ x # p /\ x # q => Referrers(k, x) = Referrers(h, x)
  BY <1>1, <1>4, <1>6, MovedReferrers
<1>8. Exact(k, L, M)
  <2>1. M \subseteq L /\ L \subseteq Objects
    BY DEF Exact
  <2>2. ASSUME NEW x \in Objects
        PROVE  /\ k[x].rc = k[x].held + Cardinality(Referrers(k, x)) + One(x, L) + One(x, M)
               /\ x \in L <=> k[x].rc > 0
               /\ k[x].rc = 0 => k[x] = NoObject
    <3>1. /\ h[x].rc = h[x].held + Cardinality(Referrers(h, x)) + One(x, L) + One(x, M)
          /\ x \in L <=> h[x].rc > 0
          /\ h[x].rc = 0 => h[x] = NoObject
      BY DEF Exact
    <3>2. k[x].rc = h[x].rc + (IF x = p THEN 1 ELSE 0) - (IF x = q THEN 1 ELSE 0) /\ k[x].held = h[x].held
      BY <1>4 DEF Moved
    <3>3. h[x].rc \in Nat /\ h[x].held \in Nat /\ Cardinality(Referrers(h, x)) \in Nat
      BY HeapType, ReferrersFinite
    <3>4. One(x, L) \in Nat /\ One(x, M) \in Nat
      BY DEF One
    <3>5. k[x].rc = k[x].held + Cardinality(Referrers(k, x)) + One(x, L) + One(x, M)
      <4> DEFINE c == Cardinality(Referrers(h, x))
                 d == Cardinality(Referrers(k, x))
                 l == One(x, L)
                 m == One(x, M)
      <4>1. d = c + (IF x = p THEN 1 ELSE 0) - (IF x = q THEN 1 ELSE 0)
        <5>1. CASE x = p
          BY <5>1, <1>7, <3>3
        <5>2. CASE x = q
          BY <5>2, <1>7, <3>3
        <5>3. CASE x # p /\ x # q
          BY <5>3, <1>7, <3>3
        <5> QED  BY <5>1, <5>2, <5>3
      <4>2. c \in Nat /\ l \in Nat /\ m \in Nat /\ h[x].rc = h[x].held + c + l + m
        BY <3>1, <3>3, <3>4
      <4> HIDE DEF c, d, l, m, q
      <4>3. k[x].rc = k[x].held + d + l + m
        BY <4>1, <4>2, <3>2, <3>3
      <4> QED  BY <4>3 DEF d, l, m
    <3>6. k[x].rc = 0 => k[x] = NoObject
      <4> SUFFICES ASSUME k[x].rc = 0  PROVE k[x] = NoObject
        OBVIOUS
      <4>1. h[x].rc = 0 /\ h[x] = NoObject
        BY <1>5, <3>1, <3>3
      <4>2. x # o /\ x # p /\ x # q
        BY <4>1, <1>1, <1>2, <1>3, GcAssumption
      <4> QED  BY <4>1, <4>2, <1>4 DEF Moved
    <3> QED  BY <3>1, <3>5, <3>6, <1>5
  <2> QED  BY <2>1, <2>2 DEF Exact
<1>9. Steady(h, k) /\ Untorn(h, k)
  <2>1. Steady(h, k)
    <3>1. ASSUME NEW x \in Objects, k[x].flag
          PROVE  h[x].flag /\ k[x].held = h[x].held /\ Referrers(k, x) = Referrers(h, x)
      BY <3>1, <1>4, <1>7 DEF Moved
    <3> QED  BY <3>1 DEF Steady
  <2>2. Untorn(h, k)
    BY <1>4 DEF Moved, Untorn
  <2> QED  BY <2>1, <2>2
<1> QED  BY <1>4, <1>8, <1>9 DEF k

LEMMA TearsHandles ==
  ASSUME NEW h \in Heaps, NEW L, NEW M, Exact(h, L, M), NEW o \in L
  PROVE  LET k == ReleaseAllHandles(CallDestructor(h, o), o)
         IN /\ k \in Heaps /\ Exact(k, L, M) /\ Steady(h, k)
            /\ \A x \in Objects : k[x].torn => h[x].torn \/ x = o
<1> DEFINE d == CallDestructor(h, o)
           e == SetHandle(d, o, Null)
           k == [e EXCEPT ![o].torn = TRUE]
<1>1. k = ReleaseAllHandles(d, o)
  BY DEF ReleaseAllHandles
<1>2. d \in Heaps /\ Exact(d, L, M) /\ Steady(h, d) /\ Untorn(h, d)
  BY Destructs
<1>3. o \in Objects
  BY DEF Exact
<1> HIDE DEF d
<1>4. e \in Heaps /\ Exact(e, L, M) /\ Steady(d, e) /\ Untorn(d, e)
  <2>1. CASE d[o].next # Null
    BY <2>1, <1>2, MovesHandle
  <2>2. CASE d[o].next = Null
    <3>1. e = [d EXCEPT ![o].next = Null]
      BY <2>2, NoRelease DEF SetHandle, Refer
    <3>2. e = d
      BY <3>1, <2>2, <1>2, <1>3 DEF Heaps, Object
    <3> QED  BY <3>2, <1>2, SteadySelf DEF Untorn
  <2> QED  BY <2>1, <2>2
<1> HIDE DEF e
<1>5. k \in Heaps
  BY <1>3, <1>4, FieldType
<1>6. /\ k[o].rc = e[o].rc /\ k[o].held = e[o].held /\ k[o].next = e[o].next /\ k[o].flag = e[o].flag
      /\ \A x \in Objects \ {o} : k[x] = e[x]
  BY <1>3, <1>4 DEF Heaps, Object
<1>7. e[o].rc >= 1
  BY <1>3, <1>4, ExactGives
<1> HIDE DEF k
<1>8. SameLinks(e, k)
  BY <1>6 DEF SameLinks
<1>9. SameCounts(e, k)
  BY <1>6, <1>7 DEF SameCounts
<1>10. Exact(k, L, M)
  BY <1>4, <1>5, <1>8, <1>9, HandlesExact
<1>11. Steady(e, k)
  BY <1>6, <1>8, SteadyLinks
<1>12. Steady(h, k)
  BY <1>2, <1>4, <1>11, SteadyTwice
<1>13. \A x \in Objects : k[x].torn => h[x].torn \/ x = o
  BY <1>2, <1>4, <1>6 DEF Untorn
<1> QED  BY <1>1, <1>5, <1>10, <1>12, <1>13 DEF d

(* A new object, with the collector's reference. *)
NewObject == [NoObject EXCEPT !.rc = 1, !.held = 1]
Placed(h, o) == ObjAddRef([h EXCEPT ![o] = NewObject], o)

LEMMA Creates ==
  ASSUME NEW h \in Heaps, NEW L, NEW M, Exact(h, L, M), NEW o \in Objects, h[o].rc = 0
  PROVE  LET k == Placed(h, o)
         IN /\ o \notin L
            /\ k \in Heaps /\ Exact(k, L \cup {o}, M) /\ Steady(h, k) /\ Untorn(h, k)
            /\ ~k[o].torn /\ ~k[o].flag /\ h[o] = NoObject
            /\ \A x \in Objects \ {o} : k[x] = h[x]
<1> DEFINE n == [NoObject EXCEPT !.rc = 1, !.held = 1]
           d == [h EXCEPT ![o] = n]
           k == ObjAddRef(d, o)
<1>1. o \notin L /\ h[o] = NoObject
  BY HeapType DEF Exact
<1>2. n \in Object /\ n.rc = 1 /\ n.held = 1 /\ n.next = Null /\ n.flag = FALSE /\ n.torn = FALSE
  BY DEF NoObject, Object
<1> HIDE DEF n
<1>3. d \in Heaps
  BY <1>2 DEF Heaps
<1>4. d[o] = n /\ \A x \in Objects \ {o} : d[x] = h[x]
  BY DEF Heaps
<1> HIDE DEF d
<1>5. k \in Heaps
  BY <1>3, AddRefType
<1>6. /\ k[o].rc = 2 /\ k[o].held = 1 /\ k[o].next = Null /\ k[o].torn = FALSE /\ k[o].flag = FALSE
      /\ \A x \in Objects \ {o} : k[x] = h[x]
  BY <1>2, <1>3, <1>4 DEF ObjAddRef, Heaps, Object
<1> HIDE DEF k
<1>7. Linked(k) = Linked(h) \cup {o}
  BY <1>6 DEF Linked
<1>8. \A x \in Objects : Referrers(k, x) = Referrers(h, x)
  <2>1. \A x \in Objects : x # Null
    BY GcAssumption
  <2>2. h[o].next = Null
    BY <1>1 DEF NoObject
  <2> QED  BY <1>6, <1>7, <2>1, <2>2 DEF Referrers, Linked
<1>9. Referrers(h, o) = {}
  <2> SUFFICES ASSUME NEW p \in Referrers(h, o)  PROVE FALSE
    OBVIOUS
  <2>1. p \in Objects /\ h[p].next = o
    BY DEF Referrers, Linked
  <2> QED  BY <2>1, <1>1, ExactGives
<1>10. Exact(k, L \cup {o}, M)
  <2>1. M \subseteq L \cup {o} /\ L \cup {o} \subseteq Objects
    BY DEF Exact
  <2>2. ASSUME NEW x \in Objects
        PROVE  /\ k[x].rc = k[x].held + Cardinality(Referrers(k, x)) + One(x, L \cup {o}) + One(x, M)
               /\ x \in L \cup {o} <=> k[x].rc > 0
               /\ k[x].rc = 0 => k[x] = NoObject
    <3>1. CASE x = o
      <4>1. Cardinality(Referrers(k, o)) = 0
        BY <1>8, <1>9, FS_EmptySet
      <4>2. One(o, L \cup {o}) = 1 /\ One(o, M) = 0
        BY <1>1 DEF One, Exact
      <4> QED  BY <3>1, <4>1, <4>2, <1>6
    <3>2. CASE x # o
      <4>1. k[x] = h[x] /\ Referrers(k, x) = Referrers(h, x) /\ One(x, L \cup {o}) = One(x, L)
        BY <3>2, <1>6, <1>8 DEF One
      <4>2. x \in L \cup {o} <=> x \in L
        BY <3>2
      <4> QED  BY <4>1, <4>2 DEF Exact
    <3> QED  BY <3>1, <3>2
  <2> QED  BY <2>1, <2>2 DEF Exact
<1>11. Steady(h, k) /\ Untorn(h, k)
  BY <1>6, <1>8 DEF Steady, Untorn
<1> QED  BY <1>1, <1>5, <1>6, <1>10, <1>11 DEF k, d, n, Placed, NewObject

LEMMA WeakEnds ==
  ASSUME NEW h \in Heaps, NEW o \in Objects
  PROVE  LET e == EndWeak(h, o)
         IN /\ e \in Heaps /\ e[o].rc = h[o].rc /\ e[o].next = h[o].next
            /\ e[o].destructed = h[o].destructed /\ e[o].held = h[o].held /\ e[o].torn = h[o].torn
            /\ \A x \in Objects \ {o} : e[x] = h[x]
<1> DEFINE w == IF h[o].weak = "held" THEN "dead" ELSE h[o].weak
           e == [h EXCEPT ![o].weak = w]
<1>1. w \in {"none", "held", "dead"}
  BY DEF Heaps, Object
<1>2. e = EndWeak(h, o)
  BY DEF EndWeak
<1> HIDE DEF w
<1>3. e \in Heaps
  BY <1>1, FieldType
<1>4. /\ e[o].rc = h[o].rc /\ e[o].next = h[o].next
      /\ e[o].destructed = h[o].destructed /\ e[o].held = h[o].held /\ e[o].torn = h[o].torn
      /\ \A x \in Objects \ {o} : e[x] = h[x]
  BY DEF Heaps, Object
<1> HIDE DEF e
<1> QED  BY <1>2, <1>3, <1>4

(* A reference taken back from the object of record r.                     *)
Less(r) == [r EXCEPT !.rc = @ - 1, !.flag = FALSE]

(* The last reference is the collector's: the object rises or is gone.     *)
LEMMA Frees ==
  ASSUME NEW h \in Heaps, NEW o \in Objects, h[o].rc = 1, h[o].next # o,
         o \notin Rising \/ h[o].destructed,
         h[o].next # Null => h[h[o].next].rc >= 2
  PROVE  LET k == ObjRelease(h, o)
         IN /\ k \in Heaps /\ k[o] = NoObject
            /\ \A x \in Objects \ {o} :
                 IF x = h[o].next THEN k[x] = Less(h[x])
                 ELSE k[x] = h[x]
<1> DEFINE e == EndWeak(h, o)
           u == [e EXCEPT ![o].rc = @ - 1, ![o].flag = FALSE]
           f == [u EXCEPT ![o] = NoObject]
           q == h[o].next
           k == IF q = Null THEN f ELSE CountDown(f, q)
<1>1. o # Null /\ q \in Objects \cup {Null} /\ q # o
  BY GcAssumption, HeapType
<1>2. /\ e \in Heaps /\ e[o].rc = h[o].rc /\ e[o].next = q /\ e[o].destructed = h[o].destructed
      /\ \A x \in Objects \ {o} : e[x] = h[x]
  BY WeakEnds
<1>3. Unreferenced(h, o) = u
  <2>1. CallDestructor(EndWeak(h, o), o) = e
    BY <1>2 DEF CallDestructor
  <2> QED  BY <2>1 DEF Unreferenced
<1> HIDE DEF e
<1>4. u = CountDown(e, o) /\ u \in Heaps
  <2>1. u = CountDown(e, o)
    BY DEF CountDown
  <2>2. e[o].rc >= 1
    BY <1>2
  <2> HIDE DEF u
  <2> QED  BY <2>1, <2>2, <1>2, CountDownType
<1>5. u[o].rc = 0 /\ u[o].next = q /\ \A x \in Objects \ {o} : u[x] = h[x]
  BY <1>2 DEF Heaps, Object
<1> HIDE DEF u
<1>6. f \in Heaps /\ f[o] = NoObject /\ \A x \in Objects \ {o} : f[x] = h[x]
  <2>1. NoObject \in Object
    BY DEF NoObject, Object
  <2> QED  BY <2>1, <1>4, <1>5 DEF Heaps
<1>7. Destruct([heap |-> h, obj |-> o]) = [heap |-> f, obj |-> q]
  BY <1>1, <1>3, <1>5 DEF Destruct
<1> HIDE DEF f
<1>8. k \in Heaps /\ Destruct([heap |-> f, obj |-> q]) = [heap |-> k, obj |-> Null]
  <2>1. CASE q = Null
    BY <2>1, <1>6 DEF Destruct
  <2>2. CASE q # Null
    <3>1. q \in Objects /\ f[q].rc >= 2 /\ f[q].rc \in Nat
      BY <2>2, <1>1, <1>6, HeapType
    <3>2. k = CountDown(f, q)
      BY <2>2
    <3> HIDE DEF q, k
    <3> QED  BY <3>1, <3>2, <1>6, DestructShared, CountDownType
  <2> QED  BY <2>1, <2>2
<1>9. ObjRelease(h, o) = k
  BY <1>7, <1>8, ReleaseOn
<1>10. /\ k[o] = NoObject
       /\ \A x \in Objects \ {o} :
            IF x = q THEN k[x] = Less(h[x]) ELSE k[x] = h[x]
  <2>1. CASE q = Null
    <3>1. \A x \in Objects : x # q
      BY <2>1, GcAssumption
    <3> QED  BY <2>1, <3>1, <1>6
  <2>2. CASE q # Null
    <3>1. q \in Objects /\ k = CountDown(f, q)
      BY <2>2, <1>1
    <3> HIDE DEF k, q
    <3>2. /\ k[q] = Less(f[q])
          /\ \A x \in Objects \ {q} : k[x] = f[x]
      BY <3>1, <1>6 DEF CountDown, Heaps, Object, Less
    <3> QED  BY <3>1, <3>2, <1>1, <1>6
  <2> QED  BY <2>1, <2>2
<1> QED  BY <1>8, <1>9, <1>10

LEMMA FreedExact ==
  ASSUME NEW h \in Heaps, NEW L, NEW M, Exact(h, L, M), NEW o \in L, h[o].rc = 1,
         o \notin Rising \/ h[o].destructed
  PROVE  LET k == ObjRelease(h, o)
         IN /\ k \in Heaps /\ k[o].rc = 0 /\ Exact(k, L \ {o}, M) /\ Steady(h, k) /\ Untorn(h, k)
<1> DEFINE k == ObjRelease(h, o)
           q == h[o].next
<1>1. o \in Objects /\ o \notin M /\ h[o].held = 0 /\ Referrers(h, o) = {}
  BY ExactGives DEF Exact
<1>2. q \in Objects \cup {Null} /\ Null \notin Objects /\ q # o
  <2>1. q # o
    BY <1>1 DEF Referrers, Linked
  <2> QED  BY <2>1, <1>1, HeapType, GcAssumption
<1>3. q # Null => q \in Objects /\ h[q].rc >= 2
  BY <1>1, <1>2, ExactGives
<1>4. /\ k \in Heaps /\ k[o] = NoObject
      /\ \A x \in Objects \ {o} :
           IF x = q THEN k[x] = Less(h[x]) ELSE k[x] = h[x]
  BY <1>1, <1>2, <1>3, Frees
<1> HIDE DEF k
<1>5. ASSUME NEW x \in Objects, x # o
      PROVE  /\ k[x].rc = h[x].rc - (IF x = q THEN 1 ELSE 0)
             /\ k[x].held = h[x].held /\ k[x].next = h[x].next /\ k[x].torn = h[x].torn
             /\ k[x].flag => h[x].flag /\ x # q
             /\ x # q => k[x] = h[x]
  <2>1. h[x] \in Object /\ h[x].rc \in Nat
    BY HeapType
  <2>2. CASE x = q
    <3>1. k[x] = Less(h[x])
      BY <2>2, <1>4, <1>5
    <3> HIDE DEF q
    <3> QED  BY <2>1, <2>2, <3>1 DEF Object, Less
  <2>3. CASE x # q
    <3>1. k[x] = h[x]
      BY <2>3, <1>4, <1>5
    <3> HIDE DEF q
    <3> QED  BY <2>1, <2>3, <3>1 DEF Object
  <2> QED  BY <2>2, <2>3
<1>6. k[o].rc = 0 /\ k[o].held = 0 /\ k[o].next = Null /\ k[o].torn = FALSE /\ k[o].flag = FALSE
  <2>1. k[o] = NoObject
    BY <1>4
  <2> QED  BY <2>1 DEF NoObject
<1>7. Linked(k) = Linked(h) \ {o}
  <2> SUFFICES ASSUME NEW x \in Objects  PROVE k[x].rc > 0 <=> h[x].rc > 0 /\ x # o
    BY DEF Linked
  <2>1. h[x].rc \in Nat
    BY HeapType
  <2>2. CASE x = o
    BY <2>2, <1>6
  <2>3. CASE x # o
    <3>1. k[x].rc = h[x].rc - (IF x = q THEN 1 ELSE 0)
      BY <2>3, <1>5
    <3>2. x = q => h[x].rc >= 2
      BY <1>2, <1>3
    <3> HIDE DEF q
    <3> QED  BY <2>1, <2>3, <3>1, <3>2
  <2> QED  BY <2>2, <2>3
<1>8. \A x \in Objects : Referrers(k, x) = Referrers(h, x) \ {o}
  BY <1>1, <1>2, <1>5, <1>7 DEF Referrers, Linked
<1>9. \A x \in Objects : x # q => Referrers(k, x) = Referrers(h, x)
  <2>1. \A x \in Objects : x # q => o \notin Referrers(h, x)
    BY DEF Referrers
  <2> QED  BY <2>1, <1>8
<1>10. q # Null => Cardinality(Referrers(k, q)) = Cardinality(Referrers(h, q)) - 1
  <2> SUFFICES ASSUME q # Null  PROVE Cardinality(Referrers(k, q)) = Cardinality(Referrers(h, q)) - 1
    OBVIOUS
  <2>1. q \in Objects /\ o \in Referrers(h, q)
    BY <1>1, <1>2 DEF Referrers, Linked
  <2>2. Referrers(k, q) = Referrers(h, q) \ {o} /\ IsFiniteSet(Referrers(h, q))
    BY <2>1, <1>8, ReferrersFinite
  <2> DEFINE r == Referrers(h, q)
  <2>3. IsFiniteSet(r) /\ o \in r
    BY <2>1, <2>2
  <2>4. Cardinality(r \ {o}) = Cardinality(r) - 1
    <3> HIDE DEF r
    <3> QED  BY <2>3, FS_RemoveElement
  <2> QED  BY <2>2, <2>4
<1>11. Exact(k, L \ {o}, M)
  <2>1. M \subseteq L \ {o} /\ L \ {o} \subseteq Objects
    BY <1>1 DEF Exact
  <2>2. ASSUME NEW x \in Objects
        PROVE  /\ k[x].rc = k[x].held + Cardinality(Referrers(k, x)) + One(x, L \ {o}) + One(x, M)
               /\ x \in L \ {o} <=> k[x].rc > 0
               /\ k[x].rc = 0 => k[x] = NoObject
    <3>1. CASE x = o
      <4>1. Referrers(k, o) = {}
        BY <1>1, <1>8
      <4>2. Cardinality(Referrers(k, o)) = 0
        BY <4>1, FS_EmptySet
      <4>3. One(o, L \ {o}) = 0 /\ One(o, M) = 0
        BY <1>1 DEF One
      <4>4. k[o].rc = k[o].held + Cardinality(Referrers(k, o)) + One(o, L \ {o}) + One(o, M)
        BY <4>2, <4>3, <1>6
      <4>5. ~(k[o].rc > 0)
        BY <1>6
      <4>6. k[o] = NoObject
        BY <1>4
      <4> QED  BY <3>1, <4>4, <4>5, <4>6
    <3>2. CASE x # o
      <4>1. /\ h[x].rc = h[x].held + Cardinality(Referrers(h, x)) + One(x, L) + One(x, M)
            /\ x \in L <=> h[x].rc > 0
            /\ h[x].rc = 0 => h[x] = NoObject
        BY DEF Exact
      <4>2. x \in L \ {o} <=> x \in L
        BY <3>2
      <4>3. One(x, L \ {o}) = One(x, L)
        BY <3>2 DEF One
      <4>4. h[x].rc \in Nat /\ h[x].held \in Nat /\ Cardinality(Referrers(h, x)) \in Nat
        BY HeapType, ReferrersFinite
      <4>5. One(x, L) \in Nat /\ One(x, M) \in Nat
        BY DEF One
      <4>6. CASE x = q
        <5>1. Cardinality(Referrers(k, x)) = Cardinality(Referrers(h, x)) - 1 /\ h[x].rc >= 2
          BY <4>6, <1>2, <1>3, <1>10
        <5>2. k[x].rc = h[x].rc - 1 /\ k[x].held = h[x].held
          BY <4>6, <3>2, <1>5
        <5> DEFINE c == Cardinality(Referrers(h, x))
                   d == Cardinality(Referrers(k, x))
                   l == One(x, L)
                   m == One(x, M)
        <5>3. c \in Nat /\ l \in Nat /\ m \in Nat /\ h[x].rc = h[x].held + c + l + m /\ d = c - 1
          BY <4>1, <4>4, <4>5, <5>1
        <5> HIDE DEF c, d, l, m
        <5>4. k[x].rc = k[x].held + d + l + m
          BY <5>2, <5>3, <4>4
        <5>5. k[x].rc = k[x].held + Cardinality(Referrers(k, x)) + One(x, L \ {o}) + One(x, M)
          BY <5>4, <4>3 DEF d, l, m
        <5>6. k[x].rc > 0 /\ h[x].rc > 0
          BY <5>1, <5>2, <4>4
        <5> QED  BY <5>5, <5>6, <4>1, <4>2
      <4>7. CASE x # q
        <5>1. k[x] = h[x] /\ Referrers(k, x) = Referrers(h, x)
          BY <4>7, <3>2, <1>5, <1>9
        <5> QED  BY <5>1, <4>1, <4>2, <4>3
      <4> QED  BY <4>6, <4>7
    <3> QED  BY <3>1, <3>2
  <2> QED  BY <2>1, <2>2 DEF Exact
<1>12. Steady(h, k)
  <2>1. ASSUME NEW x \in Objects, k[x].flag
        PROVE  h[x].flag /\ k[x].held = h[x].held /\ Referrers(k, x) = Referrers(h, x)
    <3>1. x # o
      BY <2>1, <1>6
    <3> QED  BY <3>1, <2>1, <1>5, <1>9
  <2> QED  BY <2>1 DEF Steady
<1>13. Untorn(h, k)
  BY <1>5, <1>6 DEF Untorn
<1> QED  BY <1>4, <1>6, <1>11, <1>12, <1>13 DEF k

LEMMA Rises ==
  ASSUME NEW h \in Heaps, NEW L, NEW M, Exact(h, L, M), NEW o \in L, h[o].rc = 1,
         ~(o \notin Rising \/ h[o].destructed)
  PROVE  LET k == ObjRelease(h, o)
             l == ObjAddRef(k, o)
         IN /\ k[o].rc # 0 /\ l \in Heaps /\ Exact(l, L, M) /\ Steady(h, l) /\ Untorn(h, l)
            /\ SameLinks(h, l) /\ \A x \in Objects : h[x].held > 0 => l[x].held > 0
<1> DEFINE e == EndWeak(h, o)
           d == CallDestructor(e, o)
           u == CountDown(d, o)
           l == ObjAddRef(u, o)
<1>1. o \in Objects /\ o # Null /\ h[o].held = 0
  BY ExactGives, GcAssumption DEF Exact
<1>2. /\ e \in Heaps /\ e[o].rc = h[o].rc /\ e[o].next = h[o].next /\ e[o].destructed = h[o].destructed
      /\ e[o].held = h[o].held /\ e[o].torn = h[o].torn
      /\ \A x \in Objects \ {o} : e[x] = h[x]
  BY <1>1, WeakEnds
<1>3. Unreferenced(h, o) = u
  BY DEF Unreferenced, CountDown
<1>4. d = [ObjAddRef(e, o) EXCEPT ![o].destructed = TRUE, ![o].held = @ + 1]
  BY <1>2 DEF CallDestructor
<1> HIDE DEF e, d
<1>5. /\ d \in Heaps /\ d[o].rc = 2 /\ d[o].held = 1 /\ d[o].next = h[o].next /\ d[o].torn = h[o].torn
      /\ \A x \in Objects \ {o} : d[x] = h[x]
  <2>1. d \in Heaps
    BY <1>1, <1>2, <1>4 DEF ObjAddRef, Heaps, Object
  <2> QED  BY <2>1, <1>1, <1>2, <1>4 DEF ObjAddRef, Heaps, Object
<1>6. /\ u \in Heaps /\ u[o].rc = 1 /\ u[o].held = 1 /\ u[o].next = h[o].next /\ u[o].torn = h[o].torn
      /\ \A x \in Objects \ {o} : u[x] = h[x]
  <2>1. u \in Heaps
    BY <1>1, <1>5, CountDownType
  <2> QED  BY <2>1, <1>1, <1>5 DEF CountDown, Heaps, Object
<1> HIDE DEF u
<1>7. ObjRelease(h, o) = u
  <2>1. Destruct([heap |-> h, obj |-> o]) = [heap |-> u, obj |-> Null]
    BY <1>1, <1>3, <1>6 DEF Destruct
  <2>2. Destruct([heap |-> u, obj |-> Null]) = [heap |-> u, obj |-> Null]
    BY DEF Destruct
  <2> QED  BY <2>1, <2>2, <1>6, ReleaseOn
<1>8. /\ l \in Heaps /\ l[o].rc = 2 /\ l[o].held = 1 /\ l[o].next = h[o].next /\ l[o].torn = h[o].torn
      /\ l[o].flag = FALSE
      /\ \A x \in Objects \ {o} : l[x] = h[x]
  <2>1. l \in Heaps
    BY <1>1, <1>6, AddRefType
  <2> QED  BY <2>1, <1>1, <1>6 DEF ObjAddRef, Heaps, Object
<1> HIDE DEF l
<1>9. SameLinks(h, l)
  BY <1>8 DEF SameLinks
<1>10. SameCounts(h, l)
  BY <1>1, <1>8 DEF SameCounts
<1>11. Steady(h, l) /\ Untorn(h, l)
  BY <1>8, <1>9, SteadyLinks DEF Untorn
<1>12. Exact(l, L, M)
  BY <1>8, <1>9, <1>10, HandlesExact
<1>13. \A x \in Objects : h[x].held > 0 => l[x].held > 0
  BY <1>8
<1> QED  BY <1>6, <1>7, <1>8, <1>9, <1>11, <1>12, <1>13 DEF l

-----------------------------------------------------------------------------
(* The lists.                                                              *)
Entries == [obj : Objects, sweeps : 0 .. 3]
InLists(lists) ==
  {o \in Objects : \E list \in Lists : \E i \in 1 .. Len(lists[list]) : lists[list][i].obj = o}
Apart(lists) ==
  \A list, kind \in Lists : \A i \in 1 .. Len(lists[list]), j \in 1 .. Len(lists[kind]) :
    lists[list][i].obj = lists[kind][j].obj => list = kind /\ i = j

LEMMA Removes ==
  ASSUME NEW T, NEW s \in Seq(T), NEW i \in 1 .. Len(s)
  PROVE  LET t == RemoveObjectAtIdx(s, i)
         IN /\ t \in Seq(T) /\ Len(t) = Len(s) - 1
            /\ \A j \in 1 .. Len(t) : t[j] = IF j = i THEN s[Len(s)] ELSE s[j]
<1> DEFINE n == Len(s)
<1>1. n \in Nat /\ n >= 1 /\ i \in 1 .. n /\ n = Len(s)
  OBVIOUS
<1>2. ASSUME NEW m \in 0 .. n
      PROVE  /\ SubSeq(s, 1, m) \in Seq(T) /\ Len(SubSeq(s, 1, m)) = m
             /\ \A j \in 1 .. m : SubSeq(s, 1, m)[j] = s[j]
  OBVIOUS
<1> HIDE DEF n
<1>5. n - 1 \in 0 .. n
  BY <1>1
<1>3. CASE i = Len(s)
  <2>1. RemoveObjectAtIdx(s, i) = SubSeq(s, 1, n - 1)
    BY <1>3 DEF RemoveObjectAtIdx, n
  <2> DEFINE t == SubSeq(s, 1, n - 1)
  <2>2. t \in Seq(T) /\ Len(t) = n - 1 /\ \A j \in 1 .. n - 1 : t[j] = s[j]
    BY <1>2, <1>5
  <2> HIDE DEF t
  <2> QED  BY <2>1, <2>2, <1>3, <1>1 DEF t
<1>4. CASE i # Len(s)
  <2> DEFINE u == SubSeq(s, 1, n - 1)
             t == [u EXCEPT ![i] = s[n]]
  <2>1. RemoveObjectAtIdx(s, i) = t
    BY <1>4 DEF RemoveObjectAtIdx, n
  <2>2. u \in Seq(T) /\ Len(u) = n - 1 /\ \A j \in 1 .. n - 1 : u[j] = s[j]
    BY <1>2, <1>5
  <2>3. s[n] \in T /\ i \in 1 .. n - 1
    BY <1>1, <1>4
  <2> HIDE DEF u
  <2>4. t \in Seq(T) /\ Len(t) = n - 1 /\ \A j \in 1 .. n - 1 : t[j] = IF j = i THEN s[n] ELSE s[j]
    BY <2>2, <2>3
  <2> HIDE DEF t
  <2> QED  BY <2>1, <2>4, <1>1
<1> QED  BY <1>3, <1>4

LEMMA EntryType ==
  ASSUME NEW lists \in [Lists -> Seq(Entries)], NEW list \in Lists, NEW i \in 1 .. Len(lists[list])
  PROVE  lists[list][i] \in Entries /\ lists[list][i].obj \in Objects /\ lists[list][i].obj \in InLists(lists)
<1>1. lists[list][i] \in Entries
  OBVIOUS
<1>2. lists[list][i].obj \in Objects
  BY <1>1 DEF Entries
<1> QED  BY <1>1, <1>2 DEF InLists

Without(lists, list, i) == [lists EXCEPT ![list] = RemoveObjectAtIdx(@, i)]
With(lists, list, e) == [lists EXCEPT ![list] = Append(@, e)]

(* One object is taken from its list. *)
LEMMA RemovedApart ==
  ASSUME NEW lists \in [Lists -> Seq(Entries)], Apart(lists), NEW list \in Lists,
         NEW i \in 1 .. Len(lists[list])
  PROVE  LET after == Without(lists, list, i)
         IN /\ after \in [Lists -> Seq(Entries)] /\ Apart(after)
            /\ InLists(after) = InLists(lists) \ {lists[list][i].obj}
            /\ \A kind \in Lists : \A j \in 1 .. Len(lists[kind]) :
                 lists[kind][j].obj # lists[list][i].obj =>
                   \E m \in 1 .. Len(after[kind]) : m <= j /\ after[kind][m].obj = lists[kind][j].obj
<1> DEFINE s == lists[list]
           n == Len(s)
           t == RemoveObjectAtIdx(s, i)
           after == [lists EXCEPT ![list] = t]
<1>1. s \in Seq(Entries) /\ n \in Nat /\ i \in 1 .. n
  OBVIOUS
<1>2. /\ t \in Seq(Entries) /\ Len(t) = n - 1
      /\ \A j \in 1 .. n - 1 : t[j] = IF j = i THEN s[n] ELSE s[j]
  <2> HIDE DEF s
  <2> QED  BY <1>1, Removes
<1> HIDE DEF t
<1>3. after \in [Lists -> Seq(Entries)] /\ after[list] = t /\ \A kind \in Lists \ {list} : after[kind] = lists[kind]
  BY <1>2
<1> HIDE DEF after
<1> DEFINE Source(kind, j) == IF kind = list /\ j = i THEN n ELSE j
<1>4. ASSUME NEW kind \in Lists, NEW j \in 1 .. Len(after[kind])
      PROVE  /\ Source(kind, j) \in 1 .. Len(lists[kind]) /\ ~(kind = list /\ Source(kind, j) = i)
             /\ after[kind][j] = lists[kind][Source(kind, j)]
  <2>1. CASE kind = list
    <3>1. j \in 1 .. n - 1 /\ after[kind][j] = t[j] /\ lists[kind] = s
      BY <2>1, <1>2, <1>3
    <3>2. CASE j = i
      <4>1. Source(kind, j) = n /\ n # i
        BY <2>1, <3>1, <3>2, <1>1
      <4> QED  BY <4>1, <3>1, <3>2, <1>1, <1>2
    <3>3. CASE j # i
      <4>1. Source(kind, j) = j
        BY <3>3
      <4> QED  BY <4>1, <3>1, <3>3, <1>1, <1>2
    <3> QED  BY <3>2, <3>3
  <2>2. CASE kind # list
    BY <2>2, <1>3
  <2> QED  BY <2>1, <2>2
<1>5. ASSUME NEW kind \in Lists, NEW j \in 1 .. Len(lists[kind]), ~(kind = list /\ j = i)
      PROVE  \E m \in 1 .. Len(after[kind]) : m <= j /\ after[kind][m] = lists[kind][j]
  <2>1. CASE kind = list
    <3>1. CASE j = n
      <4>1. i \in 1 .. n - 1 /\ t[i] = s[n] /\ i <= j
        BY <2>1, <3>1, <1>1, <1>2, <1>5
      <4> QED  BY <4>1, <2>1, <3>1, <1>2, <1>3
    <3>2. CASE j # n
      <4>1. j \in 1 .. n - 1 /\ t[j] = s[j]
        BY <2>1, <3>2, <1>1, <1>2, <1>5
      <4> QED  BY <4>1, <2>1, <1>2, <1>3
    <3> QED  BY <3>1, <3>2
  <2>2. CASE kind # list
    BY <2>2, <1>3
  <2> QED  BY <2>1, <2>2
<1>6. Apart(after)
  <2> SUFFICES ASSUME NEW kind \in Lists, NEW other \in Lists,
                      NEW j \in 1 .. Len(after[kind]), NEW m \in 1 .. Len(after[other]),
                      after[kind][j].obj = after[other][m].obj
               PROVE  kind = other /\ j = m
    BY DEF Apart
  <2>1. /\ Source(kind, j) \in 1 .. Len(lists[kind]) /\ Source(other, m) \in 1 .. Len(lists[other])
        /\ lists[kind][Source(kind, j)].obj = lists[other][Source(other, m)].obj
    BY <1>4
  <2>2. kind = other /\ Source(kind, j) = Source(other, m)
    BY <2>1 DEF Apart
  <2>3. CASE kind = list
    <3>1. j \in 1 .. n - 1 /\ m \in 1 .. n - 1
      BY <2>2, <2>3, <1>2, <1>3
    <3> QED  BY <2>2, <3>1, <1>1
  <2>4. CASE kind # list
    BY <2>2, <2>4
  <2> QED  BY <2>3, <2>4
<1> HIDE DEF Source
<1>7. InLists(after) = InLists(lists) \ {lists[list][i].obj}
  <2>1. ASSUME NEW o \in InLists(after)  PROVE o \in InLists(lists) /\ o # lists[list][i].obj
    <3> PICK kind \in Lists : \E j \in 1 .. Len(after[kind]) : after[kind][j].obj = o
      BY DEF InLists
    <3>1. PICK j \in 1 .. Len(after[kind]) : after[kind][j].obj = o
      OBVIOUS
    <3>2. /\ Source(kind, j) \in 1 .. Len(lists[kind]) /\ ~(kind = list /\ Source(kind, j) = i)
          /\ lists[kind][Source(kind, j)].obj = o
      BY <3>1, <1>4
    <3>3. o # lists[list][i].obj
      BY <3>2, <1>1 DEF Apart
    <3> QED  BY <3>2, <3>3, EntryType
  <2>2. ASSUME NEW o \in InLists(lists), o # lists[list][i].obj  PROVE o \in InLists(after)
    <3> PICK kind \in Lists : \E j \in 1 .. Len(lists[kind]) : lists[kind][j].obj = o
      BY DEF InLists
    <3>1. PICK j \in 1 .. Len(lists[kind]) : lists[kind][j].obj = o
      OBVIOUS
    <3>2. PICK m \in 1 .. Len(after[kind]) : after[kind][m] = lists[kind][j]
      BY <3>1, <2>2, <1>5
    <3> QED  BY <3>1, <3>2, <1>3, EntryType
  <2> QED  BY <2>1, <2>2
<1>8. ASSUME NEW kind \in Lists, NEW j \in 1 .. Len(lists[kind]), lists[kind][j].obj # lists[list][i].obj
      PROVE  \E m \in 1 .. Len(after[kind]) : m <= j /\ after[kind][m].obj = lists[kind][j].obj
  BY <1>5, <1>8
<1>9. after = Without(lists, list, i)
  BY DEF after, t, Without
<1> QED  BY <1>3, <1>6, <1>7, <1>8, <1>9

(* One that no list has is put at the end of one.                          *)
LEMMA AppendedApart ==
  ASSUME NEW lists \in [Lists -> Seq(Entries)], Apart(lists), NEW list \in Lists,
         NEW e \in Entries, e.obj \notin InLists(lists)
  PROVE  LET after == With(lists, list, e)
         IN /\ after \in [Lists -> Seq(Entries)] /\ Apart(after)
            /\ InLists(after) = InLists(lists) \cup {e.obj}
            /\ \A kind \in Lists : \A j \in 1 .. Len(lists[kind]) :
                 j \in 1 .. Len(after[kind]) /\ after[kind][j] = lists[kind][j]
<1> DEFINE s == lists[list]
           n == Len(s)
           t == Append(s, e)
           after == [lists EXCEPT ![list] = t]
<1>1. s \in Seq(Entries) /\ n \in Nat
  OBVIOUS
<1>2. t \in Seq(Entries) /\ Len(t) = n + 1 /\ t[n + 1] = e /\ \A j \in 1 .. n : t[j] = s[j]
  <2> HIDE DEF s
  <2> QED  BY <1>1
<1> HIDE DEF t
<1>3. after \in [Lists -> Seq(Entries)] /\ after[list] = t /\ \A kind \in Lists \ {list} : after[kind] = lists[kind]
  BY <1>2
<1> HIDE DEF after
<1>4. ASSUME NEW kind \in Lists, NEW j \in 1 .. Len(lists[kind])
      PROVE  j \in 1 .. Len(after[kind]) /\ after[kind][j] = lists[kind][j]
  BY <1>1, <1>2, <1>3
<1>5. ASSUME NEW kind \in Lists, NEW j \in 1 .. Len(after[kind])
      PROVE  \/ j \in 1 .. Len(lists[kind]) /\ after[kind][j] = lists[kind][j]
             \/ kind = list /\ j = n + 1 /\ after[kind][j] = e
  <2>1. CASE kind = list
    <3>1. j \in 1 .. n + 1 /\ after[kind][j] = t[j] /\ lists[kind] = s
      BY <2>1, <1>2, <1>3
    <3>2. j \in 1 .. n \/ j = n + 1
      BY <3>1, <1>1
    <3> QED  BY <2>1, <3>1, <3>2, <1>2
  <2>2. CASE kind # list
    BY <2>2, <1>3
  <2> QED  BY <2>1, <2>2
<1>6. Apart(after)
  <2> SUFFICES ASSUME NEW kind \in Lists, NEW other \in Lists,
                      NEW j \in 1 .. Len(after[kind]), NEW m \in 1 .. Len(after[other]),
                      after[kind][j].obj = after[other][m].obj
               PROVE  kind = other /\ j = m
    BY DEF Apart
  <2>1. CASE j \in 1 .. Len(lists[kind]) /\ after[kind][j] = lists[kind][j]
    <3>1. after[kind][j].obj # e.obj
      BY <2>1, EntryType
    <3>2. m \in 1 .. Len(lists[other]) /\ after[other][m] = lists[other][m]
      BY <3>1, <1>5
    <3> QED  BY <2>1, <3>2 DEF Apart
  <2>2. CASE kind = list /\ j = n + 1 /\ after[kind][j] = e
    <3>1. ~(m \in 1 .. Len(lists[other]) /\ after[other][m] = lists[other][m])
      BY <2>2, EntryType
    <3>2. other = list /\ m = n + 1
      BY <3>1, <1>5
    <3> QED  BY <2>2, <3>2
  <2> QED  BY <2>1, <2>2, <1>5
<1>7. InLists(after) = InLists(lists) \cup {e.obj}
  <2>1. ASSUME NEW o \in InLists(after)  PROVE o \in InLists(lists) \/ o = e.obj
    <3> PICK kind \in Lists : \E j \in 1 .. Len(after[kind]) : after[kind][j].obj = o
      BY DEF InLists
    <3>1. PICK j \in 1 .. Len(after[kind]) : after[kind][j].obj = o
      OBVIOUS
    <3>2. CASE j \in 1 .. Len(lists[kind]) /\ after[kind][j] = lists[kind][j]
      BY <3>1, <3>2, EntryType
    <3>3. CASE after[kind][j] = e
      BY <3>1, <3>3
    <3> QED  BY <3>2, <3>3, <1>5
  <2>2. ASSUME NEW o \in InLists(lists)  PROVE o \in InLists(after)
    <3> PICK kind \in Lists : \E j \in 1 .. Len(lists[kind]) : lists[kind][j].obj = o
      BY DEF InLists
    <3>1. PICK j \in 1 .. Len(lists[kind]) : lists[kind][j].obj = o
      OBVIOUS
    <3> QED  BY <3>1, <1>3, <1>4, EntryType
  <2>3. e.obj \in InLists(after)
    <3>1. n + 1 \in 1 .. Len(after[list]) /\ after[list][n + 1] = e
      BY <1>1, <1>2, <1>3
    <3> QED  BY <3>1, <1>3, EntryType
  <2> QED  BY <2>1, <2>2, <2>3
<1>9. after = With(lists, list, e)
  BY DEF after, t, With
<1> QED  BY <1>3, <1>4, <1>6, <1>7, <1>9

LEMMA SameApart ==
  ASSUME NEW lists \in [Lists -> Seq(Entries)], NEW after \in [Lists -> Seq(Entries)], Apart(lists),
         \A list \in Lists :
           /\ Len(after[list]) = Len(lists[list])
           /\ \A i \in 1 .. Len(lists[list]) : after[list][i].obj = lists[list][i].obj
  PROVE  Apart(after) /\ InLists(after) = InLists(lists)
<1>1. \A list \in Lists : 1 .. Len(after[list]) = 1 .. Len(lists[list])
  OBVIOUS
<1>2. Apart(after)
  BY <1>1 DEF Apart
<1>3. InLists(after) = InLists(lists)
  BY <1>1 DEF InLists
<1> QED  BY <1>2, <1>3

-----------------------------------------------------------------------------
(* The collector.                                                          *)
Phases == {"clearCounters", "buildMap", "countReferences", "detectGarbage_init",
           "detectGarbage_loop1", "detectGarbage_loop2", "verifyUnmarked",
           "breakCircles", "breakCircles_haveGarbage"}
Cycles == [phase : {"no", "detect", "destroyNew", "destroyOld"}, doDetect : BOOLEAN,
           doDestroy : BOOLEAN, count : Nat]
Sweeps == [state : {"init", "loop", "haveMore"}, at : Nat]
Maps == UNION {[S -> Int] : S \in SUBSET Objects}
Collectors ==
  [heap : Heaps, lists : [Lists -> Seq(Entries)], sweep : [Lists -> Sweeps],
   detect : Phases, detectIdx : Nat, map : Maps, cursor : Objects \cup {Null},
   live : Seq(Objects), full : Cycles, ret : {0, 1}, use : Uses]

(* A collector that fits its heap.  X is what it is about to list; between *)
(* two steps the map holds what was listed before detectIdx, in the order  *)
(* of the old list.                                                        *)
InOrder(g) ==
  \A o \in DOMAIN g.map : \E i \in 1 .. Len(g.lists["old"]) :
    i <= g.detectIdx /\ g.lists["old"][i].obj = o
Sound(g, X) ==
  /\ g \in Collectors
  /\ Apart(g.lists) /\ X \cap InLists(g.lists) = {}
  /\ Exact(g.heap, InLists(g.lists) \cup X, DOMAIN g.map)
  /\ g.cursor \in DOMAIN g.map \cup {Null}
Resting(g) ==
  /\ g.detect \in {"clearCounters", "buildMap", "detectGarbage_loop2"} => g.cursor = Null
  /\ g.detect # "breakCircles"
  /\ g.detect = "buildMap" => InOrder(g)
Fit(g, X) == Sound(g, X) /\ Resting(g)

LEMMA FitType ==
  ASSUME NEW g \in Collectors
  PROVE  /\ g.heap \in Heaps /\ g.lists \in [Lists -> Seq(Entries)] /\ g.sweep \in [Lists -> Sweeps]
         /\ g.detect \in Phases /\ g.detectIdx \in Nat /\ g.map \in Maps
         /\ g.cursor \in Objects \cup {Null} /\ g.live \in Seq(Objects)
         /\ g.full \in Cycles /\ g.ret \in {0, 1} /\ g.use \in Uses
BY DEF Collectors

(* What a sweep does not touch. *)
Swept(g, k) ==
  /\ k.detect = g.detect /\ k.detectIdx = g.detectIdx /\ k.map = g.map /\ k.cursor = g.cursor
  /\ k.live = g.live /\ k.full = g.full /\ k.use = g.use
  /\ Steady(g.heap, k.heap) /\ Untorn(g.heap, k.heap)

LEMMA SweptSelf == ASSUME NEW g  PROVE Swept(g, g)
BY SteadySelf DEF Swept, Untorn

LEMMA SweptTwice ==
  ASSUME NEW g, NEW k, NEW l, Swept(g, k), Swept(k, l)  PROVE Swept(g, l)
<1>1. Steady(g.heap, l.heap)
  BY SteadyTwice DEF Swept
<1>2. Untorn(g.heap, l.heap)
  BY DEF Swept, Untorn
<1> QED  BY <1>1, <1>2 DEF Swept

(* Fitting again, when the lists keep the order of the old objects.        *)
OldKept(lists, after, S) ==
  \A j \in 1 .. Len(lists["old"]) : lists["old"][j].obj \in S =>
    \E m \in 1 .. Len(after["old"]) : m <= j /\ after["old"][m].obj = lists["old"][j].obj

LEMMA StillFit ==
  ASSUME NEW g, NEW k, NEW X, Fit(g, X), k \in Collectors, Swept(g, k),
         Apart(k.lists), X \cap InLists(k.lists) = {},
         Exact(k.heap, InLists(k.lists) \cup X, DOMAIN k.map),
         OldKept(g.lists, k.lists, DOMAIN g.map)
  PROVE  Fit(k, X)
<1>1. k.detect = g.detect /\ k.detectIdx = g.detectIdx /\ k.map = g.map /\ k.cursor = g.cursor
  BY DEF Swept
<1>2. ASSUME g.detect = "buildMap", NEW o \in DOMAIN g.map
      PROVE  \E i \in 1 .. Len(k.lists["old"]) : i <= g.detectIdx /\ k.lists["old"][i].obj = o
  <2>1. PICK j \in 1 .. Len(g.lists["old"]) : j <= g.detectIdx /\ g.lists["old"][j].obj = o
    BY <1>2 DEF Fit, Sound, Resting, InOrder
  <2>2. PICK m \in 1 .. Len(k.lists["old"]) : m <= j /\ k.lists["old"][m].obj = o
    BY <1>2, <2>1 DEF OldKept
  <2>3. g.detectIdx \in Nat
    BY FitType DEF Fit, Sound, Resting, InOrder
  <2>4. m <= g.detectIdx
    BY <2>1, <2>2, <2>3
  <2> QED  BY <2>2, <2>4
<1> QED  BY <1>1, <1>2 DEF Fit, Sound, Resting, InOrder

LEMMA CollectsFit ==
  ASSUME NEW g, NEW X, Fit(g, X), NEW list \in Lists, NEW i \in 1 .. Len(g.lists[list]),
         g.heap[g.lists[list][i].obj].rc = 1
  PROVE  LET k == Collect(g, list, i) IN Fit(k, X) /\ Swept(g, k)
<1> DEFINE k == Collect(g, list, i)
           o == g.lists[list][i].obj
           h == ObjRelease(g.heap, o)
           L == InLists(g.lists) \cup X
           lists == Without(g.lists, list, i)
<1>1. /\ g \in Collectors /\ g.heap \in Heaps /\ g.lists \in [Lists -> Seq(Entries)] /\ g.sweep \in [Lists -> Sweeps]
      /\ Exact(g.heap, L, DOMAIN g.map) /\ Apart(g.lists)
  BY FitType DEF Fit, Sound, Resting, InOrder
<1>2. o \in InLists(g.lists) /\ o \in L /\ o \in Objects
  BY <1>1, EntryType
<1>3. i \in Nat /\ i - 1 \in Nat /\ g.heap[o].rc = 1
  BY <1>1
<1>4. o \notin DOMAIN g.map /\ o \notin X
  <2>1. o \notin X
    BY <1>2 DEF Fit, Sound, Resting, InOrder
  <2> QED  BY <2>1, <1>1, <1>2, <1>3, ExactGives
<1>5. /\ lists \in [Lists -> Seq(Entries)] /\ Apart(lists)
      /\ InLists(lists) = InLists(g.lists) \ {o}
      /\ \A kind \in Lists : \A j \in 1 .. Len(g.lists[kind]) : g.lists[kind][j].obj # o =>
           \E m \in 1 .. Len(lists[kind]) : m <= j /\ lists[kind][m].obj = g.lists[kind][j].obj
  BY <1>1, RemovedApart
<1>6. CASE o \notin Rising \/ g.heap[o].destructed
  <2>1. /\ h \in Heaps /\ h[o].rc = 0 /\ Exact(h, L \ {o}, DOMAIN g.map)
        /\ Steady(g.heap, h) /\ Untorn(g.heap, h)
    BY <1>1, <1>2, <1>3, <1>6, FreedExact
  <2>2. k = [g EXCEPT !.heap = h, !.lists[list] = RemoveObjectAtIdx(@, i),
                      !.sweep[list] = [state |-> "haveMore", at |-> i - 1]]
    BY <2>1 DEF Collect
  <2> DEFINE sweep == [g.sweep EXCEPT ![list] = [state |-> "haveMore", at |-> i - 1]]
  <2>3. sweep \in [Lists -> Sweeps]
    BY <1>1, <1>3 DEF Sweeps
  <2>4. k = [g EXCEPT !.heap = h, !.lists = lists, !.sweep = sweep]
    BY <2>2 DEF Without
  <2> HIDE DEF k, h, lists, sweep, L
  <2>5. k \in Collectors
    BY <1>1, <1>5, <2>1, <2>3, <2>4 DEF Collectors
  <2>6. k.heap = h /\ k.lists = lists /\ k.map = g.map
    BY <1>1, <2>4 DEF Collectors
  <2>7. Swept(g, k)
    BY <1>1, <2>1, <2>4, <2>6 DEF Collectors, Swept
  <2>8. Exact(k.heap, InLists(k.lists) \cup X, DOMAIN k.map)
    <3>1. L \ {o} = (InLists(g.lists) \ {o}) \cup X
      BY <1>4 DEF L
    <3> QED  BY <2>1, <2>6, <3>1, <1>5
  <2>9. X \cap InLists(k.lists) = {}
    BY <2>6, <1>5 DEF Fit, Sound, Resting, InOrder
  <2>10. OldKept(g.lists, k.lists, DOMAIN g.map)
    BY <2>6, <1>4, <1>5 DEF OldKept, Lists
  <2> QED  BY <2>5, <2>6, <2>7, <2>8, <2>9, <2>10, <1>5, StillFit DEF k
<1>7. CASE ~(o \notin Rising \/ g.heap[o].destructed)
  <2> DEFINE l == ObjAddRef(h, o)
             sweep == [g.sweep EXCEPT ![list] = [state |-> "haveMore", at |-> i]]
  <2>1. /\ h[o].rc # 0 /\ l \in Heaps /\ Exact(l, L, DOMAIN g.map)
        /\ Steady(g.heap, l) /\ Untorn(g.heap, l)
    BY <1>1, <1>2, <1>3, <1>7, Rises
  <2>2. k = [g EXCEPT !.heap = l, !.sweep = sweep]
    BY <2>1 DEF Collect
  <2>3. sweep \in [Lists -> Sweeps]
    BY <1>1, <1>3 DEF Sweeps
  <2> HIDE DEF k, l, h, lists, sweep, L
  <2>4. k \in Collectors
    BY <1>1, <2>1, <2>2, <2>3 DEF Collectors
  <2>5. k.heap = l /\ k.lists = g.lists /\ k.map = g.map
    BY <1>1, <2>2 DEF Collectors
  <2>6. Swept(g, k)
    BY <1>1, <2>1, <2>2, <2>5 DEF Collectors, Swept
  <2>7. OldKept(g.lists, k.lists, DOMAIN g.map)
    <3>1. \A j \in 1 .. Len(g.lists["old"]) : j <= j
      OBVIOUS
    <3> QED  BY <2>5, <3>1 DEF OldKept
  <2>8. Exact(k.heap, InLists(k.lists) \cup X, DOMAIN k.map)
    BY <2>1, <2>5 DEF L
  <2>9. X \cap InLists(k.lists) = {}
    BY <2>5 DEF Fit, Sound, Resting, InOrder
  <2> QED  BY <2>4, <2>5, <2>6, <2>7, <2>8, <2>9, <1>1, StillFit DEF k
<1> QED  BY <1>6, <1>7

(* Values a step returns, and where the sweep is, matter to none of this.  *)
Likewise(g, k) ==
  /\ k.heap = g.heap /\ k.lists = g.lists /\ k.detect = g.detect /\ k.detectIdx = g.detectIdx
  /\ k.map = g.map /\ k.cursor = g.cursor /\ k.live = g.live /\ k.full = g.full /\ k.use = g.use

LEMMA LikewiseFit ==
  ASSUME NEW g, NEW k, NEW X, Fit(g, X), k \in Collectors, Likewise(g, k)
  PROVE  Fit(k, X) /\ Swept(g, k)
<1>1. Swept(g, k)
  BY SteadySelf DEF Likewise, Swept, Untorn
<1> QED  BY <1>1 DEF Fit, Sound, Resting, InOrder, Likewise

LEMMA InspectsFit ==
  ASSUME NEW g, NEW X, Fit(g, X), NEW list \in Lists, g.sweep[list].at < Len(g.lists[list])
  PROVE  LET k == Inspect(g, list) IN Fit(k, X) /\ Swept(g, k)
<1> DEFINE i == g.sweep[list].at + 1
           e == g.lists[list][i]
           n == [g EXCEPT !.ret = 1]
           k == Inspect(g, list)
<1>1. /\ g \in Collectors /\ g.heap \in Heaps /\ g.lists \in [Lists -> Seq(Entries)] /\ g.sweep \in [Lists -> Sweeps]
      /\ Exact(g.heap, InLists(g.lists) \cup X, DOMAIN g.map) /\ Apart(g.lists)
  BY FitType DEF Fit, Sound, Resting, InOrder
<1>2. g.sweep[list].at \in Nat /\ i \in 1 .. Len(g.lists[list])
  <2>1. g.sweep[list] \in Sweeps /\ Len(g.lists[list]) \in Nat
    BY <1>1
  <2>2. g.sweep[list].at \in Nat
    BY <2>1 DEF Sweeps
  <2> QED  BY <2>1, <2>2
<1>3. n \in Collectors /\ Likewise(g, n) /\ n.lists = g.lists /\ n.heap = g.heap /\ n.sweep = g.sweep
  BY <1>1 DEF Collectors, Likewise
<1>4. Fit(n, X) /\ Swept(g, n)
  BY <1>3, LikewiseFit
<1>5. k = IF g.heap[e.obj].rc = 1 THEN Collect(n, list, i)
          ELSE IF list = "new" /\ e.sweeps = 3
          THEN [n EXCEPT !.lists = Aged(@, i)]
          ELSE [n EXCEPT !.sweep[list].at = i]
  BY DEF Inspect
<1> HIDE DEF n, k, i
<1>6. CASE g.heap[e.obj].rc = 1
  <2>1. k = Collect(n, list, i)
    BY <1>5, <1>6
  <2>2. Fit(k, X) /\ Swept(n, k)
    BY <1>2, <1>3, <1>4, <1>6, <2>1, CollectsFit
  <2> QED  BY <2>2, <1>4, SweptTwice DEF k
<1>7. CASE g.heap[e.obj].rc # 1 /\ list = "new" /\ e.sweeps = 3
  <2> DEFINE fewer == Without(g.lists, "new", i)
             lists == With(fewer, "old", e)
             o == e.obj
  <2>1. e \in Entries /\ o \in InLists(g.lists) /\ "new" \in Lists /\ "old" \in Lists
    BY <1>1, <1>2, EntryType DEF Lists
  <2>2. fewer \in [Lists -> Seq(Entries)] /\ Apart(fewer) /\ InLists(fewer) = InLists(g.lists) \ {o}
    BY <1>1, <1>2, <1>7, RemovedApart
  <2>3. /\ lists \in [Lists -> Seq(Entries)] /\ Apart(lists) /\ InLists(lists) = InLists(fewer) \cup {o}
        /\ \A kind \in Lists : \A j \in 1 .. Len(fewer[kind]) :
             j \in 1 .. Len(lists[kind]) /\ lists[kind][j] = fewer[kind][j]
    <3>1. e.obj \notin InLists(fewer)
      BY <2>2
    <3> HIDE DEF fewer, e
    <3>2. LET after == With(fewer, "old", e)
          IN /\ after \in [Lists -> Seq(Entries)] /\ Apart(after)
             /\ InLists(after) = InLists(fewer) \cup {e.obj}
             /\ \A kind \in Lists : \A j \in 1 .. Len(fewer[kind]) :
                  j \in 1 .. Len(after[kind]) /\ after[kind][j] = fewer[kind][j]
      <4>1. fewer \in [Lists -> Seq(Entries)] /\ Apart(fewer) /\ "old" \in Lists /\ e \in Entries
        BY <2>1, <2>2
      <4> QED  BY <3>1, <4>1, AppendedApart, Zenon
    <3> QED  BY <3>2
  <2>4. fewer["old"] = g.lists["old"]
    BY <1>1, <2>1 DEF Without
  <2>5. k = [n EXCEPT !.lists = lists]
    <3>1. k = [n EXCEPT !.lists = Aged(g.lists, i)]
      BY <1>3, <1>5, <1>7
    <3>2. e = g.lists["new"][i]
      BY <1>7
    <3> HIDE DEF e
    <3>3. Aged(g.lists, i) = lists
      BY <1>1, <2>1, <3>2 DEF With, Without, Aged
    <3> QED  BY <3>1, <3>3
  <2> HIDE DEF lists
  <2>6. k \in Collectors /\ k.lists = lists /\ k.heap = g.heap /\ k.map = g.map
    BY <1>3, <2>3, <2>5 DEF Collectors, Likewise
  <2>7. Swept(g, k)
    BY <1>3, <2>5, <2>6, SteadySelf DEF Collectors, Likewise, Swept, Untorn
  <2>8. InLists(k.lists) = InLists(g.lists)
    BY <2>1, <2>2, <2>3, <2>6
  <2>9. OldKept(g.lists, k.lists, DOMAIN g.map)
    <3>1. \A j \in 1 .. Len(g.lists["old"]) :
            j <= j /\ j \in 1 .. Len(lists["old"]) /\ lists["old"][j] = g.lists["old"][j]
      BY <2>1, <2>3, <2>4
    <3> QED  BY <3>1, <2>6 DEF OldKept
  <2>10. /\ Exact(k.heap, InLists(k.lists) \cup X, DOMAIN k.map)
         /\ X \cap InLists(k.lists) = {} /\ Apart(k.lists)
    BY <1>1, <2>3, <2>6, <2>8 DEF Fit, Sound, Resting, InOrder
  <2> QED  BY <2>6, <2>7, <2>9, <2>10, StillFit DEF k
<1>8. CASE g.heap[e.obj].rc # 1 /\ ~(list = "new" /\ e.sweeps = 3)
  <2>1. k = [n EXCEPT !.sweep[list].at = i]
    BY <1>5, <1>8
  <2>2. i \in Nat /\ n.sweep[list] \in Sweeps
    BY <1>1, <1>2, <1>3
  <2>3. [n.sweep EXCEPT ![list].at = i] \in [Lists -> Sweeps]
    BY <1>1, <1>3, <2>2 DEF Sweeps
  <2>4. k = [n EXCEPT !.sweep = [n.sweep EXCEPT ![list].at = i]]
    BY <2>1
  <2>5. k \in Collectors /\ Likewise(n, k)
    BY <1>3, <2>3, <2>4 DEF Collectors, Likewise
  <2>6. Fit(k, X) /\ Swept(n, k)
    BY <1>4, <2>5, LikewiseFit
  <2> QED  BY <2>6, <1>4, SweptTwice DEF k
<1> QED  BY <1>6, <1>7, <1>8

LEMMA StartsFit ==
  ASSUME NEW g, NEW X, Fit(g, X), NEW list \in Lists
  PROVE  LET k == StartSweep(g, list) IN Fit(k, X) /\ Swept(g, k)
<1> DEFINE s == g.lists[list]
           begun == [g EXCEPT !.sweep[list] = [state |-> "loop", at |-> 0]]
           k == StartSweep(g, list)
<1>1. /\ g \in Collectors /\ g.heap \in Heaps /\ g.lists \in [Lists -> Seq(Entries)] /\ g.sweep \in [Lists -> Sweeps]
      /\ s \in Seq(Entries) /\ Apart(g.lists)
  BY FitType DEF Fit, Sound, Resting, InOrder
<1>2. CASE s = <<>>
  <2> DEFINE sweep == [g.sweep EXCEPT ![list] = Unstarted]
  <2>1. k = [g EXCEPT !.sweep = sweep, !.ret = 0]
    BY <1>2 DEF StartSweep
  <2>2. sweep \in [Lists -> Sweeps]
    BY <1>1 DEF Sweeps, Unstarted
  <2> HIDE DEF sweep, k
  <2>3. k \in Collectors /\ Likewise(g, k)
    BY <1>1, <2>1, <2>2 DEF Collectors, Likewise
  <2> QED  BY <2>3, LikewiseFit DEF k
<1>3. CASE s # <<>>
  <2> DEFINE sweep == [g.sweep EXCEPT ![list] = [state |-> "loop", at |-> 0]]
             aged == [i \in DOMAIN g.lists["new"] |-> Older(g.lists["new"][i])]
             n == IF list = "old" THEN begun
                  ELSE [begun EXCEPT !.lists["new"] = [i \in DOMAIN @ |-> Older(@[i])]]
  <2>1. k = Inspect(n, list)
    BY <1>3 DEF StartSweep
  <2>2. sweep \in [Lists -> Sweeps] /\ sweep[list].at = 0
    BY <1>1 DEF Sweeps
  <2>3. begun = [g EXCEPT !.sweep = sweep]
    OBVIOUS
  <2> HIDE DEF sweep, begun
  <2>4. begun \in Collectors /\ Likewise(g, begun) /\ begun.lists = g.lists /\ begun.sweep = sweep
    BY <1>1, <2>2, <2>3 DEF Collectors, Likewise
  <2>5. Fit(begun, X) /\ Swept(g, begun)
    BY <2>4, LikewiseFit
  <2>6. /\ Fit(n, X) /\ Swept(g, n) /\ n.sweep = sweep /\ Len(n.lists[list]) = Len(s)
    <3>1. CASE list = "old"
      <4>1. n = begun
        BY <3>1
      <4> HIDE DEF n
      <4> QED  BY <4>1, <2>4, <2>5
    <3>2. CASE list # "old"
      <4>1. list = "new" /\ "new" \in Lists /\ "old" \in Lists
        BY <3>2 DEF Lists
      <4> DEFINE lists == [g.lists EXCEPT !["new"] = aged]
      <4>2. n = [begun EXCEPT !.lists = lists]
        BY <3>2, <2>4
      <4>3. aged \in Seq(Entries) /\ Len(aged) = Len(s) /\ \A i \in 1 .. Len(s) : aged[i].obj = s[i].obj
        <5> DEFINE t == g.lists["new"]
        <5>1. t \in Seq(Entries) /\ t = s
          BY <1>1, <4>1
        <5> HIDE DEF t
        <5>2. \A e \in Entries : Older(e) \in Entries /\ Older(e).obj = e.obj
          BY DEF Entries, Older
        <5>3. /\ [i \in DOMAIN t |-> Older(t[i])] \in Seq(Entries)
              /\ Len([i \in DOMAIN t |-> Older(t[i])]) = Len(t)
              /\ \A i \in 1 .. Len(t) : [j \in DOMAIN t |-> Older(t[j])][i].obj = t[i].obj
          BY <5>1, <5>2
        <5> QED  BY <5>1, <5>3 DEF t
      <4> HIDE DEF n, aged
      <4>4. lists \in [Lists -> Seq(Entries)] /\ lists["new"] = aged /\ lists["old"] = g.lists["old"]
        BY <1>1, <4>1, <4>3 DEF Lists
      <4> HIDE DEF lists
      <4>5. n \in Collectors /\ n.lists = lists /\ n.sweep = sweep /\ n.heap = g.heap /\ n.map = g.map
        BY <2>4, <4>2, <4>4 DEF Collectors, Likewise
      <4>6. Swept(g, n)
        <5>1. Swept(begun, n)
          BY <2>4, <4>2, <4>5, SteadySelf DEF Collectors, Likewise, Swept, Untorn
        <5> QED  BY <5>1, <2>5, SweptTwice
      <4>7. Apart(lists) /\ InLists(lists) = InLists(g.lists)
        <5>1. ASSUME NEW kind \in Lists
              PROVE  /\ Len(lists[kind]) = Len(g.lists[kind])
                     /\ \A i \in 1 .. Len(g.lists[kind]) : lists[kind][i].obj = g.lists[kind][i].obj
          <6>1. CASE kind = "new"
            BY <6>1, <4>1, <4>3, <4>4
          <6>2. CASE kind = "old"
            BY <6>2, <4>4
          <6> QED  BY <6>1, <6>2 DEF Lists
        <5> QED  BY <5>1, <1>1, <4>4, SameApart
      <4>8. OldKept(g.lists, n.lists, DOMAIN g.map)
        <5>1. \A j \in 1 .. Len(g.lists["old"]) : j <= j
          OBVIOUS
        <5> QED  BY <5>1, <4>4, <4>5 DEF OldKept
      <4>9. Fit(n, X)
        <5>1. /\ Exact(n.heap, InLists(n.lists) \cup X, DOMAIN n.map)
              /\ X \cap InLists(n.lists) = {} /\ Apart(n.lists)
          BY <4>5, <4>7 DEF Fit, Sound, Resting, InOrder
        <5> QED  BY <5>1, <4>5, <4>6, <4>8, StillFit
      <4> QED  BY <4>1, <4>3, <4>4, <4>5, <4>6, <4>9
    <3> QED  BY <3>1, <3>2
  <2> HIDE DEF n, k
  <2>7. n.sweep[list].at < Len(n.lists[list])
    <3>1. Len(s) \in Nat /\ Len(s) # 0
      BY <1>1, <1>3
    <3> QED  BY <3>1, <2>2, <2>6
  <2>8. Fit(k, X) /\ Swept(n, k)
    BY <2>1, <2>6, <2>7, InspectsFit
  <2> QED  BY <2>8, <2>6, SweptTwice DEF k
<1> QED  BY <1>2, <1>3

LEMMA DestroysFit ==
  ASSUME NEW g, NEW X, Fit(g, X), NEW list \in Lists
  PROVE  LET k == DestroyGarbage(g, list) IN Fit(k, X) /\ Swept(g, k)
<1> DEFINE s == g.sweep[list]
           over == s.at >= Len(g.lists[list])
           k == DestroyGarbage(g, list)
<1>1. g \in Collectors /\ g.lists \in [Lists -> Seq(Entries)] /\ g.sweep \in [Lists -> Sweeps]
  BY FitType DEF Fit, Sound, Resting, InOrder
<1>2. CASE s.state = "init" \/ (over /\ s.state = "haveMore")
  <2>1. k = StartSweep(g, list)
    BY <1>2 DEF DestroyGarbage
  <2> QED  BY <2>1, StartsFit
<1>3. CASE ~(s.state = "init" \/ (over /\ s.state = "haveMore")) /\ over
  <2> DEFINE sweep == [g.sweep EXCEPT ![list] = Unstarted]
  <2>1. k = [g EXCEPT !.sweep = sweep, !.ret = 0]
    BY <1>3 DEF DestroyGarbage
  <2>2. sweep \in [Lists -> Sweeps]
    BY <1>1 DEF Sweeps, Unstarted
  <2> HIDE DEF sweep, k
  <2>3. k \in Collectors /\ Likewise(g, k)
    BY <1>1, <2>1, <2>2 DEF Collectors, Likewise
  <2> QED  BY <2>3, LikewiseFit DEF k
<1>4. CASE ~(s.state = "init" \/ (over /\ s.state = "haveMore")) /\ ~over
  <2>1. k = Inspect(g, list)
    BY <1>4 DEF DestroyGarbage
  <2>2. s.at < Len(g.lists[list])
    <3>1. s \in Sweeps /\ Len(g.lists[list]) \in Nat
      BY <1>1
    <3>2. s.at \in Nat
      BY <3>1 DEF Sweeps
    <3> QED  BY <3>1, <3>2, <1>4
  <2> QED  BY <2>1, <2>2, InspectsFit
<1> QED  BY <1>2, <1>3, <1>4

-----------------------------------------------------------------------------
(* The detection.                                                          *)

LEMMA FitSound == ASSUME NEW g, NEW X, Fit(g, X)  PROVE Sound(g, X)
BY DEF Fit, Sound

LEMMA SoundType ==
  ASSUME NEW g, NEW X, Sound(g, X)
  PROVE  /\ g \in Collectors /\ g.heap \in Heaps /\ g.lists \in [Lists -> Seq(Entries)]
         /\ g.live \in Seq(Objects) /\ DOMAIN g.map \subseteq Objects /\ \A o \in DOMAIN g.map : g.map[o] \in Int
         /\ g.map = [o \in DOMAIN g.map |-> g.map[o]]
         /\ Exact(g.heap, InLists(g.lists) \cup X, DOMAIN g.map)
         /\ g.cursor # Null => g.cursor \in DOMAIN g.map
<1>1. g \in Collectors
  BY DEF Sound
<1>2. PICK S \in SUBSET Objects : g.map \in [S -> Int]
  BY <1>1, FitType DEF Maps
<1>3. DOMAIN g.map = S
  BY <1>2
<1> QED  BY <1>1, <1>2, <1>3, FitType DEF Sound

(* What the detection has passed. *)
Passed(g) ==
  IF g.cursor = Null THEN DOMAIN g.map ELSE {o \in DOMAIN g.map : o < g.cursor}

LEMMA NextIs ==
  ASSUME NEW g, DOMAIN g.map \subseteq Objects, g.cursor \in Objects \cup {Null}
  PROVE  LET n == NextInMap(g)
         IN /\ n \in DOMAIN g.map \cup {Null}
            /\ n = Null => \A o \in DOMAIN g.map : o <= g.cursor
            /\ n # Null => n > g.cursor /\ \A o \in DOMAIN g.map : o > g.cursor => n <= o
<1> DEFINE after == {o \in DOMAIN g.map : o > g.cursor}
           n == NextInMap(g)
<1>1. n = IF after = {} THEN Null ELSE CHOOSE o \in after : \A p \in after : o <= p
  BY DEF NextInMap
<1>2. DOMAIN g.map \subseteq Nat /\ g.cursor \in Nat /\ Null = 0 /\ Null \notin Objects
  <2>1. Objects \subseteq Nat /\ Null = 0 /\ Null \notin Objects
    BY GcAssumption DEF Null
  <2>2. DOMAIN g.map \subseteq Nat
    BY <2>1
  <2>3. g.cursor \in Nat
    <3>1. CASE g.cursor \in Objects
      BY <2>1, <3>1
    <3>2. CASE g.cursor = Null
      BY <2>1, <3>2
    <3> QED  BY <3>1, <3>2
  <2> QED  BY <2>1, <2>2, <2>3
<1>3. after \subseteq DOMAIN g.map /\ after \in SUBSET Nat
  BY <1>2
<1>4. after # {} => n \in after /\ \A p \in after : n <= p
  <2> SUFFICES ASSUME after # {}  PROVE n \in after /\ \A p \in after : n <= p
    OBVIOUS
  <2> HIDE DEF after
  <2>1. \E o \in after : \A p \in after : o <= p
    BY <1>3, LeastNat
  <2> QED  BY <1>1, <2>1
<1>5. CASE after = {}
  <2>1. \A o \in DOMAIN g.map : o <= g.cursor
    BY <1>2, <1>5
  <2> QED  BY <1>1, <1>5, <2>1
<1>6. CASE after # {}
  <2>1. n \in DOMAIN g.map /\ n > g.cursor /\ n # Null
    BY <1>2, <1>4, <1>6
  <2> HIDE DEF n
  <2>2. \A o \in DOMAIN g.map : o > g.cursor => n <= o
    BY <1>4, <1>6
  <2> QED  BY <2>1, <2>2 DEF n
<1> QED  BY <1>5, <1>6

LEMMA FirstPassed ==
  ASSUME NEW g, NEW X, Sound(g, X)
  PROVE  LET k == FirstInMap(g)
         IN /\ Sound(k, X) /\ Passed(k) = {}
            /\ k = [g EXCEPT !.cursor = k.cursor]
            /\ k.cursor = Null <=> DOMAIN g.map = {}
<1> DEFINE f == [g EXCEPT !.cursor = Null]
           n == NextInMap(f)
           k == FirstInMap(g)
           M == DOMAIN g.map
<1>1. g \in Collectors /\ M \subseteq Objects /\ M \subseteq Nat /\ Null \notin Objects /\ Null = 0
  BY SoundType, GcAssumption DEF Null
<1>2. f.cursor = Null /\ f.map = g.map
  BY <1>1 DEF Collectors
<1>3. k = [g EXCEPT !.cursor = n]
  BY DEF FirstInMap
<1> HIDE DEF f
<1>4. /\ n \in M \cup {Null}
      /\ n = Null => \A o \in M : o <= Null
      /\ n # Null => n > Null /\ \A o \in M : o > Null => n <= o
  BY <1>1, <1>2, NextIs
<1> HIDE DEF n, k
<1>5. /\ k \in Collectors /\ k.heap = g.heap /\ k.lists = g.lists /\ k.map = g.map /\ k.cursor = n
  BY <1>1, <1>3, <1>4 DEF Collectors
<1>6. n = Null <=> M = {}
  BY <1>1, <1>4
<1>7. Passed(k) = {}
  BY <1>1, <1>4, <1>5, <1>6 DEF Passed
<1>8. Sound(k, X)
  BY <1>4, <1>5 DEF Sound
<1> QED  BY <1>3, <1>5, <1>6, <1>7, <1>8 DEF k

LEMMA NextPassed ==
  ASSUME NEW g, NEW X, Sound(g, X), g.cursor # Null
  PROVE  LET n == NextInMap(g)
         IN /\ n \in DOMAIN g.map \cup {Null}
            /\ \A k : k.cursor = n /\ DOMAIN k.map = DOMAIN g.map => Passed(k) = Passed(g) \cup {g.cursor}
<1> DEFINE n == NextInMap(g)
           M == DOMAIN g.map
<1>1. M \subseteq Objects /\ M \subseteq Nat /\ g.cursor \in M /\ Null = 0 /\ Null \notin Objects
  BY SoundType, GcAssumption DEF Null
<1>2. /\ n \in M \cup {Null}
      /\ n = Null => \A o \in M : o <= g.cursor
      /\ n # Null => n > g.cursor /\ \A o \in M : o > g.cursor => n <= o
  BY <1>1, NextIs
<1> HIDE DEF n
<1>3. ASSUME NEW k, k.cursor = n, DOMAIN k.map = M
      PROVE  Passed(k) = Passed(g) \cup {g.cursor}
  <2>1. Passed(g) = {o \in M : o < g.cursor}
    BY DEF Passed
  <2>2. Passed(k) = IF n = Null THEN M ELSE {o \in M : o < n}
    BY <1>3 DEF Passed
  <2>3. ASSUME NEW o \in M  PROVE o \in Passed(k) <=> o \in Passed(g) \/ o = g.cursor
    <3>1. CASE n = Null
      BY <3>1, <2>1, <2>2, <1>1, <1>2
    <3>2. CASE n # Null
      BY <3>2, <2>1, <2>2, <1>1, <1>2
    <3> QED  BY <3>1, <3>2
  <2> QED  BY <2>1, <2>2, <2>3, <1>1
<1> QED  BY <1>2, <1>3 DEF n

Closed(h, M, o) == h[o].held = 0 /\ Referrers(h, o) \subseteq M
Counted(g, S) ==
  \A o \in DOMAIN g.map : g.heap[o].flag =>
    g.map[o] >= g.heap[o].held + Cardinality(Referrers(g.heap, o) \ S)
Unmarked(g) ==
  \A o \in DOMAIN g.map : g.heap[o].flag => g.map[o] > 0 \/ Closed(g.heap, DOMAIN g.map, o)
InLive(g) == {g.live[i] : i \in 1 .. Len(g.live)}
HalfMarked(g) ==
  \A o \in DOMAIN g.map : g.heap[o].flag =>
    \/ Closed(g.heap, DOMAIN g.map, o)
    \/ IF o \in Passed(g) THEN o \in InLive(g) ELSE g.map[o] > 0
Marked(g) ==
  \A o \in DOMAIN g.map : g.heap[o].flag => Closed(g.heap, DOMAIN g.map, o) \/ o \in InLive(g)
AllClosed(g) ==
  \A o \in DOMAIN g.map : g.heap[o].flag => Closed(g.heap, DOMAIN g.map, o)
Found(g, Q) ==
  \/ \E o \in DOMAIN g.map \ Passed(g) : ~g.heap[o].flag
  \/ DOMAIN g.map \cap Q = {}

Inside(g, Q) ==
  /\ g.detect = "buildMap" => Counted(g, {})
  /\ g.detect = "countReferences" => Counted(g, Passed(g))
  /\ g.detect = "detectGarbage_init" => Unmarked(g)
  /\ g.detect = "detectGarbage_loop1" => HalfMarked(g)
  /\ g.detect = "detectGarbage_loop2" => Marked(g)
  /\ g.detect = "verifyUnmarked" => AllClosed(g) /\ Found(g, Q)
  /\ g.detect = "breakCircles_haveGarbage" => DOMAIN g.map \cap Q = {}
(* The objects of a set that is referred to from within only, and that the *)
(* script left alone, are none of Q.                                       *)
Outside(h, Q) ==
  \A S \in SUBSET Objects :
    (\A o \in S : h[o].flag /\ Closed(h, S, o)) => S \cap Q = {}

(* A step of the detection from g to k: what it keeps and brings about.    *)
Told(g, k, X, Q) ==
  /\ Sound(k, X) /\ Resting(k) /\ Inside(k, Q)
  /\ k.lists = g.lists /\ k.full = g.full /\ k.use = g.use
  /\ \A o \in Objects : k.heap[o].torn => g.heap[o].torn \/ o \notin Q

LEMMA RestingFit ==
  ASSUME NEW g, NEW X  PROVE Sound(g, X) /\ Resting(g) => Fit(g, X)
BY DEF Fit

LEMMA ToldFrom ==
  ASSUME NEW g, NEW f, NEW k, NEW X, NEW Q, Told(f, k, X, Q),
         f.heap = g.heap, f.lists = g.lists, f.full = g.full, f.use = g.use
  PROVE  Told(g, k, X, Q)
BY DEF Told

MovedTo(g, n, d) == [g EXCEPT !.cursor = n, !.detect = d, !.ret = 1]

LEMMA CursorMoves ==
  ASSUME NEW g, NEW X, Sound(g, X), NEW n \in DOMAIN g.map \cup {Null}, NEW d \in Phases
  PROVE  LET k == MovedTo(g, n, d)
         IN /\ Sound(k, X) /\ k.cursor = n /\ k.detect = d
            /\ k.heap = g.heap /\ k.lists = g.lists /\ k.map = g.map /\ k.live = g.live
            /\ k.full = g.full /\ k.use = g.use /\ k.detectIdx = g.detectIdx
<1> DEFINE k == MovedTo(g, n, d)
<1>1. g \in Collectors /\ n \in Objects \cup {Null}
  BY SoundType
<1>2. /\ k \in Collectors /\ k.cursor = n /\ k.detect = d
      /\ k.heap = g.heap /\ k.lists = g.lists /\ k.map = g.map /\ k.live = g.live
      /\ k.full = g.full /\ k.use = g.use /\ k.detectIdx = g.detectIdx
  BY <1>1 DEF Collectors, MovedTo
<1> HIDE DEF k
<1>3. Sound(k, X)
  BY <1>2 DEF Sound
<1> QED  BY <1>2, <1>3 DEF k

LEMMA BreaksCircles ==
  ASSUME NEW g, NEW X, NEW Q, Sound(g, X), DOMAIN g.map \cap Q = {}
  PROVE  Told(g, BreakCircles(g), X, Q)
<1> DEFINE k == BreakCircles(g)
<1>1. /\ g \in Collectors /\ g.heap \in Heaps /\ DOMAIN g.map \subseteq Objects
      /\ Exact(g.heap, InLists(g.lists) \cup X, DOMAIN g.map)
  BY SoundType
<1>2. CASE g.cursor = Null
  <2>1. k = [g EXCEPT !.detect = "clearCounters",
                      !.ret = IF g.detect = "breakCircles_haveGarbage" THEN 1 ELSE 0]
    BY <1>2 DEF BreakCircles
  <2> HIDE DEF k
  <2>2. /\ k \in Collectors /\ k.cursor = Null /\ k.detect = "clearCounters"
        /\ k.heap = g.heap /\ k.lists = g.lists /\ k.map = g.map
        /\ k.full = g.full /\ k.use = g.use
    <3>1. (IF g.detect = "breakCircles_haveGarbage" THEN 1 ELSE 0) \in {0, 1}
      OBVIOUS
    <3>2. "clearCounters" \in Phases
      BY DEF Phases
    <3> QED  BY <1>1, <1>2, <2>1, <3>1, <3>2 DEF Collectors
  <2>3. Sound(k, X)
    BY <2>2 DEF Sound
  <2> QED  BY <2>2, <2>3 DEF k, Told, Resting, Inside
<1>3. CASE g.cursor # Null
  <2> DEFINE o == g.cursor
             h == ReleaseAllHandles(CallDestructor(g.heap, o), o)
             n == NextInMap(g)
  <2>1. o \in DOMAIN g.map /\ o \in Objects
    BY <1>1, <1>3 DEF Sound
  <2>2. k = [g EXCEPT !.heap = h, !.cursor = n, !.detect = "breakCircles_haveGarbage", !.ret = 1]
    BY <1>3 DEF BreakCircles
  <2>3. /\ h \in Heaps /\ Exact(h, InLists(g.lists) \cup X, DOMAIN g.map)
        /\ \A x \in Objects : h[x].torn => g.heap[x].torn \/ x = o
    <3>1. o \in InLists(g.lists) \cup X
      BY <1>1, <2>1, ExactGives
    <3> QED  BY <1>1, <3>1, TearsHandles
  <2>4. n \in DOMAIN g.map \cup {Null}
    BY <1>3, NextPassed
  <2> HIDE DEF k, h, n
  <2>5. /\ k \in Collectors /\ k.cursor = n /\ k.detect = "breakCircles_haveGarbage"
        /\ k.heap = h /\ k.lists = g.lists /\ k.map = g.map
        /\ k.full = g.full /\ k.use = g.use
    <3>1. "breakCircles_haveGarbage" \in Phases /\ n \in Objects \cup {Null}
      BY <1>1, <2>4 DEF Phases
    <3> QED  BY <1>1, <2>2, <2>3, <3>1 DEF Collectors
  <2>6. Sound(k, X)
    BY <2>3, <2>4, <2>5 DEF Sound
  <2>7. \A x \in Objects : k.heap[x].torn => g.heap[x].torn \/ x \notin Q
    BY <2>1, <2>3, <2>5
  <2> QED  BY <2>5, <2>6, <2>7 DEF k, Told, Resting, Inside
<1> QED  BY <1>2, <1>3

LEMMA Verifies ==
  ASSUME NEW g, NEW X, NEW Q, Sound(g, X), AllClosed(g), Found(g, Q)
  PROVE  Told(g, VerifyUnmarked(g), X, Q)
<1> DEFINE k == VerifyUnmarked(g)
           M == DOMAIN g.map
<1>1. g \in Collectors
  BY SoundType
<1>2. CASE g.cursor = Null
  <2> DEFINE f == [g EXCEPT !.detect = "breakCircles"]
             r == FirstInMap(f)
  <2>1. k = BreakCircles(r)
    BY <1>2 DEF VerifyUnmarked
  <2>2. M \cap Q = {}
    BY <1>2 DEF Found, Passed
  <2>3. /\ f \in Collectors /\ f.cursor = g.cursor /\ f.heap = g.heap /\ f.lists = g.lists
        /\ f.map = g.map /\ f.full = g.full /\ f.use = g.use
    <3>1. "breakCircles" \in Phases
      BY DEF Phases
    <3> QED  BY <1>1, <3>1 DEF Collectors
  <2> HIDE DEF f
  <2>4. Sound(f, X)
    BY <2>3 DEF Sound
  <2>5. Sound(r, X) /\ r = [f EXCEPT !.cursor = r.cursor]
    BY <2>4, FirstPassed
  <2> HIDE DEF r
  <2>6. r.heap = g.heap /\ r.lists = g.lists /\ r.map = g.map /\ r.full = g.full /\ r.use = g.use
    BY <2>3, <2>5 DEF Collectors
  <2>7. Told(r, k, X, Q)
    BY <2>1, <2>2, <2>5, <2>6, BreaksCircles
  <2> QED  BY <2>6, <2>7, ToldFrom
<1>3. CASE g.cursor # Null /\ g.heap[g.cursor].flag
  <2> DEFINE n == NextInMap(g)
  <2>1. k = [g EXCEPT !.cursor = n, !.detect = "verifyUnmarked", !.ret = 1]
    BY <1>3 DEF VerifyUnmarked
  <2>2. /\ n \in M \cup {Null}
        /\ \A l : l.cursor = n /\ DOMAIN l.map = M => Passed(l) = Passed(g) \cup {g.cursor}
    BY <1>3, NextPassed
  <2> HIDE DEF n, k
  <2>3. /\ Sound(k, X) /\ k.cursor = n /\ k.detect = "verifyUnmarked"
        /\ k.heap = g.heap /\ k.lists = g.lists /\ k.map = g.map
        /\ k.full = g.full /\ k.use = g.use
    <3>1. k = MovedTo(g, n, "verifyUnmarked") /\ "verifyUnmarked" \in Phases
      BY <2>1 DEF MovedTo, Phases
    <3> QED  BY <2>2, <3>1, CursorMoves
  <2>4. AllClosed(k) /\ Found(k, Q)
    <3>1. AllClosed(k)
      BY <2>3 DEF AllClosed
    <3>2. Passed(k) = Passed(g) \cup {g.cursor}
      BY <2>2, <2>3
    <3>3. \A o \in M \ Passed(g) : ~g.heap[o].flag => o \in M \ Passed(k)
      BY <3>2, <1>3
    <3>4. Found(k, Q)
      BY <3>3, <2>3 DEF Found
    <3> QED  BY <3>1, <3>4
  <2> QED  BY <2>3, <2>4 DEF k, Told, Resting, Inside
<1>4. CASE g.cursor # Null /\ ~g.heap[g.cursor].flag
  <2>1. k = [g EXCEPT !.detect = "detectGarbage_init", !.ret = 1]
    BY <1>4 DEF VerifyUnmarked
  <2> HIDE DEF k
  <2>2. /\ k \in Collectors /\ k.cursor = g.cursor /\ k.detect = "detectGarbage_init"
        /\ k.heap = g.heap /\ k.lists = g.lists /\ k.map = g.map /\ k.full = g.full /\ k.use = g.use
    <3>1. "detectGarbage_init" \in Phases
      BY DEF Phases
    <3> QED  BY <1>1, <2>1, <3>1 DEF Collectors
  <2>3. Sound(k, X)
    BY <2>2 DEF Sound
  <2>4. Unmarked(k)
    BY <2>2 DEF AllClosed, Unmarked
  <2> QED  BY <2>2, <2>3, <2>4 DEF k, Told, Resting, Inside
<1> QED  BY <1>2, <1>3, <1>4

(* What the detection sets beside the cursor. *)
WithLive(g, s) == [g EXCEPT !.live = s]
Turned(g, d) == [g EXCEPT !.detect = d, !.ret = 1]

LEMMA LiveSet ==
  ASSUME NEW g, NEW X, Sound(g, X), NEW s \in Seq(Objects)
  PROVE  LET k == WithLive(g, s)
         IN /\ Sound(k, X) /\ k.live = s
            /\ k.heap = g.heap /\ k.lists = g.lists /\ k.map = g.map /\ k.cursor = g.cursor
            /\ k.detect = g.detect /\ k.full = g.full /\ k.use = g.use /\ k.detectIdx = g.detectIdx
<1> DEFINE k == WithLive(g, s)
<1>1. g \in Collectors
  BY SoundType
<1>2. /\ k \in Collectors /\ k.live = s
      /\ k.heap = g.heap /\ k.lists = g.lists /\ k.map = g.map /\ k.cursor = g.cursor
      /\ k.detect = g.detect /\ k.full = g.full /\ k.use = g.use /\ k.detectIdx = g.detectIdx
  BY <1>1 DEF Collectors, WithLive
<1> HIDE DEF k
<1>3. Sound(k, X)
  BY <1>2 DEF Sound
<1> QED  BY <1>2, <1>3 DEF k

LEMMA Turns ==
  ASSUME NEW g, NEW X, Sound(g, X), NEW d \in Phases
  PROVE  LET k == Turned(g, d)
         IN /\ Sound(k, X) /\ k.detect = d
            /\ k.heap = g.heap /\ k.lists = g.lists /\ k.map = g.map /\ k.cursor = g.cursor
            /\ k.live = g.live /\ k.full = g.full /\ k.use = g.use /\ k.detectIdx = g.detectIdx
<1> DEFINE k == Turned(g, d)
<1>1. g \in Collectors
  BY SoundType
<1>2. /\ k \in Collectors /\ k.detect = d
      /\ k.heap = g.heap /\ k.lists = g.lists /\ k.map = g.map /\ k.cursor = g.cursor
      /\ k.live = g.live /\ k.full = g.full /\ k.use = g.use /\ k.detectIdx = g.detectIdx
  BY <1>1 DEF Collectors, Turned
<1> HIDE DEF k
<1>3. Sound(k, X)
  BY <1>2 DEF Sound
<1> QED  BY <1>2, <1>3 DEF k

LEMMA LeavesAlone ==
  ASSUME NEW g, NEW X, Sound(g, X), g.cursor = Null, NEW o \in DOMAIN g.map
  PROVE  LET k == LeaveMap(g, o)
         IN /\ Sound(k, X) /\ DOMAIN k.map = DOMAIN g.map \ {o}
            /\ Steady(g.heap, k.heap) /\ Untorn(g.heap, k.heap)
            /\ k.lists = g.lists /\ k.cursor = Null /\ k.detect = g.detect
            /\ k.live = g.live /\ k.full = g.full /\ k.use = g.use /\ k.detectIdx = g.detectIdx
<1> DEFINE h == ObjRelease(g.heap, o)
           m == [p \in DOMAIN g.map \ {o} |-> g.map[p]]
           k == LeaveMap(g, o)
<1>1. /\ g \in Collectors /\ g.heap \in Heaps /\ DOMAIN g.map \subseteq Objects
      /\ \A p \in DOMAIN g.map : g.map[p] \in Int
      /\ Exact(g.heap, InLists(g.lists) \cup X, DOMAIN g.map)
  BY SoundType
<1>2. /\ h \in Heaps /\ Exact(h, InLists(g.lists) \cup X, DOMAIN g.map \ {o})
      /\ Steady(g.heap, h) /\ Untorn(g.heap, h)
  BY <1>1, LeavesMap
<1>3. m \in Maps /\ DOMAIN m = DOMAIN g.map \ {o}
  <2>1. m \in [DOMAIN g.map \ {o} -> Int] /\ DOMAIN g.map \ {o} \in SUBSET Objects
    BY <1>1
  <2> HIDE DEF m
  <2> QED  BY <2>1 DEF Maps
<1>4. k = [g EXCEPT !.map = m, !.heap = h]
  BY DEF LeaveMap
<1> HIDE DEF h, m, k
<1>5. /\ k \in Collectors /\ k.heap = h /\ k.map = m
      /\ k.lists = g.lists /\ k.cursor = Null /\ k.detect = g.detect
      /\ k.live = g.live /\ k.full = g.full /\ k.use = g.use /\ k.detectIdx = g.detectIdx
  BY <1>1, <1>2, <1>3, <1>4 DEF Collectors
<1>6. Sound(k, X)
  BY <1>2, <1>3, <1>5 DEF Sound
<1> QED  BY <1>2, <1>3, <1>5, <1>6 DEF k

LEMMA Pops ==
  ASSUME NEW T, NEW s \in Seq(T), s # <<>>
  PROVE  LET t == SubSeq(s, 1, Len(s) - 1)
         IN /\ t \in Seq(T) /\ s[Len(s)] \in T
            /\ \A i \in 1 .. Len(s) : s[i] = s[Len(s)] \/ \E j \in 1 .. Len(t) : t[j] = s[i]
<1> DEFINE n == Len(s)
           t == SubSeq(s, 1, n - 1)
<1>1. n \in Nat /\ n >= 1
  OBVIOUS
<1>2. t \in Seq(T) /\ Len(t) = n - 1 /\ \A j \in 1 .. n - 1 : t[j] = s[j]
  BY <1>1
<1>3. s[n] \in T
  BY <1>1
<1> HIDE DEF t
<1>4. ASSUME NEW i \in 1 .. n  PROVE s[i] = s[n] \/ \E j \in 1 .. Len(t) : t[j] = s[i]
  <2>1. CASE i = n
    BY <2>1
  <2>2. CASE i # n
    <3>1. i \in 1 .. n - 1
      BY <1>1, <2>2
    <3> QED  BY <1>2, <3>1
  <2> QED  BY <2>1, <2>2
<1> QED  BY <1>2, <1>3, <1>4 DEF t

LEMMA Appends ==
  ASSUME NEW T, NEW t \in Seq(T), NEW p \in T, NEW a, a = Append(t, p)
  PROVE  /\ a \in Seq(T) /\ \E j \in 1 .. Len(a) : a[j] = p
         /\ \A i \in 1 .. Len(t) : \E j \in 1 .. Len(a) : a[j] = t[i]
<1>1. a \in Seq(T) /\ Len(a) = Len(t) + 1 /\ Len(t) \in Nat /\ a[Len(t) + 1] = p
      /\ \A i \in 1 .. Len(t) : a[i] = t[i]
  OBVIOUS
<1>2. \A i \in 1 .. Len(t) : i \in 1 .. Len(a)
  BY <1>1
<1>3. Len(t) + 1 \in 1 .. Len(a)
  BY <1>1
<1> QED  BY <1>1, <1>2, <1>3

LEMMA EndsDetection ==
  ASSUME NEW g, NEW X, NEW Q, Sound(g, X), AllClosed(g), Outside(g.heap, Q)
  PROVE  Told(g, VerifyUnmarked(FirstInMap(g)), X, Q)
<1> DEFINE f == FirstInMap(g)
           M == DOMAIN g.map
<1>1. g \in Collectors /\ M \subseteq Objects
  BY SoundType
<1>2. Sound(f, X) /\ Passed(f) = {} /\ f = [g EXCEPT !.cursor = f.cursor]
  BY FirstPassed
<1> HIDE DEF f
<1>3. f.heap = g.heap /\ f.lists = g.lists /\ f.map = g.map /\ f.full = g.full /\ f.use = g.use
  BY <1>1, <1>2 DEF Collectors
<1>4. AllClosed(f)
  BY <1>3 DEF AllClosed
<1>5. (\A o \in M : g.heap[o].flag) => M \cap Q = {}
  BY <1>1 DEF AllClosed, Outside
<1>6. Found(f, Q)
  BY <1>2, <1>3, <1>5 DEF Found
<1>7. Told(f, VerifyUnmarked(f), X, Q)
  BY <1>2, <1>4, <1>6, Verifies
<1> QED  BY <1>3, <1>7, ToldFrom DEF f

LEMMA Spreads ==
  ASSUME NEW g, NEW X, NEW Q, Sound(g, X), g.cursor = Null, Marked(g), Outside(g.heap, Q)
  PROVE  Told(g, DetectGarbage2(g), X, Q)
<1> DEFINE k == DetectGarbage2(g)
           M == DOMAIN g.map
           s == g.live
           o == s[Len(s)]
           t == SubSeq(s, 1, Len(s) - 1)
           n == [g EXCEPT !.live = SubSeq(@, 1, Len(@) - 1)]
           left == LeaveMap(n, o)
           next == g.heap[o].next
           on == IF o \notin M THEN n
                 ELSE IF next \in DOMAIN left.map THEN [left EXCEPT !.live = Append(@, next)]
                 ELSE left
<1>1. /\ g \in Collectors /\ g.heap \in Heaps /\ s \in Seq(Objects) /\ M \subseteq Objects
  BY SoundType
<1>2. CASE s = <<>>
  <2>1. k = VerifyUnmarked(FirstInMap(g))
    BY <1>2 DEF DetectGarbage2
  <2>2. InLive(g) = {}
    BY <1>2 DEF InLive
  <2>3. AllClosed(g)
    BY <2>2 DEF AllClosed, Marked
  <2> QED  BY <2>1, <2>3, EndsDetection
<1>3. CASE s # <<>>
  <2>1. k = Turned(on, "detectGarbage_loop2")
    BY <1>3 DEF DetectGarbage2, Turned
  <2>2. /\ t \in Seq(Objects) /\ o \in Objects
        /\ \A i \in 1 .. Len(s) : s[i] = o \/ \E j \in 1 .. Len(t) : t[j] = s[i]
    BY <1>1, <1>3, Pops
  <2>3. n = WithLive(g, t)
    BY DEF WithLive
  <2> HIDE DEF n, t, o
  <2>4. /\ Sound(n, X) /\ n.live = t
        /\ n.heap = g.heap /\ n.lists = g.lists /\ n.map = g.map /\ n.cursor = Null
        /\ n.full = g.full /\ n.use = g.use
    BY <2>2, <2>3, LiveSet
  <2>5. "detectGarbage_loop2" \in Phases
    BY DEF Phases
  <2>6. \A x \in InLive(g) : x = o \/ \E j \in 1 .. Len(t) : t[j] = x
    BY <2>2 DEF InLive
  <2>7. CASE o \notin M
    <3>1. on = n
      BY <2>7
    <3>2. /\ Sound(k, X) /\ k.detect = "detectGarbage_loop2" /\ k.live = t
          /\ k.heap = g.heap /\ k.lists = g.lists /\ k.map = g.map /\ k.cursor = Null
          /\ k.full = g.full /\ k.use = g.use
      BY <2>1, <2>4, <2>5, <3>1, Turns
    <3> HIDE DEF k
    <3>3. Marked(k)
      BY <3>2, <2>6, <2>7 DEF Marked, InLive
    <3> QED  BY <3>2, <3>3 DEF k, Told, Resting, Inside
  <2>8. CASE o \in M
    <3>1. /\ Sound(left, X) /\ DOMAIN left.map = M \ {o}
          /\ Steady(g.heap, left.heap) /\ Untorn(g.heap, left.heap)
          /\ left.lists = g.lists /\ left.cursor = Null /\ left.live = t
          /\ left.full = g.full /\ left.use = g.use
      BY <2>4, <2>8, LeavesAlone
    <3> HIDE DEF left
    <3>2. /\ Sound(on, X) /\ on.map = left.map /\ on.heap = left.heap /\ on.cursor = Null
          /\ on.lists = g.lists /\ on.full = g.full /\ on.use = g.use
          /\ \A i \in 1 .. Len(t) : \E j \in 1 .. Len(on.live) : on.live[j] = t[i]
          /\ next \in M \ {o} => \E j \in 1 .. Len(on.live) : on.live[j] = next
      <4>1. CASE next \in M \ {o}
        <5> DEFINE a == Append(t, next)
        <5>1. next \in Objects
          BY <1>1, <4>1
        <5>2. /\ a \in Seq(Objects) /\ \E j \in 1 .. Len(a) : a[j] = next
              /\ \A i \in 1 .. Len(t) : \E j \in 1 .. Len(a) : a[j] = t[i]
          <6> HIDE DEF next
          <6>1. t \in Seq(Objects) /\ a = Append(t, next)
            BY <2>2
          <6> HIDE DEF a
          <6> QED  BY <5>1, <6>1, Appends
        <5>3. on = WithLive(left, a)
          BY <2>8, <3>1, <4>1 DEF WithLive
        <5> HIDE DEF a, on
        <5> QED  BY <3>1, <5>2, <5>3, LiveSet
      <4>2. CASE next \notin M \ {o}
        <5>1. on = left
          BY <2>8, <3>1, <4>2
        <5> HIDE DEF on
        <5>2. \A i \in 1 .. Len(t) : t[i] = t[i]
          OBVIOUS
        <5> QED  BY <3>1, <5>1, <5>2, <4>2
      <4> QED  BY <4>1, <4>2
    <3> HIDE DEF on
    <3>3. /\ Sound(k, X) /\ k.detect = "detectGarbage_loop2" /\ k.live = on.live
          /\ k.heap = left.heap /\ k.lists = g.lists /\ k.map = left.map /\ k.cursor = Null
          /\ k.full = g.full /\ k.use = g.use
      BY <2>1, <2>5, <3>2, Turns
    <3> HIDE DEF k
    <3>4. ASSUME NEW x \in M \ {o}, left.heap[x].flag
          PROVE  Closed(left.heap, M \ {o}, x) \/ x \in InLive(k)
      <4>1. /\ g.heap[x].flag /\ left.heap[x].held = g.heap[x].held
            /\ Referrers(left.heap, x) = Referrers(g.heap, x)
        BY <1>1, <3>1, <3>4 DEF Steady
      <4>2. CASE x \in InLive(g)
        <5>1. x \in InLive(g) /\ x # o
          BY <4>2
        <5>2. PICK j \in 1 .. Len(t) : t[j] = x
          BY <5>1, <2>6
        <5>3. \E i \in 1 .. Len(on.live) : on.live[i] = x
          BY <5>2, <3>2
        <5> QED  BY <5>3, <3>3 DEF InLive
      <4>3. CASE Closed(g.heap, M, x) /\ o \in Referrers(g.heap, x)
        <5>1. next = x
          BY <4>3 DEF Referrers
        <5> QED  BY <5>1, <3>2, <3>3 DEF InLive
      <4>4. CASE Closed(g.heap, M, x) /\ o \notin Referrers(g.heap, x)
        BY <4>1, <4>4 DEF Closed
      <4> QED  BY <4>1, <4>2, <4>3, <4>4 DEF Marked
    <3>5. Marked(k)
      BY <3>1, <3>3, <3>4 DEF Marked
    <3>6. \A x \in Objects : k.heap[x].torn => g.heap[x].torn
      BY <3>1, <3>3 DEF Untorn
    <3> QED  BY <3>3, <3>5, <3>6 DEF k, Told, Resting, Inside
  <2> QED  BY <2>7, <2>8
<1> QED  BY <1>2, <1>3

LEMMA FindsLive ==
  ASSUME NEW g, NEW X, NEW Q, Sound(g, X), HalfMarked(g), Outside(g.heap, Q)
  PROVE  Told(g, DetectGarbage1(g), X, Q)
<1> DEFINE k == DetectGarbage1(g)
           M == DOMAIN g.map
           c == g.cursor
<1>1. /\ g \in Collectors /\ g.live \in Seq(Objects) /\ M \subseteq Objects
      /\ c # Null => c \in M
  BY SoundType
<1>2. CASE c = Null
  <2>1. k = DetectGarbage2(g)
    BY <1>2 DEF DetectGarbage1
  <2>2. Marked(g)
    BY <1>2 DEF Marked, HalfMarked, Passed
  <2> QED  BY <1>2, <2>1, <2>2, Spreads
<1>3. CASE c # Null
  <2> DEFINE s == IF Alive(g, c) THEN Append(g.live, c) ELSE g.live
             f == WithLive(g, s)
             n == NextInMap(g)
  <2>1. k = MovedTo(f, n, "detectGarbage_loop1")
    BY <1>3 DEF DetectGarbage1, MovedTo, WithLive
  <2>2. /\ n \in M \cup {Null}
        /\ \A l : l.cursor = n /\ DOMAIN l.map = M => Passed(l) = Passed(g) \cup {c}
    BY <1>3, NextPassed
  <2>3. /\ s \in Seq(Objects)
        /\ \A i \in 1 .. Len(g.live) : \E j \in 1 .. Len(s) : s[j] = g.live[i]
        /\ Alive(g, c) => \E j \in 1 .. Len(s) : s[j] = c
    <3>1. c \in Objects
      BY <1>1, <1>3
    <3>2. CASE Alive(g, c)
      <4>1. s = Append(g.live, c)
        BY <3>2
      <4>2. g.live \in Seq(Objects)
        BY <1>1
      <4> HIDE DEF c, s
      <4>3. /\ s \in Seq(Objects) /\ \E j \in 1 .. Len(s) : s[j] = c
            /\ \A i \in 1 .. Len(g.live) : \E j \in 1 .. Len(s) : s[j] = g.live[i]
        BY <3>1, <4>1, <4>2, Appends
      <4> QED  BY <4>3
    <3>3. CASE ~Alive(g, c)
      BY <3>3, <1>1
    <3> QED  BY <3>2, <3>3
  <2> HIDE DEF s, n
  <2>4. /\ Sound(f, X) /\ f.live = s
        /\ f.heap = g.heap /\ f.lists = g.lists /\ f.map = g.map
        /\ f.full = g.full /\ f.use = g.use
    BY <2>3, LiveSet
  <2> HIDE DEF f, k
  <2>5. /\ Sound(k, X) /\ k.cursor = n /\ k.detect = "detectGarbage_loop1" /\ k.live = s
        /\ k.heap = g.heap /\ k.lists = g.lists /\ k.map = g.map
        /\ k.full = g.full /\ k.use = g.use
    <3>1. "detectGarbage_loop1" \in Phases
      BY DEF Phases
    <3> QED  BY <2>1, <2>2, <2>4, <3>1, CursorMoves
  <2>6. Passed(k) = Passed(g) \cup {c}
    BY <2>2, <2>5
  <2>7. ASSUME NEW x \in M, g.heap[x].flag, ~Closed(g.heap, M, x)
        PROVE  IF x \in Passed(k) THEN x \in InLive(k) ELSE g.map[x] > 0
    <3>1. IF x \in Passed(g) THEN x \in InLive(g) ELSE g.map[x] > 0
      BY <2>7 DEF HalfMarked
    <3>2. x \in InLive(g) => x \in InLive(k)
      BY <2>3, <2>5 DEF InLive
    <3>3. CASE x = c /\ x \notin Passed(g)
      <4>1. Alive(g, c)
        BY <3>1, <3>3 DEF Alive
      <4>2. x \in InLive(k)
        BY <2>3, <2>5, <3>3, <4>1 DEF InLive
      <4> QED  BY <4>2, <3>3, <2>6
    <3> QED  BY <3>1, <3>2, <3>3, <2>6
  <2>8. HalfMarked(k)
    BY <2>5, <2>7 DEF HalfMarked
  <2> QED  BY <2>5, <2>8 DEF k, Told, Resting, Inside
<1> QED  BY <1>2, <1>3

LEMMA BeginsDetection ==
  ASSUME NEW g, NEW X, NEW Q, Sound(g, X), Unmarked(g), Outside(g.heap, Q)
  PROVE  Told(g, DetectGarbageInit(g), X, Q)
<1> DEFINE w == WithLive(g, <<>>)
           f == FirstInMap(w)
<1>1. DetectGarbageInit(g) = DetectGarbage1(f)
  BY DEF DetectGarbageInit, WithLive
<1>2. <<>> \in Seq(Objects)
  OBVIOUS
<1>3. /\ Sound(w, X) /\ w.heap = g.heap /\ w.lists = g.lists /\ w.map = g.map
      /\ w.full = g.full /\ w.use = g.use /\ w \in Collectors
  BY <1>2, LiveSet, SoundType
<1> HIDE DEF w
<1>4. Sound(f, X) /\ Passed(f) = {} /\ f = [w EXCEPT !.cursor = f.cursor]
  BY <1>3, FirstPassed
<1> HIDE DEF f
<1>5. f.heap = g.heap /\ f.lists = g.lists /\ f.map = g.map /\ f.full = g.full /\ f.use = g.use
  BY <1>3, <1>4 DEF Collectors
<1>6. HalfMarked(f)
  BY <1>4, <1>5 DEF Unmarked, HalfMarked
<1>7. Told(f, DetectGarbage1(f), X, Q)
  BY <1>4, <1>5, <1>6, FindsLive
<1> QED  BY <1>1, <1>5, <1>7, ToldFrom

LEMMA FewerReferrers ==
  ASSUME NEW h, NEW x, NEW S, NEW c
  PROVE  LET R == Referrers(h, x)
         IN /\ Cardinality(R \ S) \in Nat /\ Cardinality(R \ (S \cup {c})) \in Nat
            /\ Cardinality(R \ S) = 0 <=> R \subseteq S
            /\ Cardinality(R \ (S \cup {c})) <= Cardinality(R \ S)
            /\ c \in R \ S => Cardinality(R \ (S \cup {c})) = Cardinality(R \ S) - 1
<1> DEFINE R == Referrers(h, x)
           D == R \ S
           E == R \ (S \cup {c})
<1>1. IsFiniteSet(R)
  BY ReferrersFinite
<1>2. IsFiniteSet(D) /\ E \subseteq D
  BY <1>1, FS_Subset
<1>3. IsFiniteSet(E) /\ Cardinality(E) <= Cardinality(D)
  BY <1>2, FS_Subset
<1>4. Cardinality(D) \in Nat /\ Cardinality(E) \in Nat
  BY <1>2, <1>3, FS_CardinalityType
<1>5. Cardinality(D) = 0 <=> D = {}
  BY <1>2, FS_EmptySet
<1>6. D = {} <=> R \subseteq S
  OBVIOUS
<1>7. c \in D => Cardinality(E) = Cardinality(D) - 1
  <2> SUFFICES ASSUME c \in D  PROVE Cardinality(E) = Cardinality(D) - 1
    OBVIOUS
  <2>1. E = D \ {c}
    OBVIOUS
  <2> HIDE DEF D, E
  <2>2. Cardinality(D \ {c}) = Cardinality(D) - 1
    BY <1>2, FS_RemoveElement
  <2> QED  BY <2>1, <2>2
<1> QED  BY <1>3, <1>4, <1>5, <1>6, <1>7

(* The map's counts, with one more object passed. *)
LEMMA CountsOne ==
  ASSUME NEW g, NEW X, Sound(g, X), Counted(g, Passed(g)), g.cursor # Null, NEW m,
         LET c == g.cursor
             next == g.heap[c].next
         IN m = IF g.heap[c].flag /\ next \in DOMAIN g.map
                THEN [g.map EXCEPT ![next] = @ - 1] ELSE g.map
  PROVE  /\ m \in Maps /\ DOMAIN m = DOMAIN g.map
         /\ \A x \in DOMAIN g.map : g.heap[x].flag =>
              m[x] >= g.heap[x].held + Cardinality(Referrers(g.heap, x) \ (Passed(g) \cup {g.cursor}))
<1> DEFINE c == g.cursor
           next == g.heap[c].next
           M == DOMAIN g.map
           P == Passed(g)
<1>1. /\ g.heap \in Heaps /\ M \subseteq Objects /\ M \subseteq Nat /\ \A x \in M : g.map[x] \in Int
      /\ g.map = [x \in M |-> g.map[x]] /\ c \in M
      /\ Exact(g.heap, InLists(g.lists) \cup X, M)
  BY SoundType, GcAssumption
<1>2. c \notin P /\ g.heap[c].rc > 0
  <2>1. c \notin P
    BY <1>1 DEF Passed
  <2>2. c \in Objects /\ c \in InLists(g.lists) \cup X
    BY <1>1, ExactGives
  <2> QED  BY <1>1, <2>1, <2>2 DEF Exact
<1>3. /\ DOMAIN m = M /\ \A x \in M : m[x] \in Int /\ m = [y \in M |-> m[y]]
      /\ \A x \in M : m[x] = IF g.heap[c].flag /\ x = next THEN g.map[x] - 1 ELSE g.map[x]
  <2>1. CASE g.heap[c].flag /\ next \in M
    <3>1. m = [g.map EXCEPT ![next] = @ - 1]
      BY <2>1
    <3> DEFINE f == g.map
    <3>2. f = [x \in M |-> f[x]] /\ (\A x \in M : f[x] \in Int) /\ next \in M /\ g.heap[c].flag
      BY <1>1, <2>1
    <3>3. m = [f EXCEPT ![next] = @ - 1]
      BY <3>1
    <3> HIDE DEF M, next, f
    <3>4. DOMAIN m = M /\ m = [y \in M |-> m[y]]
      BY <3>2, <3>3
    <3>5. \A x \in M : m[x] \in Int /\ m[x] = IF x = next THEN f[x] - 1 ELSE f[x]
      BY <3>2, <3>3
    <3> QED  BY <3>2, <3>4, <3>5 DEF f
  <2>2. CASE ~(g.heap[c].flag /\ next \in M)
    <3>1. m = g.map
      BY <2>2
    <3> QED  BY <1>1, <2>2, <3>1
  <2> QED  BY <2>1, <2>2
<1>4. m \in Maps
  <2>1. M \in SUBSET Objects /\ m \in [M -> Int]
    BY <1>1, <1>3
  <2> QED  BY <2>1 DEF Maps
<1>5. ASSUME NEW x \in M, g.heap[x].flag
      PROVE  m[x] >= g.heap[x].held + Cardinality(Referrers(g.heap, x) \ (P \cup {c}))
  <2> DEFINE R == Referrers(g.heap, x)
             a == Cardinality(R \ P)
             b == Cardinality(R \ (P \cup {c}))
             e == g.heap[x].held
  <2>1. /\ a \in Nat /\ b \in Nat /\ b <= a
        /\ c \in R \ P => b = a - 1
    BY FewerReferrers
  <2>2. e \in Nat /\ g.map[x] \in Int /\ g.map[x] >= e + a
    BY <1>1, <1>5, HeapType DEF Counted
  <2>3. x = next => c \in R \ P
    BY <1>1, <1>2 DEF Referrers, Linked
  <2>4. m[x] = IF g.heap[c].flag /\ x = next THEN g.map[x] - 1 ELSE g.map[x]
    BY <1>3
  <2> DEFINE u == g.map[x]
             v == m[x]
  <2>5. v = u \/ (x = next /\ v = u - 1)
    BY <2>4
  <2>6. u \in Int /\ u >= e + a /\ (x = next => b = a - 1)
    <3>1. u \in Int /\ u >= e + a
      BY <2>2
    <3>2. x = next => b = a - 1
      BY <2>1, <2>3
    <3> QED  BY <3>1, <3>2
  <2>8. a \in Nat /\ b \in Nat /\ b <= a /\ e \in Nat
    BY <2>1, <2>2
  <2> HIDE DEF a, b, e, u, v, next
  <2>7. v >= e + b
    BY <2>5, <2>6, <2>8
  <2> QED  BY <2>7 DEF e, b, v
<1> QED  BY <1>3, <1>4, <1>5

LEMMA Counts ==
  ASSUME NEW g, NEW X, NEW Q, Sound(g, X), Counted(g, Passed(g)), Outside(g.heap, Q)
  PROVE  Told(g, CountReferences(g), X, Q)
<1> DEFINE k == CountReferences(g)
           M == DOMAIN g.map
           c == g.cursor
<1>1. g \in Collectors /\ M \subseteq Objects /\ g.heap \in Heaps /\ \A x \in M : g.map[x] \in Int
  BY SoundType
<1>2. CASE c = Null
  <2>1. k = DetectGarbageInit(g)
    BY <1>2 DEF CountReferences
  <2>2. ASSUME NEW x \in M, g.heap[x].flag  PROVE g.map[x] > 0 \/ Closed(g.heap, M, x)
    <3> DEFINE a == Cardinality(Referrers(g.heap, x) \ M)
               e == g.heap[x].held
    <3>1. a \in Nat /\ (a = 0 <=> Referrers(g.heap, x) \subseteq M)
      BY FewerReferrers
    <3>2. e \in Nat /\ g.map[x] \in Int /\ g.map[x] >= e + a
      BY <1>1, <1>2, <2>2, HeapType DEF Counted, Passed
    <3> HIDE DEF a
    <3>3. g.map[x] > 0 \/ (e = 0 /\ a = 0)
      BY <3>1, <3>2
    <3> QED  BY <3>1, <3>3 DEF Closed
  <2>3. Unmarked(g)
    BY <2>2 DEF Unmarked
  <2> QED  BY <2>1, <2>3, BeginsDetection
<1>3. CASE c # Null
  <2> DEFINE next == g.heap[c].next
             m == IF g.heap[c].flag /\ next \in M THEN [g.map EXCEPT ![next] = @ - 1] ELSE g.map
             n == NextInMap(g)
  <2>1. k = [g EXCEPT !.map = m, !.cursor = n, !.detect = "countReferences", !.ret = 1]
    BY <1>3 DEF CountReferences
  <2>2. /\ n \in M \cup {Null}
        /\ \A l : l.cursor = n /\ DOMAIN l.map = M => Passed(l) = Passed(g) \cup {c}
    BY <1>3, NextPassed
  <2>3. /\ m \in Maps /\ DOMAIN m = M
        /\ \A x \in M : g.heap[x].flag =>
             m[x] >= g.heap[x].held + Cardinality(Referrers(g.heap, x) \ (Passed(g) \cup {c}))
    BY <1>3, CountsOne
  <2> HIDE DEF m, n, k
  <2>4. /\ k \in Collectors /\ k.map = m /\ k.cursor = n /\ k.detect = "countReferences"
        /\ k.heap = g.heap /\ k.lists = g.lists /\ k.full = g.full /\ k.use = g.use
    <3>1. "countReferences" \in Phases /\ n \in Objects \cup {Null}
      BY <1>1, <2>2 DEF Phases
    <3> QED  BY <1>1, <2>1, <2>3, <3>1 DEF Collectors
  <2>5. Sound(k, X)
    BY <2>2, <2>3, <2>4 DEF Sound
  <2>6. Passed(k) = Passed(g) \cup {c}
    BY <2>2, <2>3, <2>4
  <2>7. Counted(k, Passed(k))
    BY <2>3, <2>4, <2>6 DEF Counted
  <2> QED  BY <2>4, <2>5, <2>7 DEF k, Told, Resting, Inside
<1> QED  BY <1>2, <1>3

Entered(h, o) == [ObjAddRef(h, o) EXCEPT ![o].flag = TRUE]

LEMMA EntersOne ==
  ASSUME NEW g, NEW X, Sound(g, X), g.cursor = Null, Counted(g, {}),
         NEW o \in InLists(g.lists) \ DOMAIN g.map
  PROVE  LET k == EnterMap(g, o)
         IN /\ Sound(k, X) /\ DOMAIN k.map = DOMAIN g.map \cup {o} /\ Counted(k, {})
            /\ Untorn(g.heap, k.heap)
            /\ k.lists = g.lists /\ k.cursor = Null /\ k.detect = g.detect
            /\ k.full = g.full /\ k.use = g.use /\ k.detectIdx = g.detectIdx
<1> DEFINE k == EnterMap(g, o)
           M == DOMAIN g.map
           L == InLists(g.lists) \cup X
           h == Entered(g.heap, o)
           m == [p \in M \cup {o} |-> IF p = o THEN g.heap[o].rc - 1 ELSE g.map[p]]
<1>1. /\ g \in Collectors /\ g.heap \in Heaps /\ M \subseteq Objects /\ \A x \in M : g.map[x] \in Int
      /\ Exact(g.heap, L, M) /\ o \in L \ M /\ o \in Objects
  BY SoundType DEF InLists
<1>2. /\ h \in Heaps /\ Exact(h, L, M \cup {o}) /\ Untorn(g.heap, h) /\ SameLinks(g.heap, h)
      /\ \A x \in Objects : h[x].held = g.heap[x].held /\ (x # o => h[x].flag = g.heap[x].flag)
  <2> HIDE DEF L, M
  <2> QED  BY <1>1, EntersMap DEF Entered
<1>3. k = [g EXCEPT !.map = m, !.heap = h]
  BY DEF EnterMap, Entered
<1>4. g.heap[o].rc - 1 \in Int /\ g.heap[o].rc - 1 = g.heap[o].held + Cardinality(Referrers(g.heap, o))
  <2> DEFINE r == g.heap[o].rc
             e == g.heap[o].held
             c == Cardinality(Referrers(g.heap, o))
  <2>1. r \in Nat /\ e \in Nat /\ c \in Nat
    BY <1>1, HeapType, ReferrersFinite
  <2>2. r = e + c + One(o, L) + One(o, M)
    BY <1>1 DEF Exact
  <2>3. One(o, L) = 1 /\ One(o, M) = 0
    BY <1>1 DEF One
  <2> HIDE DEF r, e, c
  <2>4. r - 1 \in Int /\ r - 1 = e + c
    BY <2>1, <2>2, <2>3
  <2> QED  BY <2>4 DEF r, e, c
<1>5. /\ m \in Maps /\ DOMAIN m = M \cup {o} /\ m[o] = g.heap[o].rc - 1
      /\ \A x \in M : m[x] = g.map[x]
  <2>1. m \in [M \cup {o} -> Int] /\ M \cup {o} \in SUBSET Objects
    BY <1>1, <1>4
  <2>2. \A x \in M : m[x] = g.map[x]
    BY <1>1
  <2> QED  BY <2>1, <2>2 DEF Maps
<1> HIDE DEF h, m, k
<1>6. /\ k \in Collectors /\ k.heap = h /\ k.map = m
      /\ k.lists = g.lists /\ k.cursor = Null /\ k.detect = g.detect
      /\ k.full = g.full /\ k.use = g.use /\ k.detectIdx = g.detectIdx
  BY <1>1, <1>2, <1>3, <1>5 DEF Collectors
<1>7. Sound(k, X)
  BY <1>2, <1>5, <1>6 DEF Sound
<1>8. ASSUME NEW x \in M \cup {o}, h[x].flag
      PROVE  m[x] >= h[x].held + Cardinality(Referrers(h, x) \ {})
  <2>1. /\ x \in Objects /\ h[x].held = g.heap[x].held /\ Referrers(h, x) = Referrers(g.heap, x)
        /\ Referrers(h, x) \ {} = Referrers(g.heap, x) /\ Referrers(g.heap, x) \ {} = Referrers(g.heap, x)
    BY <1>1, <1>2, SameReferrers
  <2>2. CASE x = o
    <3> DEFINE e == g.heap[o].held
               c == Cardinality(Referrers(g.heap, o))
    <3>1. m[x] = e + c /\ e \in Nat /\ c \in Nat
      BY <2>2, <1>1, <1>4, <1>5, HeapType, ReferrersFinite
    <3> HIDE DEF e, c
    <3>2. m[x] >= e + c
      BY <3>1
    <3> QED  BY <3>2, <2>1, <2>2 DEF e, c
  <2>3. CASE x # o
    <3>1. x \in M /\ g.heap[x].flag /\ m[x] = g.map[x]
      BY <2>3, <1>2, <1>5, <1>8, <2>1
    <3>2. g.map[x] >= g.heap[x].held + Cardinality(Referrers(g.heap, x) \ {})
      BY <3>1 DEF Counted
    <3> QED  BY <3>1, <3>2, <2>1
  <2> QED  BY <2>2, <2>3
<1>9. Counted(k, {})
  BY <1>5, <1>6, <1>8 DEF Counted
<1> QED  BY <1>2, <1>5, <1>6, <1>7, <1>9 DEF k

LEMMA Builds ==
  ASSUME NEW g, NEW X, NEW Q, Sound(g, X), g.cursor = Null, Counted(g, {}), InOrder(g),
         Outside(g.heap, Q)
  PROVE  Told(g, BuildMap(g), X, Q)
<1> DEFINE k == BuildMap(g)
           s == g.lists["old"]
           j == g.detectIdx + 1
           n == [g EXCEPT !.detectIdx = @ + 1, !.detect = "buildMap", !.ret = 1]
           o == s[j].obj
<1>1. /\ g \in Collectors /\ g.heap \in Heaps /\ g.detectIdx \in Nat /\ g.lists \in [Lists -> Seq(Entries)]
      /\ DOMAIN g.map \subseteq Objects /\ Apart(g.lists) /\ "old" \in Lists
  BY SoundType, FitType DEF Sound, Lists
<1>2. s \in Seq(Entries) /\ Len(s) \in Nat
  BY <1>1
<1>3. CASE g.detectIdx >= Len(s)
  <2> DEFINE z == [g EXCEPT !.detectIdx = 0]
             f == FirstInMap(z)
  <2>1. k = CountReferences(f)
    BY <1>3 DEF BuildMap
  <2>2. /\ z \in Collectors /\ z.heap = g.heap /\ z.lists = g.lists /\ z.map = g.map
        /\ z.full = g.full /\ z.use = g.use /\ z.cursor = g.cursor
    BY <1>1 DEF Collectors
  <2> HIDE DEF z
  <2>3. Sound(z, X)
    BY <2>2 DEF Sound
  <2>4. Sound(f, X) /\ Passed(f) = {} /\ f = [z EXCEPT !.cursor = f.cursor]
    BY <2>3, FirstPassed
  <2> HIDE DEF f
  <2>5. f.heap = g.heap /\ f.lists = g.lists /\ f.map = g.map /\ f.full = g.full /\ f.use = g.use
    BY <2>2, <2>4 DEF Collectors
  <2>6. Counted(f, Passed(f))
    BY <2>4, <2>5 DEF Counted
  <2>7. Told(f, CountReferences(f), X, Q)
    BY <2>4, <2>5, <2>6, Counts
  <2> QED  BY <2>1, <2>5, <2>7, ToldFrom
<1>4. CASE g.detectIdx < Len(s)
  <2>1. k = IF g.heap[o].rc > 1 THEN EnterMap(n, o) ELSE n
    <3>1. n.detectIdx = j
      BY <1>1 DEF Collectors
    <3>2. ~(g.detectIdx >= Len(s))
      BY <1>1, <1>2, <1>4
    <3> HIDE DEF j
    <3> QED  BY <3>1, <3>2 DEF BuildMap
  <2>2. j \in 1 .. Len(s) /\ j \in Nat
    BY <1>1, <1>2, <1>4
  <2>3. /\ n \in Collectors /\ n.heap = g.heap /\ n.lists = g.lists /\ n.map = g.map
        /\ n.full = g.full /\ n.use = g.use /\ n.cursor = Null /\ n.detect = "buildMap" /\ n.detectIdx = j
    <3>1. "buildMap" \in Phases
      BY DEF Phases
    <3>2. j = g.detectIdx + 1
      OBVIOUS
    <3> HIDE DEF j
    <3> QED  BY <1>1, <2>2, <3>1, <3>2 DEF Collectors
  <2> HIDE DEF n
  <2>4. Sound(n, X) /\ Counted(n, {})
    BY <2>3 DEF Sound, Counted
  <2>5. o \in InLists(g.lists)
    BY <1>1, <2>2, EntryType
  <2>6. o \notin DOMAIN g.map
    <3> SUFFICES ASSUME o \in DOMAIN g.map  PROVE FALSE
      OBVIOUS
    <3>1. PICK i \in 1 .. Len(s) : i <= g.detectIdx /\ s[i].obj = o
      BY DEF InOrder
    <3>2. i = j
      BY <1>1, <2>2, <3>1 DEF Apart
    <3> QED  BY <1>1, <3>1, <3>2
  <2>7. \A x \in DOMAIN g.map \cup {o} : \E i \in 1 .. Len(s) : i <= j /\ s[i].obj = x
    <3>1. ASSUME NEW x \in DOMAIN g.map  PROVE \E i \in 1 .. Len(s) : i <= j /\ s[i].obj = x
      <4>1. PICK i \in 1 .. Len(s) : i <= g.detectIdx /\ s[i].obj = x
        BY DEF InOrder
      <4>2. i <= j
        BY <1>1, <4>1
      <4> QED  BY <4>1, <4>2
    <3>2. j <= j
      BY <2>2
    <3> QED  BY <3>1, <3>2, <2>2
  <2>8. CASE g.heap[o].rc > 1
    <3> HIDE DEF o, j
    <3>1. k = EnterMap(n, o)
      BY <2>1, <2>8
    <3> HIDE DEF k
    <3>2. /\ Sound(k, X) /\ DOMAIN k.map = DOMAIN g.map \cup {o} /\ Counted(k, {})
          /\ Untorn(g.heap, k.heap)
          /\ k.lists = g.lists /\ k.cursor = Null /\ k.detect = "buildMap"
          /\ k.full = g.full /\ k.use = g.use /\ k.detectIdx = j
      BY <3>1, <2>3, <2>4, <2>5, <2>6, EntersOne
    <3>3. \A x \in Objects : k.heap[x].torn => g.heap[x].torn
      BY <3>2 DEF Untorn
    <3>4. Resting(k)
      BY <3>2, <2>7 DEF Resting, InOrder
    <3>5. Inside(k, Q)
      BY <3>2 DEF Inside
    <3> QED  BY <3>2, <3>3, <3>4, <3>5 DEF k, Told
  <2>9. CASE ~(g.heap[o].rc > 1)
    <3> HIDE DEF o, j
    <3>1. k = n
      BY <2>1, <2>9
    <3> HIDE DEF k
    <3>4. Resting(k)
      BY <3>1, <2>3, <2>7 DEF Resting, InOrder
    <3>5. Inside(k, Q)
      BY <3>1, <2>3, <2>4 DEF Inside
    <3> QED  BY <3>1, <2>3, <2>4, <3>4, <3>5 DEF k, Told
  <2> QED  BY <2>8, <2>9
<1> QED  BY <1>1, <1>2, <1>3, <1>4

LEMMA Clears ==
  ASSUME NEW g, NEW X, NEW Q, Sound(g, X), g.cursor = Null, Outside(g.heap, Q)
  PROVE  Told(g, ClearCounters(g), X, Q)
<1> DEFINE k == ClearCounters(g)
           c == FirstInMap(g).cursor
           n == LeaveMap(g, c)
<1>1. CASE DOMAIN g.map = {}
  <2>1. k = BuildMap(g)
    BY <1>1 DEF ClearCounters
  <2>2. Counted(g, {}) /\ InOrder(g)
    BY <1>1 DEF Counted, InOrder
  <2> QED  BY <2>1, <2>2, Builds
<1>2. CASE DOMAIN g.map # {}
  <2>1. k = Turned(n, "clearCounters")
    BY <1>2 DEF ClearCounters, Turned
  <2>2. c \in DOMAIN g.map
    <3> DEFINE f == FirstInMap(g)
    <3>1. Sound(f, X) /\ (f.cursor = Null <=> DOMAIN g.map = {}) /\ f = [g EXCEPT !.cursor = f.cursor]
      BY FirstPassed
    <3> HIDE DEF f
    <3>2. f.map = g.map
      BY <3>1, SoundType DEF Collectors
    <3>3. f.cursor \in DOMAIN g.map
      BY <1>2, <3>1, <3>2 DEF Sound
    <3> QED  BY <3>3 DEF f
  <2> HIDE DEF c
  <2>3. /\ Sound(n, X) /\ Untorn(g.heap, n.heap)
        /\ n.lists = g.lists /\ n.cursor = Null /\ n.full = g.full /\ n.use = g.use
    BY <2>2, LeavesAlone
  <2> HIDE DEF n, k
  <2>4. /\ Sound(k, X) /\ k.detect = "clearCounters" /\ k.heap = n.heap
        /\ k.lists = g.lists /\ k.cursor = Null /\ k.full = g.full /\ k.use = g.use
    <3>1. "clearCounters" \in Phases
      BY DEF Phases
    <3> QED  BY <2>1, <2>3, <3>1, Turns
  <2>5. \A x \in Objects : k.heap[x].torn => g.heap[x].torn
    BY <2>3, <2>4 DEF Untorn
  <2> QED  BY <2>4, <2>5 DEF k, Told, Resting, Inside
<1> QED  BY <1>1, <1>2

LEMMA Identifies ==
  ASSUME NEW g, NEW X, NEW Q, Fit(g, X), Inside(g, Q), Outside(g.heap, Q)
  PROVE  Told(g, IdentifyGarbageWithCyclicRefs(g), X, Q)
<1> DEFINE k == IdentifyGarbageWithCyclicRefs(g)
<1>1. Sound(g, X)
  BY FitSound
<1>2. /\ g.detect \in Phases \ {"breakCircles"}
      /\ g.detect \in {"clearCounters", "buildMap", "detectGarbage_loop2"} => g.cursor = Null
      /\ g.detect = "buildMap" => InOrder(g)
  BY FitType, SoundType DEF Fit, Resting
<1>3. CASE g.detect = "clearCounters"
  <2>1. k = ClearCounters(g)
    BY <1>3 DEF IdentifyGarbageWithCyclicRefs
  <2> QED  BY <2>1, <1>1, <1>2, <1>3, Clears
<1>4. CASE g.detect = "buildMap"
  <2>1. k = BuildMap(g)
    BY <1>4 DEF IdentifyGarbageWithCyclicRefs
  <2>2. Counted(g, {})
    BY <1>4 DEF Inside
  <2> QED  BY <2>1, <2>2, <1>1, <1>2, <1>4, Builds
<1>5. CASE g.detect = "countReferences"
  <2>1. k = CountReferences(g)
    BY <1>5 DEF IdentifyGarbageWithCyclicRefs
  <2>2. Counted(g, Passed(g))
    BY <1>5 DEF Inside
  <2> QED  BY <2>1, <2>2, <1>1, Counts
<1>6. CASE g.detect = "detectGarbage_init"
  <2>1. k = DetectGarbageInit(g)
    BY <1>6 DEF IdentifyGarbageWithCyclicRefs
  <2>2. Unmarked(g)
    BY <1>6 DEF Inside
  <2> QED  BY <2>1, <2>2, <1>1, BeginsDetection
<1>7. CASE g.detect = "detectGarbage_loop1"
  <2>1. k = DetectGarbage1(g)
    BY <1>7 DEF IdentifyGarbageWithCyclicRefs
  <2>2. HalfMarked(g)
    BY <1>7 DEF Inside
  <2> QED  BY <2>1, <2>2, <1>1, FindsLive
<1>8. CASE g.detect = "detectGarbage_loop2"
  <2>1. k = DetectGarbage2(g)
    BY <1>8 DEF IdentifyGarbageWithCyclicRefs
  <2>2. Marked(g)
    BY <1>8 DEF Inside
  <2> QED  BY <2>1, <2>2, <1>1, <1>2, <1>8, Spreads
<1>9. CASE g.detect = "verifyUnmarked"
  <2>1. k = VerifyUnmarked(g)
    BY <1>9 DEF IdentifyGarbageWithCyclicRefs
  <2>2. AllClosed(g) /\ Found(g, Q)
    BY <1>9 DEF Inside
  <2> QED  BY <2>1, <2>2, <1>1, Verifies
<1>10. CASE g.detect = "breakCircles_haveGarbage"
  <2>1. k = BreakCircles(g)
    BY <1>10 DEF IdentifyGarbageWithCyclicRefs
  <2>2. DOMAIN g.map \cap Q = {}
    BY <1>10 DEF Inside
  <2> QED  BY <2>1, <2>2, <1>1, BreaksCircles
<1> QED  BY <1>2, <1>3, <1>4, <1>5, <1>6, <1>7, <1>8, <1>9, <1>10 DEF Phases

(* A sweep, and a script that does not raise what was dead, leave all that *)
(* the detection knows as it was.                                          *)
LEMMA StillInside ==
  ASSUME NEW g, NEW k, NEW Q, Inside(g, Q), DOMAIN g.map \subseteq Objects,
         k.detect = g.detect, k.map = g.map, k.cursor = g.cursor, k.live = g.live,
         Steady(g.heap, k.heap)
  PROVE  Inside(k, Q)
<1> DEFINE M == DOMAIN g.map
<1>1. \A o \in M : k.heap[o].flag =>
        /\ g.heap[o].flag /\ k.heap[o].held = g.heap[o].held
        /\ Referrers(k.heap, o) = Referrers(g.heap, o)
  BY DEF Steady
<1>2. \A o \in M : k.heap[o].flag /\ Closed(g.heap, M, o) => Closed(k.heap, M, o)
  BY <1>1 DEF Closed
<1>3. Passed(k) = Passed(g) /\ InLive(k) = InLive(g)
  BY DEF Passed, InLive
<1>4. \A S : Counted(g, S) => Counted(k, S)
  BY <1>1 DEF Counted
<1>5. Unmarked(g) => Unmarked(k)
  BY <1>1, <1>2 DEF Unmarked
<1>6. HalfMarked(g) => HalfMarked(k)
  BY <1>1, <1>2, <1>3 DEF HalfMarked
<1>7. Marked(g) => Marked(k)
  BY <1>1, <1>2, <1>3 DEF Marked
<1>8. AllClosed(g) => AllClosed(k)
  BY <1>1, <1>2 DEF AllClosed
<1>9. Found(g, Q) => Found(k, Q)
  BY <1>1, <1>3 DEF Found
<1> QED  BY <1>3, <1>4, <1>5, <1>6, <1>7, <1>8, <1>9 DEF Inside

LEMMA FewerInside ==
  ASSUME NEW g, NEW Q, NEW P, Inside(g, Q), DOMAIN g.map \cap P \subseteq Q  PROVE Inside(g, P)
<1>1. Found(g, Q) => Found(g, P)
  BY DEF Found
<1> QED  BY <1>1 DEF Inside

LEMMA StillOutside ==
  ASSUME NEW h, NEW k, NEW Q, Outside(h, Q), Steady(h, k)  PROVE Outside(k, Q)
BY DEF Outside, Steady, Closed

-----------------------------------------------------------------------------
(* What the script can reach.                                              *)
ReachedTo(h, S, n, f) ==
  f = [i \in 0 .. n |-> IF i = 0 THEN S ELSE f[i - 1] \cup ({h[o].next : o \in f[i - 1]} \ {Null})]

LEMMA ReachedExist ==
  ASSUME NEW h, NEW S  PROVE  \A n \in Nat : \E f : ReachedTo(h, S, n, f)
<1> DEFINE N == {n \in Nat : \E f : ReachedTo(h, S, n, f)}
           Next(T) == T \cup ({h[o].next : o \in T} \ {Null})
<1>1. 0 \in N
  <2>1. ReachedTo(h, S, 0, [i \in 0 .. 0 |-> S])
    BY DEF ReachedTo
  <2> QED  BY <2>1
<1>2. ASSUME NEW n \in Nat, n \in N  PROVE n + 1 \in N
  <2>1. PICK f : ReachedTo(h, S, n, f)
    BY <1>2
  <2> DEFINE d == Next(f[n])
             e == [i \in 0 .. n + 1 |-> IF i = n + 1 THEN d ELSE f[i]]
  <2>2. d = Next(f[n])
    OBVIOUS
  <2>3. \A i \in 0 .. n : f[i] = IF i = 0 THEN S ELSE Next(f[i - 1])
    BY <2>1 DEF ReachedTo
  <2> HIDE DEF d, Next
  <2>4. ASSUME NEW i \in 0 .. n + 1
        PROVE  e[i] = IF i = 0 THEN S ELSE Next(e[i - 1])
    <3>1. CASE i = n + 1
      <4>1. e[i] = d /\ e[i - 1] = f[n] /\ i # 0
        BY <3>1
      <4> HIDE DEF e
      <4> QED  BY <4>1, <2>2
    <3>2. CASE i \in 0 .. n
      <4>1. e[i] = f[i] /\ (i # 0 => e[i - 1] = f[i - 1])
        BY <3>2
      <4> HIDE DEF e
      <4> QED  BY <4>1, <3>2, <2>3
    <3> QED  BY <3>1, <3>2
  <2>5. e = [i \in 0 .. n + 1 |-> e[i]]
    OBVIOUS
  <2> HIDE DEF e
  <2>6. e = [i \in 0 .. n + 1 |-> IF i = 0 THEN S ELSE Next(e[i - 1])]
    BY <2>4, <2>5
  <2>7. ReachedTo(h, S, n + 1, e)
    BY <2>6 DEF ReachedTo, Next
  <2> QED  BY <2>7
<1> HIDE DEF N
<1>3. \A n \in Nat : n \in N
  BY <1>1, <1>2, EveryNat
<1> QED  BY <1>3 DEF N

LEMMA ReachesWithin ==
  ASSUME NEW h, NEW S, NEW T, S \subseteq T, \A o \in T : h[o].next \in T \cup {Null}
  PROVE  Reaches(h, S) \subseteq T
<1> DEFINE C == Cardinality(Objects)
           F == CHOOSE f : ReachedTo(h, S, C, f)
<1>1. C \in Nat
  BY ObjectsCounted
<1>2. ReachedTo(h, S, C, F)
  BY <1>1, ReachedExist
<1>3. Reaches(h, S) = F[C]
  BY DEF Reaches, ReachedTo
<1> HIDE DEF F, C
<1> DEFINE Next(V) == V \cup ({h[o].next : o \in V} \ {Null})
<1>4. \A V : V \subseteq T => Next(V) \subseteq T
  OBVIOUS
<1>8. F = [i \in 0 .. C |-> IF i = 0 THEN S ELSE Next(F[i - 1])]
  BY <1>2 DEF ReachedTo
<1> HIDE DEF Next
<1>9. F[0] = S /\ \A i \in 1 .. C : F[i] = Next(F[i - 1])
  BY <1>1, <1>8
<1> DEFINE N == {n \in Nat : n <= C => F[n] \subseteq T}
<1>5. 0 \in N
  BY <1>9
<1>6. ASSUME NEW n \in Nat, n \in N  PROVE n + 1 \in N
  <2>1. CASE n + 1 <= C
    <3>1. n + 1 \in 1 .. C /\ n + 1 - 1 = n /\ n <= C
      BY <1>1, <2>1
    <3>2. F[n + 1] = Next(F[n]) /\ F[n] \subseteq T
      BY <1>6, <1>9, <3>1
    <3>3. F[n + 1] \subseteq T
      BY <1>4, <3>2
    <3> QED  BY <3>3
  <2> QED  BY <2>1
<1> HIDE DEF N
<1>7. C \in N
  BY <1>1, <1>5, <1>6, EveryNat
<1> QED  BY <1>1, <1>3, <1>7 DEF N

(* The script reaches nothing of a set that only refers to itself.         *)
LEMMA ReachesLinked ==
  ASSUME NEW h \in Heaps, NEW L, NEW M, Exact(h, L, M), NEW S, \A o \in S : Closed(h, S, o)
  PROVE  Reachable(h) \subseteq Linked(h) \ S
<1> DEFINE T == Linked(h) \ S
           U == {o \in Objects : h[o].held > 0}
<1>1. U \subseteq T
  <2>1. ASSUME NEW o \in U  PROVE o \in T
    <3>1. h[o].rc > 0
      BY ExactGives DEF Exact
    <3>2. o \notin S
      <4>1. h[o].held > 0
        OBVIOUS
      <4> QED  BY <4>1, HeapType DEF Closed
    <3> QED  BY <3>1, <3>2 DEF Linked
  <2> QED  BY <2>1
<1>2. ASSUME NEW o \in T  PROVE h[o].next \in T \cup {Null}
  <2>1. CASE h[o].next # Null
    <3> DEFINE p == h[o].next
    <3>1. o \in Objects /\ o \in Linked(h) /\ p \in Objects
      BY <2>1, HeapType DEF Linked
    <3>2. p \in L
      BY <3>1, ExactGives
    <3>3. h[p].rc > 0
      BY <3>1, <3>2 DEF Exact
    <3>4. o \in Referrers(h, p)
      BY <3>1 DEF Referrers
    <3>5. p \notin S
      BY <1>2, <3>4 DEF Closed
    <3> QED  BY <3>1, <3>3, <3>5 DEF Linked
  <2> QED  BY <2>1
<1> HIDE DEF T, U
<1>3. Reaches(h, U) \subseteq T
  BY <1>1, <1>2, ReachesWithin
<1> QED  BY <1>3 DEF T, U, Reachable

LEMMA LeavesOutside ==
  ASSUME NEW h \in Heaps, NEW L, NEW M, Exact(h, L, M), NEW k, Steady(h, k), NEW R, NEW C,
         \A o \in C : ~k[o].flag
  PROVE  Outside(k, (Reachable(h) \ R) \cup C)
<1> SUFFICES ASSUME NEW S \in SUBSET Objects, \A o \in S : k[o].flag /\ Closed(k, S, o)
             PROVE  S \cap ((Reachable(h) \ R) \cup C) = {}
  BY DEF Outside
<1>1. \A o \in S : Closed(h, S, o)
  BY DEF Steady, Closed
<1>2. Reachable(h) \subseteq Linked(h) \ S
  BY <1>1, ReachesLinked
<1> QED  BY <1>2

-----------------------------------------------------------------------------
(* A step of the program, from sweeps, one step of the detection and what  *)
(* the script does.  Q is what the script could reach before and did not   *)
(* raise, and what it creates.                                             *)
Spares(h, k, Q) == \A o \in Objects : k[o].torn => h[o].torn \/ o \notin Q

(* Ready for a step of the detection. *)
Ready(g, X, Q) == Fit(g, X) /\ Inside(g, Q) /\ Outside(g.heap, Q)

LEMMA MapType ==
  ASSUME NEW g, NEW X, Fit(g, X)
  PROVE  /\ g \in Collectors /\ g.heap \in Heaps /\ DOMAIN g.map \subseteq Objects
         /\ g.lists \in [Lists -> Seq(Entries)]
         /\ Exact(g.heap, InLists(g.lists) \cup X, DOMAIN g.map)
BY FitSound, SoundType

LEMMA SweptInside ==
  ASSUME NEW g, NEW k, NEW X, NEW Q, Fit(g, X), Swept(g, k)
  PROVE  /\ Inside(g, Q) => Inside(k, Q)
         /\ Outside(g.heap, Q) => Outside(k.heap, Q)
         /\ \A h : Spares(h, g.heap, Q) => Spares(h, k.heap, Q)
<1>1. DOMAIN g.map \subseteq Objects
  BY MapType
<1>2. /\ k.detect = g.detect /\ k.map = g.map /\ k.cursor = g.cursor /\ k.live = g.live
      /\ Steady(g.heap, k.heap) /\ Untorn(g.heap, k.heap)
  BY DEF Swept
<1>3. Inside(g, Q) => Inside(k, Q)
  BY <1>1, <1>2, StillInside
<1>4. Outside(g.heap, Q) => Outside(k.heap, Q)
  BY <1>2, StillOutside
<1>5. \A h : Spares(h, g.heap, Q) => Spares(h, k.heap, Q)
  BY <1>2 DEF Untorn, Spares
<1> QED  BY <1>3, <1>4, <1>5

LEMMA SparesSelf == ASSUME NEW h, NEW Q  PROVE Spares(h, h, Q)
BY DEF Spares

LEMMA IdentifiesInside ==
  ASSUME NEW g, NEW X, NEW Q, NEW h, Ready(g, X, Q), Spares(h, g.heap, Q)
  PROVE  LET k == IdentifyGarbageWithCyclicRefs(g)
         IN Fit(k, X) /\ Inside(k, Q) /\ Spares(h, k.heap, Q) /\ k.lists = g.lists
<1> DEFINE k == IdentifyGarbageWithCyclicRefs(g)
<1>1. Told(g, k, X, Q)
  BY Identifies DEF Ready
<1> HIDE DEF k
<1>2. Fit(k, X)
  BY <1>1, RestingFit DEF Told
<1>3. Spares(h, k.heap, Q)
  BY <1>1 DEF Told, Spares
<1> QED  BY <1>1, <1>2, <1>3 DEF Told, k

(* DestroySomeNew. *)
SweptTo(g, n, f) ==
  f = [i \in 0 .. n |-> IF i = 0 THEN g ELSE DestroyGarbage(f[i - 1], "new")]

LEMMA SweepsExist ==
  ASSUME NEW g  PROVE  \A n \in Nat : \E f : SweptTo(g, n, f)
<1> DEFINE N == {n \in Nat : \E f : SweptTo(g, n, f)}
<1>1. 0 \in N
  <2>1. SweptTo(g, 0, [i \in 0 .. 0 |-> g])
    BY DEF SweptTo
  <2> QED  BY <2>1
<1>2. ASSUME NEW n \in Nat, n \in N  PROVE n + 1 \in N
  <2>1. PICK f : SweptTo(g, n, f)
    BY <1>2
  <2> DEFINE d == DestroyGarbage(f[n], "new")
             e == [i \in 0 .. n + 1 |-> IF i = n + 1 THEN d ELSE f[i]]
  <2>2. d = DestroyGarbage(f[n], "new")
    OBVIOUS
  <2>3. \A i \in 0 .. n : f[i] = IF i = 0 THEN g ELSE DestroyGarbage(f[i - 1], "new")
    BY <2>1 DEF SweptTo
  <2> HIDE DEF d
  <2>4. ASSUME NEW i \in 0 .. n + 1
        PROVE  e[i] = IF i = 0 THEN g ELSE DestroyGarbage(e[i - 1], "new")
    <3>1. CASE i = n + 1
      <4>1. e[i] = d /\ e[i - 1] = f[n] /\ i # 0
        BY <3>1
      <4> HIDE DEF e
      <4> QED  BY <4>1, <2>2
    <3>2. CASE i \in 0 .. n
      <4>1. e[i] = f[i] /\ (i # 0 => e[i - 1] = f[i - 1])
        BY <3>2
      <4> HIDE DEF e
      <4> QED  BY <4>1, <3>2, <2>3
    <3> QED  BY <3>1, <3>2
  <2>5. e = [i \in 0 .. n + 1 |-> e[i]]
    OBVIOUS
  <2> HIDE DEF e
  <2>6. SweptTo(g, n + 1, e)
    BY <2>4, <2>5 DEF SweptTo
  <2> QED  BY <2>6
<1> HIDE DEF N
<1>3. \A n \in Nat : n \in N
  BY <1>1, <1>2, EveryNat
<1> QED  BY <1>3 DEF N

LEMMA DestroysSome ==
  ASSUME NEW g, NEW X, Fit(g, X)
  PROVE  LET k == DestroySomeNew(g) IN Fit(k, X) /\ Swept(g, k)
<1> DEFINE n == IF Len(g.lists["new"]) > 10 THEN 10 ELSE Len(g.lists["new"])
           F == CHOOSE f : SweptTo(g, n, f)
<1>1. n \in Nat
  <2>1. g.lists["new"] \in Seq(Entries)
    BY MapType DEF Lists
  <2>2. Len(g.lists["new"]) \in Nat
    BY <2>1
  <2> QED  BY <2>2
<1>2. SweptTo(g, n, F)
  <2> HIDE DEF n
  <2> QED  BY <1>1, SweepsExist
<1>3. DestroySomeNew(g) = F[n]
  BY DEF DestroySomeNew, SweptTo
<1> HIDE DEF F, n
<1>4. F[0] = g /\ \A i \in 1 .. n : F[i] = DestroyGarbage(F[i - 1], "new")
  BY <1>1, <1>2 DEF SweptTo
<1> DEFINE N == {i \in Nat : i <= n => Fit(F[i], X) /\ Swept(g, F[i])}
<1>5. 0 \in N
  BY <1>4, SweptSelf
<1>6. ASSUME NEW i \in Nat, i \in N  PROVE i + 1 \in N
  <2>1. CASE i + 1 <= n
    <3>1. i + 1 \in 1 .. n /\ i + 1 - 1 = i /\ i <= n
      BY <1>1, <2>1
    <3>2. F[i + 1] = DestroyGarbage(F[i], "new") /\ Fit(F[i], X) /\ Swept(g, F[i])
      BY <1>4, <1>6, <3>1
    <3>3. "new" \in Lists
      BY DEF Lists
    <3>4. Fit(F[i + 1], X) /\ Swept(F[i], F[i + 1])
      BY <3>2, <3>3, DestroysFit
    <3>5. Swept(g, F[i + 1])
      BY <3>2, <3>4, SweptTwice
    <3> QED  BY <3>4, <3>5
  <2> QED  BY <2>1
<1> HIDE DEF N
<1>7. n \in N
  BY <1>1, <1>5, <1>6, EveryNat
<1>8. n <= n
  BY <1>1
<1> QED  BY <1>3, <1>7, <1>8 DEF N

LEMMA CollectsSome ==
  ASSUME NEW g, NEW X, NEW Q, Ready(g, X, Q)
  PROVE  LET k == AutoCollect(g)
         IN Fit(k, X) /\ Inside(k, Q) /\ Spares(g.heap, k.heap, Q)
<1> DEFINE i == IdentifyGarbageWithCyclicRefs(g)
           d == IF g.lists["old"] = <<>> THEN g ELSE DestroyGarbage(i, "old")
           k == AutoCollect(g)
<1>1. CASE g.full.phase # "no" \/ g.lists["new"] = <<>>
  <2>1. k = g
    BY <1>1 DEF AutoCollect
  <2> QED  BY <2>1, SparesSelf DEF Ready
<1>2. CASE ~(g.full.phase # "no" \/ g.lists["new"] = <<>>)
  <2>1. k = DestroySomeNew(d)
    BY <1>2 DEF AutoCollect
  <2>2. Fit(i, X) /\ Inside(i, Q) /\ Spares(g.heap, i.heap, Q)
    BY SparesSelf, IdentifiesInside
  <2>3. "old" \in Lists
    BY DEF Lists
  <2> HIDE DEF i
  <2>4. Fit(d, X) /\ Inside(d, Q) /\ Spares(g.heap, d.heap, Q)
    <3>1. CASE g.lists["old"] = <<>>
      BY <3>1, SparesSelf DEF Ready
    <3>2. CASE g.lists["old"] # <<>>
      <4> DEFINE e == DestroyGarbage(i, "old")
      <4>1. d = e
        BY <3>2
      <4>2. Fit(e, X) /\ Swept(i, e)
        BY <2>2, <2>3, DestroysFit
      <4> HIDE DEF d, e
      <4>3. Inside(e, Q) /\ Spares(g.heap, e.heap, Q)
        BY <2>2, <4>2, SweptInside
      <4> QED  BY <4>1, <4>2, <4>3
    <3> QED  BY <3>1, <3>2
  <2> HIDE DEF d
  <2>5. Fit(k, X) /\ Swept(d, k)
    BY <2>1, <2>4, DestroysSome
  <2> HIDE DEF k
  <2>6. Inside(k, Q) /\ Spares(g.heap, k.heap, Q)
    BY <2>4, <2>5, SweptInside
  <2> QED  BY <2>5, <2>6 DEF k
<1> QED  BY <1>1, <1>2

(* A step that only sets the heap, the lists, the full cycle.              *)
LEMMA HeapSet ==
  ASSUME NEW g, NEW X, Fit(g, X), NEW h \in Heaps, Exact(h, InLists(g.lists) \cup X, DOMAIN g.map),
         Steady(g.heap, h), Untorn(g.heap, h)
  PROVE  LET k == [g EXCEPT !.heap = h]
         IN Fit(k, X) /\ Swept(g, k) /\ k.heap = h /\ k.lists = g.lists
<1> DEFINE k == [g EXCEPT !.heap = h]
<1>1. g \in Collectors
  BY MapType
<1>2. /\ k \in Collectors /\ k.heap = h /\ k.lists = g.lists /\ k.map = g.map
      /\ k.detect = g.detect /\ k.detectIdx = g.detectIdx /\ k.cursor = g.cursor
      /\ k.live = g.live /\ k.full = g.full /\ k.use = g.use
  BY <1>1 DEF Collectors
<1> HIDE DEF k
<1>3. Swept(g, k)
  BY <1>2 DEF Swept
<1>4. OldKept(g.lists, k.lists, DOMAIN g.map)
  <2>1. \A j \in 1 .. Len(g.lists["old"]) : j <= j
    OBVIOUS
  <2> QED  BY <1>2, <2>1 DEF OldKept
<1>5. Apart(k.lists) /\ X \cap InLists(k.lists) = {} /\ Exact(k.heap, InLists(k.lists) \cup X, DOMAIN k.map)
  BY <1>2 DEF Fit, Sound, Resting, InOrder
<1>6. Fit(k, X)
  BY <1>2, <1>3, <1>4, <1>5, StillFit
<1> QED  BY <1>2, <1>3, <1>6 DEF k

LEMMA CycleSet ==
  ASSUME NEW g, NEW X, Fit(g, X), NEW c \in Cycles
  PROVE  LET k == [g EXCEPT !.full = c]
         IN Fit(k, X) /\ k.heap = g.heap /\ \A Q : Inside(g, Q) => Inside(k, Q)
<1> DEFINE k == [g EXCEPT !.full = c]
<1>1. g \in Collectors /\ DOMAIN g.map \subseteq Objects
  BY MapType
<1>2. /\ k \in Collectors /\ k.heap = g.heap /\ k.lists = g.lists /\ k.map = g.map
      /\ k.detect = g.detect /\ k.detectIdx = g.detectIdx /\ k.cursor = g.cursor /\ k.live = g.live
  BY <1>1 DEF Collectors
<1> HIDE DEF k
<1>3. Fit(k, X)
  BY <1>2 DEF Fit, Sound, Resting, InOrder
<1>4. \A Q : Inside(g, Q) => Inside(k, Q)
  BY <1>1, <1>2, StillInside, SteadySelf
<1> QED  BY <1>2, <1>3, <1>4 DEF k

-----------------------------------------------------------------------------
(* A new object.                                                           *)
Pending(g, o) == [g EXCEPT !.heap = Placed(@, o)]
Added(a, o) == [a EXCEPT !.lists["new"] = Append(@, [obj |-> o, sweeps |-> 0])]

LEMMA CreatedIs ==
  ASSUME NEW g \in Collectors, NEW o  PROVE Created(g, o) = Added(AutoCollect(Pending(g, o)), o)
<1> DEFINE d == [g EXCEPT !.heap[o] = NewObject]
<1>1. Created(g, o) = AddScriptObjectToGC(d, o)
  BY DEF Created, NewObject
<1>2. [d EXCEPT !.heap = ObjAddRef(@, o)] = Pending(g, o)
  BY DEF Pending, Placed, Collectors
<1> HIDE DEF d
<1> QED  BY <1>1, <1>2 DEF AddScriptObjectToGC, Added

LEMMA PendingFit ==
  ASSUME NEW g, Fit(g, {}), NEW o \in Objects, g.heap[o].rc = 0
  PROVE  LET k == Pending(g, o)
         IN /\ Fit(k, {o}) /\ o \notin DOMAIN g.map /\ k.map = g.map /\ k.lists = g.lists
            /\ k.full = g.full /\ k.detect = g.detect /\ k.cursor = g.cursor /\ k.live = g.live
            /\ Steady(g.heap, k.heap) /\ Untorn(g.heap, k.heap)
            /\ ~k.heap[o].flag /\ ~g.heap[o].torn
            /\ \A x \in Objects \ {o} : k.heap[x] = g.heap[x]
<1> DEFINE h == Placed(g.heap, o)
           k == Pending(g, o)
           L == InLists(g.lists)
<1>1. /\ g \in Collectors /\ g.heap \in Heaps /\ Exact(g.heap, L, DOMAIN g.map)
  <2>1. L \cup {} = L
    OBVIOUS
  <2> QED  BY <2>1, MapType
<1>2. /\ o \notin L /\ h \in Heaps /\ Exact(h, L \cup {o}, DOMAIN g.map)
      /\ Steady(g.heap, h) /\ Untorn(g.heap, h)
      /\ ~h[o].torn /\ ~h[o].flag /\ g.heap[o] = NoObject
      /\ \A x \in Objects \ {o} : h[x] = g.heap[x]
  <2> DEFINE M == DOMAIN g.map
             d == g.heap
  <2>1. d \in Heaps /\ Exact(d, L, M) /\ d[o].rc = 0
    BY <1>1
  <2> HIDE DEF L, M, d
  <2>2. /\ o \notin L
        /\ Placed(d, o) \in Heaps /\ Exact(Placed(d, o), L \cup {o}, M)
        /\ Steady(d, Placed(d, o)) /\ Untorn(d, Placed(d, o))
        /\ ~Placed(d, o)[o].torn /\ ~Placed(d, o)[o].flag /\ d[o] = NoObject
        /\ \A x \in Objects \ {o} : Placed(d, o)[x] = d[x]
    BY <2>1, Creates
  <2> QED  BY <2>2 DEF M, d
<1>3. k = [g EXCEPT !.heap = h]
  BY DEF Pending
<1> HIDE DEF h, k
<1>4. /\ k \in Collectors /\ k.heap = h /\ k.lists = g.lists /\ k.map = g.map
      /\ k.detect = g.detect /\ k.detectIdx = g.detectIdx /\ k.cursor = g.cursor
      /\ k.live = g.live /\ k.full = g.full /\ k.use = g.use
  BY <1>1, <1>2, <1>3 DEF Collectors
<1>5. Fit(k, {o})
  BY <1>2, <1>4 DEF Fit, Sound, Resting, InOrder
<1>6. o \notin DOMAIN g.map
  BY <1>1, <1>2 DEF Exact
<1>7. ~g.heap[o].torn
  BY <1>2 DEF NoObject
<1> QED  BY <1>2, <1>4, <1>5, <1>6, <1>7 DEF k

LEMMA AddedFit ==
  ASSUME NEW g, NEW o \in Objects, Fit(g, {o})
  PROVE  LET k == Added(g, o)
         IN /\ Fit(k, {}) /\ k.heap = g.heap /\ k.detect = g.detect /\ k.lists["old"] = g.lists["old"]
            /\ \A Q : Inside(g, Q) => Inside(k, Q)
<1> DEFINE e == [obj |-> o, sweeps |-> 0]
           lists == With(g.lists, "new", e)
           k == Added(g, o)
<1>1. /\ g \in Collectors /\ DOMAIN g.map \subseteq Objects /\ g.lists \in [Lists -> Seq(Entries)]
      /\ Exact(g.heap, InLists(g.lists) \cup {o}, DOMAIN g.map)
  BY MapType
<1>2. Apart(g.lists) /\ o \notin InLists(g.lists)
  BY DEF Fit, Sound, Resting, InOrder
<1>3. e \in Entries /\ e.obj = o /\ "new" \in Lists /\ "old" \in Lists
  BY DEF Entries, Lists
<1>4. k = [g EXCEPT !.lists = lists]
  BY DEF Added, With
<1>5. lists["old"] = g.lists["old"]
  BY <1>1, <1>3 DEF With
<1> HIDE DEF e
<1>6. lists \in [Lists -> Seq(Entries)] /\ Apart(lists) /\ InLists(lists) = InLists(g.lists) \cup {o}
  <2>1. e.obj \notin InLists(g.lists)
    BY <1>2, <1>3
  <2>2. LET after == With(g.lists, "new", e)
        IN /\ after \in [Lists -> Seq(Entries)] /\ Apart(after)
           /\ InLists(after) = InLists(g.lists) \cup {e.obj}
           /\ \A kind \in Lists : \A j \in 1 .. Len(g.lists[kind]) :
                j \in 1 .. Len(after[kind]) /\ after[kind][j] = g.lists[kind][j]
    BY <1>1, <1>2, <1>3, <2>1, AppendedApart, Zenon
  <2> QED  BY <2>2, <1>3
<1> HIDE DEF lists, k
<1>7. /\ k \in Collectors /\ k.heap = g.heap /\ k.lists = lists /\ k.map = g.map
      /\ k.detect = g.detect /\ k.detectIdx = g.detectIdx /\ k.cursor = g.cursor /\ k.live = g.live
  BY <1>1, <1>4, <1>6 DEF Collectors
<1>8. Fit(k, {})
  <2>1. Exact(k.heap, InLists(k.lists) \cup {}, DOMAIN k.map)
    <3>1. InLists(k.lists) \cup {} = InLists(g.lists) \cup {o}
      BY <1>6, <1>7
    <3> QED  BY <3>1, <1>1, <1>7
  <2>2. {} \cap InLists(k.lists) = {}
    OBVIOUS
  <2>3. k.lists["old"] = g.lists["old"]
    BY <1>5, <1>7
  <2> QED  BY <1>6, <1>7, <2>1, <2>2, <2>3 DEF Fit, Sound, Resting, InOrder
<1>9. \A Q : Inside(g, Q) => Inside(k, Q)
  BY <1>1, <1>7, StillInside, SteadySelf
<1> QED  BY <1>5, <1>7, <1>8, <1>9 DEF k

-----------------------------------------------------------------------------
(* The invariant.                                                          *)
Whole(h, R) == \A o \in Reachable(h) : h[o].torn => o \in R
Kept(g, R) ==
  /\ Fit(g, {})
  /\ R \subseteq Objects
  /\ Inside(g, Reachable(g.heap) \ R)
  /\ Whole(g.heap, R)

LEMMA KeptType ==
  ASSUME NEW g, Fit(g, {})
  PROVE  /\ g \in Collectors /\ g.heap \in Heaps /\ Exact(g.heap, InLists(g.lists), DOMAIN g.map)
         /\ Reachable(g.heap) \subseteq Linked(g.heap) /\ Linked(g.heap) \subseteq Objects
<1>1. g \in Collectors /\ g.heap \in Heaps /\ Exact(g.heap, InLists(g.lists), DOMAIN g.map)
  <2>1. InLists(g.lists) \cup {} = InLists(g.lists)
    OBVIOUS
  <2> QED  BY <2>1, MapType
<1>2. Reachable(g.heap) \subseteq Linked(g.heap) \ {}
  <2>1. \A o \in {} : Closed(g.heap, {}, o)
    OBVIOUS
  <2> QED  BY <1>1, <2>1, ReachesLinked
<1> QED  BY <1>1, <1>2 DEF Linked

LEMMA Steps ==
  ASSUME NEW g, NEW R, Kept(g, R), NEW C, \A o \in C : ~g.heap[o].torn,
         NEW k, Fit(k, {}), Inside(k, (Reachable(g.heap) \ R) \cup C),
         Spares(g.heap, k.heap, (Reachable(g.heap) \ R) \cup C), NEW S,
         S = (R \cup (Reachable(k.heap) \ (Reachable(g.heap) \cup C))) \cap Linked(k.heap)
  PROVE  Kept(k, S)
<1>1. Reachable(k.heap) \subseteq Linked(k.heap) /\ Linked(k.heap) \subseteq Objects
  BY KeptType
<1>2. Reachable(k.heap) \ S \subseteq (Reachable(g.heap) \ R) \cup C
  BY <1>1
<1>3. Inside(k, Reachable(k.heap) \ S)
  BY <1>2, FewerInside
<1>4. ASSUME NEW o \in Reachable(k.heap), k.heap[o].torn, o \notin S  PROVE FALSE
  <2>1. o \in (Reachable(g.heap) \ R) \cup C /\ o \in Objects
    BY <1>1, <1>2, <1>4
  <2>2. g.heap[o].torn
    BY <1>4, <2>1 DEF Spares
  <2> QED  BY <2>1, <2>2 DEF Kept, Whole
<1>5. Whole(k.heap, S)
  BY <1>4 DEF Whole
<1> QED  BY <1>1, <1>3, <1>5 DEF Kept

LEMMA IsReady ==
  ASSUME NEW g, NEW R, Kept(g, R)
  PROVE  Ready(g, {}, Reachable(g.heap) \ R)
<1>1. /\ g.heap \in Heaps /\ Exact(g.heap, InLists(g.lists), DOMAIN g.map)
  BY KeptType DEF Kept
<1> DEFINE P == Reachable(g.heap) \ R
<1>2. \A o \in {} : ~g.heap[o].flag
  OBVIOUS
<1>3. Outside(g.heap, P \cup {})
  BY <1>1, <1>2, SteadySelf, LeavesOutside
<1>4. P \cup {} = P
  OBVIOUS
<1> QED  BY <1>3, <1>4 DEF Ready, Kept

LEMMA CreatesKept ==
  ASSUME NEW g, NEW R, Kept(g, R), NEW o \in Objects, g.heap[o].rc = 0
  PROVE  LET k == Created(g, o)
             Q == (Reachable(g.heap) \ R) \cup {o}
         IN Fit(k, {}) /\ Inside(k, Q) /\ Spares(g.heap, k.heap, Q) /\ ~g.heap[o].torn
<1> DEFINE P == Reachable(g.heap) \ R
           Q == P \cup {o}
           p == Pending(g, o)
           a == AutoCollect(p)
<1>1. Fit(g, {}) /\ g \in Collectors /\ g.heap \in Heaps /\ Exact(g.heap, InLists(g.lists), DOMAIN g.map)
      /\ Inside(g, P)
  BY KeptType DEF Kept
<1>2. Created(g, o) = Added(a, o)
  BY <1>1, CreatedIs
<1>3. /\ Fit(p, {o}) /\ o \notin DOMAIN g.map /\ p.map = g.map /\ p.lists = g.lists
      /\ p.full = g.full /\ p.detect = g.detect /\ p.cursor = g.cursor /\ p.live = g.live
      /\ Steady(g.heap, p.heap) /\ Untorn(g.heap, p.heap)
      /\ ~p.heap[o].flag /\ ~g.heap[o].torn
  BY <1>1, PendingFit
<1> HIDE DEF p
<1>4. Inside(p, Q)
  <2>1. Inside(p, P)
    BY <1>1, <1>3, MapType, StillInside
  <2>2. DOMAIN p.map \cap Q \subseteq P
    BY <1>3
  <2> HIDE DEF P, Q
  <2> QED  BY <2>1, <2>2, FewerInside
<1>5. Outside(p.heap, Q)
  <2>1. \A x \in {o} : ~p.heap[x].flag
    BY <1>3
  <2> QED  BY <1>1, <1>3, <2>1, LeavesOutside
<1> HIDE DEF Q
<1>6. Fit(a, {o}) /\ Inside(a, Q) /\ Spares(p.heap, a.heap, Q)
  BY <1>3, <1>4, <1>5, CollectsSome DEF Ready
<1> HIDE DEF a
<1> DEFINE k == Added(a, o)
<1>7. Fit(k, {}) /\ k.heap = a.heap /\ Inside(k, Q)
  BY <1>6, AddedFit
<1> HIDE DEF k
<1>8. Spares(g.heap, k.heap, Q)
  BY <1>3, <1>6, <1>7 DEF Spares, Untorn
<1> QED  BY <1>2, <1>3, <1>7, <1>8 DEF k, Q, P

-----------------------------------------------------------------------------
(* The invariant of the specification.                                     *)
GcInv == Kept(gc, raised) /\ moves \in 0 .. Moves

(* A step that creates C and leaves g keeps it. *)
LEMMA RisenKept ==
  ASSUME GcInv, NEW C, \A o \in C : ~gc.heap[o].torn, NEW g, Fit(g, {}),
         Inside(g, (Reachable(gc.heap) \ raised) \cup C),
         Spares(gc.heap, g.heap, (Reachable(gc.heap) \ raised) \cup C)
  PROVE  Kept(g, Risen(g, C))
BY Steps DEF GcInv, Risen

LEMMA RestKept ==
  ASSUME GcInv, NEW g, Fit(g, {}),
         Inside(g, Reachable(gc.heap) \ raised),
         Spares(gc.heap, g.heap, Reachable(gc.heap) \ raised)
  PROVE  Kept(g, Risen(g, {}))
<1> DEFINE P == Reachable(gc.heap) \ raised
<1>1. P \cup {} = P
  OBVIOUS
<1>2. \A o \in {} : ~gc.heap[o].torn
  OBVIOUS
<1> QED  BY <1>1, <1>2, RisenKept

(* The script's heap. *)
LEMMA HeapKept ==
  ASSUME GcInv, NEW h \in Heaps, Exact(h, InLists(gc.lists), DOMAIN gc.map),
         Steady(gc.heap, h), Untorn(gc.heap, h)
  PROVE  Kept(WithHeap(h), Risen(WithHeap(h), {}))
<1> DEFINE g == WithHeap(h)
           P == Reachable(gc.heap) \ raised
<1>1. Fit(gc, {}) /\ Inside(gc, P)
  BY DEF GcInv, Kept
<1>2. Fit(g, {}) /\ Swept(gc, g)
  <2>1. InLists(gc.lists) \cup {} = InLists(gc.lists)
    OBVIOUS
  <2> QED  BY <1>1, <2>1, HeapSet DEF WithHeap
<1> HIDE DEF g
<1>3. Inside(g, P) /\ Spares(gc.heap, g.heap, P)
  <2>1. Spares(gc.heap, gc.heap, P)
    BY SparesSelf
  <2> HIDE DEF P
  <2> QED  BY <1>1, <1>2, <2>1, SweptInside
<1> QED  BY <1>2, <1>3, RestKept DEF g

LEMMA ScriptMoves ==
  ASSUME NEW g, NEW C, Kept(g, Risen(g, C)), GcInv, ScriptStep(g, C)
  PROVE  GcInv'
<1>1. gc' = g /\ raised' = Risen(g, C) /\ moves > 0 /\ moves' = moves - 1
  BY DEF ScriptStep
<1>2. moves' \in 0 .. Moves
  BY <1>1, GcAssumption DEF GcInv
<1>3. Kept(gc', raised')
  BY <1>1
<1> QED  BY <1>2, <1>3 DEF GcInv

LEMMA CollectorMoves ==
  ASSUME NEW g, Kept(g, Risen(g, {})), GcInv, CollectorStep(g)
  PROVE  GcInv'
<1>1. gc' = g /\ raised' = Risen(g, {}) /\ moves' = moves
  BY DEF CollectorStep
<1>2. Kept(gc', raised')
  BY <1>1
<1> QED  BY <1>1, <1>2 DEF GcInv

LEMMA HeapIs ==
  ASSUME GcInv
  PROVE  /\ gc.heap \in Heaps /\ Exact(gc.heap, InLists(gc.lists), DOMAIN gc.map)
         /\ gc \in Collectors /\ Fit(gc, {})
BY KeptType DEF GcInv, Kept

LEMMA ScriptKept == GcInv /\ Script => GcInv'
<1> SUFFICES ASSUME GcInv, Script  PROVE GcInv'
  OBVIOUS
<1> DEFINE h == gc.heap
           L == InLists(gc.lists)
           M == DOMAIN gc.map
<1>1. /\ h \in Heaps /\ Exact(h, L, M) /\ gc \in Collectors /\ Fit(gc, {})
      /\ \A o \in Objects : h[o].held \in Nat
  BY HeapIs, HeapType
<1>2. ASSUME NEW o \in Objects, CreateObject(o)  PROVE GcInv'
  <2> DEFINE g == Created(gc, o)
  <2>1. h[o].rc = 0 /\ ScriptStep(g, {o})
    BY <1>2 DEF CreateObject
  <2>2. LET Q == (Reachable(gc.heap) \ raised) \cup {o}
        IN Fit(g, {}) /\ Inside(g, Q) /\ Spares(gc.heap, g.heap, Q) /\ ~gc.heap[o].torn
    BY <2>1, CreatesKept DEF GcInv
  <2> HIDE DEF g
  <2>3. Kept(g, Risen(g, {o}))
    BY <2>2, RisenKept
  <2> QED  BY <2>1, <2>3, ScriptMoves
<1>3. ASSUME NEW o \in L, TakeHandle(o)  PROVE GcInv'
  <2> DEFINE k == [ObjAddRef(h, o) EXCEPT ![o].held = 1]
  <2>1. h[o].held = 0 /\ ScriptStep(WithHeap(k), {})
    BY <1>3 DEF TakeHandle
  <2>2. k \in Heaps /\ Exact(k, L, M) /\ Steady(h, k) /\ Untorn(h, k)
    <3> HIDE DEF L, M
    <3> QED  BY <1>1, <2>1, TakesHandle
  <2> HIDE DEF k
  <2>3. Kept(WithHeap(k), Risen(WithHeap(k), {}))
    BY <2>2, HeapKept
  <2> QED  BY <2>1, <2>3, ScriptMoves
<1>4. ASSUME NEW o \in Objects, LoadHandle(o)  PROVE GcInv'
  <2>1. h[o].next # Null /\ TakeHandle(h[o].next)
    BY <1>4 DEF LoadHandle
  <2>2. h[o].next \in Objects
    BY <1>1, <2>1, HeapType
  <2>3. h[o].next \in L
    <3> HIDE DEF L, M
    <3> QED  BY <1>1, <2>2, ExactGives
  <2> QED  BY <2>1, <2>3, <1>3
<1>5. ASSUME NEW o \in Objects, LoadWeak(o)  PROVE GcInv'
  <2>1. h[o].weak = "held" /\ TakeHandle(o)
    BY <1>5 DEF LoadWeak
  <2>2. h[o].rc # 0
    BY <1>1, <2>1 DEF Exact, NoObject
  <2>3. o \in L
    BY <1>1, <2>2, HeapType DEF Exact
  <2> QED  BY <2>1, <2>3, <1>3
<1>6. ASSUME NEW o \in Objects, h[o].held > 0  PROVE o \in L
  <2> HIDE DEF L, M
  <2> QED  BY <1>1, <1>6, ExactGives
<1>7. ASSUME NEW o \in Objects, KeepWeak(o)  PROVE GcInv'
  <2> DEFINE k == [h EXCEPT ![o].weak = "held"]
  <2>1. o \in L /\ ScriptStep(WithHeap(k), {})
    BY <1>6, <1>7 DEF KeepWeak
  <2>2. k \in Heaps /\ Exact(k, L, M) /\ Steady(h, k) /\ Untorn(h, k)
    <3>1. "held" \in {"none", "held", "dead"}
      OBVIOUS
    <3> HIDE DEF L, M
    <3> QED  BY <1>1, <2>1, <3>1, KeepsWeak
  <2> HIDE DEF k
  <2>3. Kept(WithHeap(k), Risen(WithHeap(k), {}))
    BY <2>2, HeapKept
  <2> QED  BY <2>1, <2>3, ScriptMoves
<1>8. ASSUME NEW o \in Objects, DropHandle(o)  PROVE GcInv'
  <2> DEFINE k == ObjRelease([h EXCEPT ![o].held = @ - 1], o)
  <2>1. h[o].held > 0 /\ ScriptStep(WithHeap(k), {})
    BY <1>8 DEF DropHandle
  <2>2. k \in Heaps /\ Exact(k, L, M) /\ Steady(h, k) /\ Untorn(h, k)
    <3> HIDE DEF L, M
    <3> QED  BY <1>1, <2>1, DropsHandle
  <2> HIDE DEF k
  <2>3. Kept(WithHeap(k), Risen(WithHeap(k), {}))
    BY <2>2, HeapKept
  <2> QED  BY <2>1, <2>3, ScriptMoves
<1>9. ASSUME NEW o \in Objects, NEW p \in Objects \cup {Null}, AssignHandle(o, p)  PROVE GcInv'
  <2> DEFINE k == SetHandle(h, o, p)
  <2>1. o \in L /\ (p # Null => p \in L) /\ p # h[o].next /\ ScriptStep(WithHeap(k), {})
    BY <1>6, <1>9 DEF AssignHandle
  <2>2. k \in Heaps /\ Exact(k, L, M) /\ Steady(h, k) /\ Untorn(h, k)
    <3> HIDE DEF L, M
    <3> QED  BY <1>1, <2>1, MovesHandle
  <2> HIDE DEF k
  <2>3. Kept(WithHeap(k), Risen(WithHeap(k), {}))
    BY <2>2, HeapKept
  <2> QED  BY <2>1, <2>3, ScriptMoves
<1> QED  BY <1>2, <1>4, <1>5, <1>7, <1>8, <1>9 DEF Script

(* The collector's steps, in and out of a full cycle. *)
LEMMA DestroysKept ==
  ASSUME NEW g, NEW Q, Ready(g, {}, Q), NEW list \in Lists
  PROVE  LET k == DestroyGarbage(g, list)
         IN Ready(k, {}, Q) /\ \A h : Spares(h, g.heap, Q) => Spares(h, k.heap, Q)
<1> DEFINE k == DestroyGarbage(g, list)
<1>1. Fit(k, {}) /\ Swept(g, k)
  BY DestroysFit DEF Ready
<1> HIDE DEF k
<1>2. /\ Inside(k, Q) /\ Outside(k.heap, Q)
      /\ \A h : Spares(h, g.heap, Q) => Spares(h, k.heap, Q)
  BY <1>1, SweptInside DEF Ready
<1> QED  BY <1>1, <1>2 DEF Ready, k

LEMMA ReadyNow ==
  ASSUME GcInv
  PROVE  LET Q == Reachable(gc.heap) \ raised
         IN Ready(gc, {}, Q) /\ Spares(gc.heap, gc.heap, Q)
BY IsReady, SparesSelf DEF GcInv

LEMMA CollectKept ==
  ASSUME GcInv, NEW doDetect \in BOOLEAN, NEW doDestroy \in BOOLEAN, GarbageCollect(doDetect, doDestroy)
  PROVE  GcInv'
<1> DEFINE Q == Reachable(gc.heap) \ raised
           d == IF doDestroy THEN Destroyed(gc) ELSE gc
           g == IF doDetect THEN Detected(d) ELSE d
<1>1. CollectorStep(g)
  BY DEF GarbageCollect
<1>2. Ready(gc, {}, Q) /\ Spares(gc.heap, gc.heap, Q) /\ "new" \in Lists /\ "old" \in Lists
  BY ReadyNow DEF Lists
<1> HIDE DEF Q
<1>3. Ready(d, {}, Q) /\ Spares(gc.heap, d.heap, Q)
  <2>1. CASE doDestroy
    <3> DEFINE e == DestroyGarbage(gc, "new")
               f == DestroyGarbage(e, "old")
    <3>1. d = f
      BY <2>1 DEF Destroyed
    <3>2. Ready(e, {}, Q) /\ Spares(gc.heap, e.heap, Q)
      BY <1>2, DestroysKept
    <3> HIDE DEF d, e
    <3>3. Ready(f, {}, Q) /\ Spares(gc.heap, f.heap, Q)
      BY <1>2, <3>2, DestroysKept
    <3> QED  BY <3>1, <3>3
  <2>2. CASE ~doDestroy
    BY <2>2, <1>2
  <2> QED  BY <2>1, <2>2
<1> HIDE DEF d
<1>4. Fit(g, {}) /\ Inside(g, Q) /\ Spares(gc.heap, g.heap, Q)
  <2>1. CASE doDetect /\ d.lists["old"] # <<>>
    <3>1. g = IdentifyGarbageWithCyclicRefs(d)
      BY <2>1 DEF Detected
    <3> HIDE DEF g
    <3> QED  BY <1>3, <3>1, IdentifiesInside
  <2>2. CASE ~(doDetect /\ d.lists["old"] # <<>>)
    <3>1. g = d
      BY <2>2 DEF Detected
    <3> HIDE DEF g
    <3> QED  BY <1>3, <3>1 DEF Ready
  <2> QED  BY <2>1, <2>2
<1> HIDE DEF g
<1>5. Kept(g, Risen(g, {}))
  BY <1>4, RestKept DEF Q
<1> QED  BY <1>1, <1>5, CollectorMoves

LEMMA CycleKept == GcInv /\ FullCycleStep => GcInv'
<1> SUFFICES ASSUME GcInv, FullCycleStep  PROVE GcInv'
  OBVIOUS
<1> DEFINE Q == Reachable(gc.heap) \ raised
           g == CASE gc.full.phase = "detect" -> IdentifyGarbageWithCyclicRefs(gc)
                  [] gc.full.phase = "destroyNew" -> DestroyGarbage(gc, "new")
                  [] gc.full.phase = "destroyOld" -> DestroyGarbage(gc, "old")
           k == IF g.ret = 0 THEN Finished(g) ELSE g
<1>1. CollectorStep(k) /\ gc.full.phase # "no"
  BY DEF FullCycleStep, Idle
<1>2. Ready(gc, {}, Q) /\ Spares(gc.heap, gc.heap, Q) /\ "new" \in Lists /\ "old" \in Lists
  BY ReadyNow DEF Lists
<1>3. gc.full.phase \in {"detect", "destroyNew", "destroyOld"}
  <2>1. gc.full \in Cycles
    BY HeapIs, FitType
  <2> QED  BY <1>1, <2>1 DEF Cycles
<1> HIDE DEF Q
<1>4. Fit(g, {}) /\ Inside(g, Q) /\ Spares(gc.heap, g.heap, Q)
  <2>1. CASE gc.full.phase = "detect"
    <3>1. g = IdentifyGarbageWithCyclicRefs(gc)
      BY <2>1
    <3> HIDE DEF g
    <3> QED  BY <1>2, <3>1, IdentifiesInside
  <2>2. CASE gc.full.phase = "destroyNew"
    <3>1. g = DestroyGarbage(gc, "new")
      BY <2>2
    <3> HIDE DEF g
    <3> QED  BY <1>2, <3>1, DestroysKept DEF Ready
  <2>3. CASE gc.full.phase = "destroyOld"
    <3>1. g = DestroyGarbage(gc, "old")
      BY <2>3
    <3> HIDE DEF g
    <3> QED  BY <1>2, <3>1, DestroysKept DEF Ready
  <2> QED  BY <1>3, <2>1, <2>2, <2>3
<1> HIDE DEF g
<1>5. Fit(k, {}) /\ Inside(k, Q) /\ Spares(gc.heap, k.heap, Q)
  <2>1. CASE g.ret = 0
    <3>1. g \in Collectors /\ g.full \in Cycles /\ Len(g.lists["old"]) \in Nat
      <4>1. g \in Collectors /\ g.lists["old"] \in Seq(Entries)
        BY <1>2, <1>4, MapType
      <4> QED  BY <4>1, FitType
    <3>2. \E c \in Cycles : k = [g EXCEPT !.full = c]
      <4> DEFINE f == g.full
                 n == Len(g.lists["old"])
      <4>1. CASE (f.phase = "detect" /\ f.doDestroy) \/ f.phase = "destroyNew"
        <5>1. k = [g EXCEPT !.full = [f EXCEPT !.phase = "destroyOld"]]
          BY <2>1, <4>1 DEF Finished
        <5>2. [f EXCEPT !.phase = "destroyOld"] \in Cycles
          BY <3>1 DEF Cycles
        <5> QED  BY <5>1, <5>2
      <4>2. CASE ~((f.phase = "detect" /\ f.doDestroy) \/ f.phase = "destroyNew") /\ f.count # n
        <5>1. k = [g EXCEPT !.full = [f EXCEPT !.count = n, !.phase = FirstPhase(f)]]
          BY <2>1, <4>2 DEF Finished
        <5>2. [f EXCEPT !.count = n, !.phase = FirstPhase(f)] \in Cycles
          BY <3>1 DEF Cycles, FirstPhase
        <5> QED  BY <5>1, <5>2
      <4>3. CASE ~((f.phase = "detect" /\ f.doDestroy) \/ f.phase = "destroyNew") /\ f.count = n
        <5>1. k = [g EXCEPT !.full = NoCycle]
          BY <2>1, <4>3 DEF Finished
        <5>2. NoCycle \in Cycles
          BY DEF Cycles, NoCycle
        <5> QED  BY <5>1, <5>2
      <4> QED  BY <4>1, <4>2, <4>3
    <3>3. PICK c \in Cycles : k = [g EXCEPT !.full = c]
      BY <3>2
    <3> HIDE DEF k
    <3>4. Fit(k, {}) /\ k.heap = g.heap /\ \A P : Inside(g, P) => Inside(k, P)
      BY <1>4, <3>3, CycleSet
    <3> QED  BY <1>4, <3>4
  <2>2. CASE g.ret # 0
    <3>1. k = g
      BY <2>2
    <3> HIDE DEF k
    <3> QED  BY <3>1, <1>4
  <2> QED  BY <2>1, <2>2
<1> HIDE DEF k
<1>6. Kept(k, Risen(k, {}))
  BY <1>5, RestKept DEF Q
<1> QED  BY <1>1, <1>6, CollectorMoves

(* A full cycle moves the new objects behind the old. *)
AllOld(lists) == [list \in Lists |-> IF list = "old" THEN lists["old"] \o lists["new"] ELSE <<>>]

LEMMA AllOldApart ==
  ASSUME NEW lists \in [Lists -> Seq(Entries)], Apart(lists)
  PROVE  LET after == AllOld(lists)
         IN after \in [Lists -> Seq(Entries)] /\ Apart(after) /\ InLists(after) = InLists(lists)
<1> DEFINE s == lists["old"]
           t == lists["new"]
           u == s \o t
           after == AllOld(lists)
           n == Len(s)
           m == Len(t)
<1>1. s \in Seq(Entries) /\ t \in Seq(Entries) /\ n \in Nat /\ m \in Nat /\ "old" \in Lists /\ "new" \in Lists
  BY DEF Lists
<1>2. /\ u \in Seq(Entries) /\ Len(u) = n + m
      /\ \A i \in 1 .. n + m : u[i] = IF i <= n THEN s[i] ELSE t[i - n]
  <2> HIDE DEF s, t
  <2> QED  BY <1>1
<1>3. after["old"] = u /\ after["new"] = <<>> /\ after = [list \in Lists |-> after[list]]
  BY <1>1 DEF AllOld
<1> HIDE DEF after, u
<1>4. after \in [Lists -> Seq(Entries)]
  <2>1. \A list \in Lists : after[list] \in Seq(Entries)
    <3>1. after["old"] \in Seq(Entries) /\ after["new"] \in Seq(Entries)
      BY <1>2, <1>3
    <3> QED  BY <3>1 DEF Lists
  <2> QED  BY <1>3, <2>1
<1>5. Len(after["new"]) = 0 /\ Len(after["old"]) = n + m
  BY <1>2, <1>3
<1>6. ASSUME NEW i \in 1 .. n + m
      PROVE  \/ i \in 1 .. n /\ u[i] = lists["old"][i]
             \/ i - n \in 1 .. m /\ u[i] = lists["new"][i - n]
  <2>1. CASE i <= n
    BY <1>1, <1>2, <2>1
  <2>2. CASE ~(i <= n)
    <3>1. i - n \in 1 .. m
      BY <1>1, <2>2
    <3> QED  BY <1>2, <2>2, <3>1
  <2> QED  BY <2>1, <2>2
<1>7. ASSUME NEW i \in 1 .. n + m, NEW j \in 1 .. n + m, u[i].obj = u[j].obj  PROVE i = j
  <2>1. CASE i \in 1 .. n /\ u[i] = lists["old"][i] /\ j \in 1 .. n /\ u[j] = lists["old"][j]
    BY <1>1, <1>7, <2>1 DEF Apart
  <2>2. CASE i - n \in 1 .. m /\ u[i] = lists["new"][i - n] /\ j - n \in 1 .. m /\ u[j] = lists["new"][j - n]
    <3>1. i - n = j - n
      BY <1>1, <1>7, <2>2 DEF Apart
    <3> QED  BY <1>1, <3>1
  <2>3. CASE i \in 1 .. n /\ u[i] = lists["old"][i] /\ j - n \in 1 .. m /\ u[j] = lists["new"][j - n]
    <3>1. "old" = "new"
      BY <1>1, <1>7, <2>3 DEF Apart
    <3> QED  BY <3>1
  <2>4. CASE i - n \in 1 .. m /\ u[i] = lists["new"][i - n] /\ j \in 1 .. n /\ u[j] = lists["old"][j]
    <3>1. "old" = "new"
      BY <1>1, <1>7, <2>4 DEF Apart
    <3> QED  BY <3>1
  <2> QED  BY <1>6, <2>1, <2>2, <2>3, <2>4
<1>8. Apart(after)
  <2>1. ASSUME NEW list \in Lists, NEW kind \in Lists, NEW i \in 1 .. Len(after[list]),
               NEW j \in 1 .. Len(after[kind]), after[list][i].obj = after[kind][j].obj
        PROVE  list = kind /\ i = j
    <3>1. list = "old" /\ kind = "old"
      BY <1>5 DEF Lists
    <3> QED  BY <1>3, <1>5, <1>7, <2>1, <3>1
  <2> QED  BY <2>1 DEF Apart
<1>9. ASSUME NEW o \in InLists(after)  PROVE o \in InLists(lists)
  <2>1. PICK list \in Lists : \E i \in 1 .. Len(after[list]) : after[list][i].obj = o
    BY DEF InLists
  <2>2. PICK i \in 1 .. Len(after[list]) : after[list][i].obj = o
    BY <2>1
  <2>3. list = "old"
    BY <1>5 DEF Lists
  <2>4. i \in 1 .. n + m /\ u[i].obj = o
    BY <1>3, <1>5, <2>2, <2>3
  <2>5. o \in Objects
    BY DEF InLists
  <2> QED  BY <1>1, <1>6, <2>4, <2>5 DEF InLists
<1>10. ASSUME NEW o \in InLists(lists)  PROVE o \in InLists(after)
  <2>1. PICK list \in Lists : \E i \in 1 .. Len(lists[list]) : lists[list][i].obj = o
    BY DEF InLists
  <2>2. PICK i \in 1 .. Len(lists[list]) : lists[list][i].obj = o
    BY <2>1
  <2>3. \E j \in 1 .. n + m : u[j].obj = o
    <3>1. CASE list = "old"
      <4>1. i \in 1 .. n + m /\ i <= n
        BY <1>1, <2>2, <3>1
      <4>2. u[i] = s[i]
        BY <1>2, <4>1
      <4> QED  BY <2>2, <3>1, <4>1, <4>2
    <3>2. CASE list = "new"
      <4> DEFINE j == i + n
      <4>1. j \in 1 .. n + m /\ ~(j <= n) /\ j - n = i
        BY <1>1, <2>2, <3>2
      <4> HIDE DEF j
      <4>2. u[j] = t[i]
        BY <1>2, <4>1
      <4> QED  BY <2>2, <3>2, <4>1, <4>2
    <3> QED  BY <3>1, <3>2 DEF Lists
  <2>4. o \in Objects
    BY DEF InLists
  <2> QED  BY <1>1, <1>3, <1>5, <2>3, <2>4 DEF InLists
<1> QED  BY <1>4, <1>8, <1>9, <1>10 DEF after

LEMMA StartKept ==
  ASSUME GcInv, NEW doDetect \in BOOLEAN, NEW doDestroy \in BOOLEAN, StartFullCycle(doDetect, doDestroy)
  PROVE  GcInv'
<1> DEFINE moved == [gc EXCEPT !.lists = AllOld(@), !.detect = "clearCounters", !.detectIdx = 0,
                               !.cursor = Null, !.live = <<>>]
           g == IF doDetect THEN moved ELSE gc
           f == [NoCycle EXCEPT !.doDetect = doDetect, !.doDestroy = doDestroy]
           c == [f EXCEPT !.phase = FirstPhase(f), !.count = Len(g.lists["old"])]
           e == IF doDestroy THEN [g EXCEPT !.sweep = [list \in Lists |-> Unstarted]] ELSE g
           k == [e EXCEPT !.full = c]
           P == Reachable(gc.heap) \ raised
<1>1. gc' = k /\ raised' = raised /\ moves' = moves
  BY DEF StartFullCycle, AllOld
<1>2. /\ gc \in Collectors /\ Fit(gc, {}) /\ gc.heap \in Heaps /\ gc.lists \in [Lists -> Seq(Entries)]
      /\ Exact(gc.heap, InLists(gc.lists), DOMAIN gc.map) /\ Apart(gc.lists) /\ Inside(gc, P)
  BY HeapIs, MapType DEF GcInv, Kept, Fit, Sound
<1>3. Fit(g, {}) /\ g.heap = gc.heap /\ Inside(g, P)
  <2>1. CASE doDetect
    <3>1. g = moved
      BY <2>1
    <3>2. AllOld(gc.lists) \in [Lists -> Seq(Entries)] /\ Apart(AllOld(gc.lists))
          /\ InLists(AllOld(gc.lists)) = InLists(gc.lists)
      BY <1>2, AllOldApart
    <3>3. "clearCounters" \in Phases /\ <<>> \in Seq(Objects) /\ 0 \in Nat
      BY DEF Phases
    <3>4. /\ moved \in Collectors /\ moved.heap = gc.heap /\ moved.lists = AllOld(gc.lists)
          /\ moved.detect = "clearCounters" /\ moved.cursor = Null /\ moved.map = gc.map
      BY <1>2, <3>2, <3>3 DEF Collectors
    <3> HIDE DEF moved, g
    <3>5. Exact(moved.heap, InLists(moved.lists) \cup {}, DOMAIN moved.map)
      <4>1. InLists(moved.lists) \cup {} = InLists(gc.lists)
        BY <3>2, <3>4
      <4> QED  BY <1>2, <3>4, <4>1
    <3>6. Fit(moved, {})
      BY <3>2, <3>4, <3>5 DEF Fit, Sound, Resting, InOrder
    <3>7. Inside(moved, P)
      BY <3>4 DEF Inside
    <3> QED  BY <3>1, <3>4, <3>6, <3>7
  <2>2. CASE ~doDetect
    BY <2>2, <1>2
  <2> QED  BY <2>1, <2>2
<1> HIDE DEF g, P
<1>4. g \in Collectors /\ DOMAIN g.map \subseteq Objects /\ Len(g.lists["old"]) \in Nat
  <2>1. g \in Collectors /\ DOMAIN g.map \subseteq Objects /\ g.lists["old"] \in Seq(Entries)
    BY <1>3, MapType DEF Lists
  <2> QED  BY <2>1
<1>5. Fit(e, {}) /\ e.heap = gc.heap /\ Inside(e, P)
  <2>1. CASE doDestroy
    <3> DEFINE sweep == [list \in Lists |-> Unstarted]
    <3>1. e = [g EXCEPT !.sweep = sweep]
      BY <2>1
    <3>2. sweep \in [Lists -> Sweeps]
      BY DEF Sweeps, Unstarted
    <3> HIDE DEF e, sweep
    <3>3. e \in Collectors /\ Likewise(g, e)
      BY <1>4, <3>1, <3>2 DEF Collectors, Likewise
    <3>4. Fit(e, {}) /\ Swept(g, e)
      BY <1>3, <3>3, LikewiseFit
    <3>5. Inside(e, P)
      BY <1>3, <3>4, SweptInside
    <3> QED  BY <1>3, <3>3, <3>4, <3>5 DEF Likewise
  <2>2. CASE ~doDestroy
    BY <2>2, <1>3
  <2> QED  BY <2>1, <2>2
<1> HIDE DEF e
<1>6. c \in Cycles
  <2>1. f \in Cycles /\ FirstPhase(f) \in {"detect", "destroyNew"}
    BY DEF NoCycle, Cycles, FirstPhase
  <2> HIDE DEF f
  <2> QED  BY <1>4, <2>1 DEF Cycles
<1> HIDE DEF c
<1>7. Fit(k, {}) /\ k.heap = gc.heap /\ Inside(k, P)
  BY <1>5, <1>6, CycleSet
<1> HIDE DEF k
<1>8. Kept(k, raised)
  BY <1>7 DEF GcInv, Kept, P
<1>9. Kept(gc', raised')
  BY <1>1, <1>8
<1> QED  BY <1>1, <1>9 DEF GcInv

-----------------------------------------------------------------------------
(* The script begins with two objects.                                     *)
LEMMA BeginsKept ==
  ASSUME NEW g, Fit(g, {}), g.detect = "clearCounters", g.lists["old"] = <<>>,
         \A x \in Objects : ~g.heap[x].torn, NEW o \in Objects, g.heap[o].rc = 0
  PROVE  LET k == Created(g, o)
         IN /\ Fit(k, {}) /\ k.detect = "clearCounters" /\ \A x \in Objects : ~k.heap[x].torn
            /\ g.lists["new"] = <<>> =>
                 k.lists["old"] = <<>> /\ \A x \in Objects \ {o} : k.heap[x] = g.heap[x]
<1> DEFINE p == Pending(g, o)
           a == AutoCollect(p)
           k == Added(a, o)
<1>1. g \in Collectors
  BY MapType
<1>2. Created(g, o) = k
  BY <1>1, CreatedIs
<1>3. /\ Fit(p, {o}) /\ p.lists = g.lists /\ p.full = g.full /\ p.detect = g.detect
      /\ Untorn(g.heap, p.heap)
      /\ \A x \in Objects \ {o} : p.heap[x] = g.heap[x]
  BY PendingFit
<1> HIDE DEF p
<1>4. a = IF p.full.phase # "no" \/ p.lists["new"] = <<>> THEN p ELSE DestroySomeNew(p)
  BY <1>3 DEF AutoCollect
<1> HIDE DEF a
<1>5. Fit(a, {o}) /\ Swept(p, a)
  BY <1>3, <1>4, SweptSelf, DestroysSome
<1>6. /\ Fit(k, {}) /\ k.heap = a.heap /\ k.detect = a.detect /\ k.lists["old"] = a.lists["old"]
  BY <1>5, AddedFit
<1> HIDE DEF k
<1>7. k.detect = "clearCounters" /\ \A x \in Objects : ~k.heap[x].torn
  BY <1>3, <1>5, <1>6 DEF Swept, Untorn
<1>8. g.lists["new"] = <<>> => a = p
  BY <1>3, <1>4
<1> QED  BY <1>2, <1>3, <1>6, <1>7, <1>8

LEMMA InitKept == GcInit => GcInv
<1> SUFFICES ASSUME GcInit  PROVE GcInv
  OBVIOUS
<1>1. PICK use \in Uses : gc = Created(Created(Unused(use), 1), 2)
  BY DEF GcInit
<1>2. raised = {} /\ moves = Moves /\ Moves \in Nat /\ {1, 2} \subseteq Objects
  BY GcAssumption DEF GcInit
<1> DEFINE g == Unused(use)
           k == Created(g, 1)
<1>3. /\ g \in Collectors /\ g.heap = [o \in Objects |-> NoObject]
      /\ g.lists = [list \in Lists |-> <<>>] /\ g.map = <<>> /\ g.cursor = Null
      /\ g.detect = "clearCounters"
  <2>1. [o \in Objects |-> NoObject] \in Heaps
    BY DEF Heaps, NoObject, Object
  <2>2. [list \in Lists |-> <<>>] \in [Lists -> Seq(Entries)]
    OBVIOUS
  <2>3. [list \in Lists |-> Unstarted] \in [Lists -> Sweeps]
    BY DEF Sweeps, Unstarted
  <2>4. "clearCounters" \in Phases /\ NoCycle \in Cycles /\ <<>> \in Seq(Objects)
    BY DEF Phases, NoCycle, Cycles
  <2>5. <<>> \in Maps
    <3>1. <<>> \in [{} -> Int]
      OBVIOUS
    <3> QED  BY <3>1 DEF Maps
  <2> QED  BY <2>1, <2>2, <2>3, <2>4, <2>5 DEF Collectors, Unused
<1> HIDE DEF g
<1>4. /\ Apart(g.lists) /\ InLists(g.lists) = {} /\ g.lists["old"] = <<>> /\ g.lists["new"] = <<>>
  <2>1. \A list \in Lists : Len(g.lists[list]) = 0 /\ g.lists[list] = <<>>
    BY <1>3
  <2>2. \A list \in Lists : 1 .. Len(g.lists[list]) = {}
    BY <2>1
  <2> QED  BY <2>1, <2>2 DEF Apart, InLists, Lists
<1>5. DOMAIN g.map = {}
  BY <1>3
<1>6. \A o \in Objects : g.heap[o] = NoObject
  BY <1>3
<1>7. Exact(g.heap, {}, {})
  <2>1. \A o \in Objects : Referrers(g.heap, o) = {}
    BY <1>6 DEF Referrers, Linked, NoObject
  <2>2. Cardinality({}) = 0
    BY FS_EmptySet
  <2>3. \A o \in Objects : Cardinality(Referrers(g.heap, o)) = 0
    BY <2>1, <2>2
  <2>4. \A o \in Objects : g.heap[o].rc = 0 /\ g.heap[o].held = 0 /\ One(o, {}) = 0
    BY <1>6 DEF One, NoObject
  <2>5. \A o \in Objects : g.heap[o].rc = g.heap[o].held + Cardinality(Referrers(g.heap, o)) + One(o, {}) + One(o, {})
    BY <2>3, <2>4
  <2> QED  BY <1>6, <2>4, <2>5 DEF Exact
<1>8. Fit(g, {})
  <2>1. InLists(g.lists) \cup {} = {} /\ {} \cap InLists(g.lists) = {}
    BY <1>4
  <2> QED  BY <1>3, <1>4, <1>5, <1>7, <2>1 DEF Fit, Sound, Resting, InOrder
<1>9. \A x \in Objects : ~g.heap[x].torn /\ g.heap[x].rc = 0
  BY <1>6 DEF NoObject
<1>10. /\ Fit(k, {}) /\ k.detect = "clearCounters" /\ \A x \in Objects : ~k.heap[x].torn
       /\ k.lists["old"] = <<>> /\ \A x \in Objects \ {1} : k.heap[x] = g.heap[x]
  BY <1>2, <1>3, <1>4, <1>8, <1>9, BeginsKept
<1> HIDE DEF k
<1>11. k.heap[2].rc = 0
  BY <1>2, <1>9, <1>10
<1>12. Fit(gc, {}) /\ gc.detect = "clearCounters" /\ \A x \in Objects : ~gc.heap[x].torn
  <2>1. gc = Created(k, 2)
    BY <1>1 DEF k, g
  <2> QED  BY <1>2, <1>10, <1>11, <2>1, BeginsKept
<1>13. Reachable(gc.heap) \subseteq Objects
  BY <1>12, KeptType
<1>14. Whole(gc.heap, raised)
  BY <1>12, <1>13 DEF Whole
<1>15. Inside(gc, Reachable(gc.heap) \ raised)
  BY <1>12 DEF Inside
<1> QED  BY <1>2, <1>12, <1>14, <1>15 DEF GcInv, Kept

LEMMA KeepsInv == GcInv /\ [GcNext]_gcVars => GcInv'
<1> SUFFICES ASSUME GcInv, [GcNext]_gcVars  PROVE GcInv'
  OBVIOUS
<1>1. CASE Script
  BY <1>1, ScriptKept
<1>2. ASSUME NEW m \in Modes, GarbageCollect(m[1], m[2])  PROVE GcInv'
  <2>1. m[1] \in BOOLEAN /\ m[2] \in BOOLEAN
    BY GcAssumption
  <2> QED  BY <1>2, <2>1, CollectKept
<1>3. ASSUME NEW m \in Modes, StartFullCycle(m[1], m[2])  PROVE GcInv'
  <2>1. m[1] \in BOOLEAN /\ m[2] \in BOOLEAN
    BY GcAssumption
  <2> QED  BY <1>3, <2>1, StartKept
<1>4. CASE FullCycleStep
  BY <1>4, CycleKept
<1>5. CASE UNCHANGED gcVars
  BY <1>5 DEF gcVars, GcInv
<1> QED  BY <1>1, <1>2, <1>3, <1>4, <1>5 DEF GcNext

(* The collector keeps its invariant: a step of the script, of a sweep, of  *)
(* the detection or of a whole cycle leaves every object counted and what  *)
(* the detection knows true (as_gc.cpp:176-760).                           *)
THEOREM GcInvariant == GcSpec => []GcInv
<1> QED  BY InitKept, KeepsInv, PTL DEF GcSpec

(* Every variable has its type. *)
THEOREM GcTyped == GcSpec => []GcTypeOK
<1>1. GcInv => GcTypeOK
  <2> SUFFICES ASSUME GcInv  PROVE GcTypeOK
    OBVIOUS
  <2>1. gc \in Collectors /\ Fit(gc, {}) /\ gc.heap \in Heaps /\ raised \subseteq Objects /\ moves \in 0 .. Moves
    BY HeapIs DEF GcInv, Kept
  <2>2. DOMAIN gc.map \subseteq Objects /\ gc.cursor \in Objects \cup {Null} /\ gc.live \in Seq(Objects)
    BY <2>1, MapType, FitType
  <2>3. \A o \in Objects : gc.heap[o].rc \in Nat /\ gc.heap[o].next \in Objects \cup {Null}
    BY <2>1, HeapType
  <2> QED  BY <2>1, <2>2, <2>3 DEF GcTypeOK
<1> QED  BY <1>1, GcInvariant, PTL

LEMMA ListedOnce ==
  ASSUME NEW g, g.lists \in [Lists -> Seq(Entries)], Apart(g.lists), NEW o \in Objects
  PROVE  Cardinality(Listed(g, o)) = One(o, InLists(g.lists))
<1>1. \A list \in Lists : DOMAIN g.lists[list] = 1 .. Len(g.lists[list])
  <2>1. \A list \in Lists : g.lists[list] \in Seq(Entries)
    OBVIOUS
  <2> QED  BY <2>1
<1>2. \A p : p \in Listed(g, o) <=>
        \E list \in Lists : \E i \in 1 .. Len(g.lists[list]) : g.lists[list][i].obj = o /\ p = <<list, i>>
  BY <1>1 DEF Listed
<1>3. CASE o \in InLists(g.lists)
  <2>1. PICK list \in Lists : \E i \in 1 .. Len(g.lists[list]) : g.lists[list][i].obj = o
    BY <1>3 DEF InLists
  <2>2. PICK i \in 1 .. Len(g.lists[list]) : g.lists[list][i].obj = o
    BY <2>1
  <2>3. Listed(g, o) = {<<list, i>>}
    <3>1. \A p \in Listed(g, o) : p = <<list, i>>
      BY <1>2, <2>2 DEF Apart
    <3>2. <<list, i>> \in Listed(g, o)
      BY <1>2, <2>2
    <3> QED  BY <3>1, <3>2
  <2>4. Cardinality({<<list, i>>}) = 1
    BY FS_Singleton
  <2> QED  BY <1>3, <2>3, <2>4 DEF One
<1>4. CASE o \notin InLists(g.lists)
  <2>1. Listed(g, o) = {}
    BY <1>2, <1>4 DEF InLists
  <2>2. Cardinality({}) = 0
    BY FS_EmptySet
  <2> QED  BY <1>4, <2>1, <2>2 DEF One
<1> QED  BY <1>3, <1>4

(* The count of every listed object is the script's handles, the objects   *)
(* whose handle is on it, its entry and the map's reference, so that none  *)
(* is deleted early or leaked, an object that came back included.          *)
THEOREM GcCountsExact == GcSpec => []GcRefCountsExact
<1>1. GcInv => GcRefCountsExact
  <2> SUFFICES ASSUME GcInv, NEW o \in Objects
               PROVE  /\ gc.heap[o].rc = gc.heap[o].held + Cardinality({p \in Linked(gc.heap) : gc.heap[p].next = o})
                           + Cardinality(Listed(gc, o)) + (IF o \in DOMAIN gc.map THEN 1 ELSE 0)
                      /\ Cardinality(Listed(gc, o)) = (IF gc.heap[o].rc > 0 THEN 1 ELSE 0)
    BY DEF GcRefCountsExact
  <2>1. /\ gc.heap \in Heaps /\ Exact(gc.heap, InLists(gc.lists), DOMAIN gc.map)
        /\ gc.lists \in [Lists -> Seq(Entries)] /\ Apart(gc.lists)
    BY HeapIs, MapType DEF Fit, Sound
  <2>2. Cardinality(Listed(gc, o)) = One(o, InLists(gc.lists))
    BY <2>1, ListedOnce
  <2>3. {p \in Linked(gc.heap) : gc.heap[p].next = o} = Referrers(gc.heap, o)
    BY DEF Referrers
  <2>4. (IF o \in DOMAIN gc.map THEN 1 ELSE 0) = One(o, DOMAIN gc.map)
    BY DEF One
  <2>5. One(o, InLists(gc.lists)) = (IF gc.heap[o].rc > 0 THEN 1 ELSE 0)
    BY <2>1 DEF One, Exact
  <2>6. gc.heap[o].rc = gc.heap[o].held + Cardinality(Referrers(gc.heap, o))
                         + One(o, InLists(gc.lists)) + One(o, DOMAIN gc.map)
    BY <2>1 DEF Exact
  <2> QED  BY <2>2, <2>3, <2>4, <2>5, <2>6
<1> QED  BY <1>1, GcInvariant, PTL

(* breakCircles takes no handle out of an object the script can reach,     *)
(* unless it was destructed and came back, in whatever order the script's  *)
(* calls fall between the steps of an incremental cycle.                   *)
THEOREM GcLiveWhole == GcSpec => []GcKeepsLiveWhole
<1>1. GcInv => GcKeepsLiveWhole
  BY DEF GcInv, Kept, Whole, GcKeepsLiveWhole
<1> QED  BY <1>1, GcInvariant, PTL

-----------------------------------------------------------------------------
(* A full cycle the script leaves alone.  First the handles: what can be  *)
(* reached from a set is the least that no handle leads out of.            *)

(* No handle leads out of the set. *)
Shut(h, T) == \A o \in T : h[o].next \in T \cup {Null}

LEMMA ReachesShut ==
  ASSUME NEW h \in Heaps, NEW S \in SUBSET Objects
  PROVE  S \subseteq Reaches(h, S) /\ Shut(h, Reaches(h, S))
<1> DEFINE C == Cardinality(Objects)
           F == CHOOSE f : ReachedTo(h, S, C, f)
<1>1. C \in Nat /\ IsFiniteSet(Objects)
  BY ObjectsCounted, GcAssumption
<1>2. ReachedTo(h, S, C, F)
  BY <1>1, ReachedExist
<1>3. Reaches(h, S) = F[C]
  BY DEF Reaches, ReachedTo
<1> HIDE DEF F
<1> DEFINE Next(V) == V \cup ({h[o].next : o \in V} \ {Null})
<1>4. ASSUME NEW V \in SUBSET Objects
      PROVE  /\ V \subseteq Next(V) /\ Next(V) \subseteq Objects
             /\ V = Objects => Next(V) = V
             /\ Next(V) = V => Shut(h, V)
  BY HeapType DEF Shut
<1>5. F = [i \in 0 .. C |-> IF i = 0 THEN S ELSE Next(F[i - 1])]
  BY <1>2 DEF ReachedTo
<1> HIDE DEF Next
<1>6. F[0] = S /\ \A i \in 1 .. C : F[i] = Next(F[i - 1])
  <2> HIDE DEF C
  <2> QED  BY <1>1, <1>5
<1> DEFINE N == {n \in Nat : n <= C =>
                   /\ F[n] \in SUBSET Objects /\ S \subseteq F[n]
                   /\ Cardinality(F[n]) >= n \/ Next(F[n]) = F[n]}
<1>7. 0 \in N
  <2>1. IsFiniteSet(S)
    BY <1>1, FS_Subset
  <2>2. Cardinality(S) >= 0
    BY <2>1, FS_CardinalityType
  <2> QED  BY <1>6, <2>2
<1>8. ASSUME NEW n \in Nat, n \in N  PROVE n + 1 \in N
  <2> SUFFICES ASSUME n + 1 <= C
               PROVE  /\ F[n + 1] \in SUBSET Objects /\ S \subseteq F[n + 1]
                      /\ Cardinality(F[n + 1]) >= n + 1 \/ Next(F[n + 1]) = F[n + 1]
    OBVIOUS
  <2>1. n + 1 \in 1 .. C /\ n + 1 - 1 = n /\ n <= C
    <3> HIDE DEF C
    <3> QED  BY <1>1
  <2> DEFINE V == F[n]
             W == F[n + 1]
  <2>2. /\ V \in SUBSET Objects /\ S \subseteq V /\ W = Next(V)
        /\ Cardinality(V) >= n \/ Next(V) = V
    BY <1>6, <1>8, <2>1
  <2> HIDE DEF V, W
  <2>3. V \subseteq W /\ W \in SUBSET Objects
    BY <1>4, <2>2
  <2>4. IsFiniteSet(W)
    BY <1>1, <2>3, FS_Subset
  <2>5. /\ Cardinality(V) \in Nat /\ Cardinality(W) \in Nat /\ Cardinality(V) <= Cardinality(W)
        /\ Cardinality(W) = Cardinality(V) => W = V
    BY <2>3, <2>4, FS_Subset, FS_CardinalityType
  <2>6. Cardinality(W) >= n + 1 \/ Next(W) = W
    <3>1. CASE Next(V) = V
      BY <3>1, <2>2
    <3>2. CASE Next(V) # V
      <4>1. Cardinality(V) >= n /\ W # V
        BY <3>2, <2>2
      <4> DEFINE v == Cardinality(V)
                 w == Cardinality(W)
      <4>2. v \in Nat /\ w \in Nat /\ v <= w /\ v # w /\ v >= n
        BY <4>1, <2>5
      <4> HIDE DEF v, w
      <4>3. w >= n + 1
        BY <4>2
      <4> QED  BY <4>3 DEF w
    <3> QED  BY <3>1, <3>2
  <2> QED  BY <2>2, <2>3, <2>6 DEF W
<1> HIDE DEF N
<1>9. C \in N
  BY <1>1, <1>7, <1>8, EveryNat
<1>10. /\ F[C] \in SUBSET Objects /\ S \subseteq F[C]
       /\ Cardinality(F[C]) >= C \/ Next(F[C]) = F[C]
  BY <1>1, <1>9 DEF N
<1>11. Next(F[C]) = F[C]
  <2> SUFFICES ASSUME Cardinality(F[C]) >= C  PROVE Next(F[C]) = F[C]
    BY <1>10
  <2> DEFINE V == F[C]
  <2>1. V \in SUBSET Objects /\ Cardinality(V) >= C
    BY <1>10
  <2> HIDE DEF V
  <2>2. IsFiniteSet(V) /\ Cardinality(V) <= C /\ (C = Cardinality(V) => V = Objects)
    BY <1>1, <2>1, FS_Subset
  <2>3. Cardinality(V) \in Nat
    BY <2>2, FS_CardinalityType
  <2>4. C = Cardinality(V)
    <3> HIDE DEF C
    <3> QED  BY <1>1, <2>1, <2>2, <2>3
  <2>5. Next(V) = V
    BY <2>1, <2>2, <2>4, <1>4
  <2> QED  BY <2>5 DEF V
<1> QED  BY <1>3, <1>4, <1>10, <1>11

(* What the script has a handle to, or nothing refers to, and all that can *)
(* be reached from there: what a whole cycle leaves to the sweeps.         *)
Roots(h) == {o \in Objects : h[o].held > 0 \/ (o \in Linked(h) /\ Referrers(h, o) = {})}
Sure(h) == {o \in Objects : \A T \in SUBSET Objects : Roots(h) \subseteq T /\ Shut(h, T) => o \in T}

LEMMA SureIs ==
  ASSUME NEW h \in Heaps
  PROVE  Sure(h) \subseteq Objects /\ Roots(h) \subseteq Sure(h) /\ Shut(h, Sure(h))
<1>1. ASSUME NEW o \in Sure(h), h[o].next # Null  PROVE h[o].next \in Sure(h)
  <2>1. o \in Objects /\ h[o].next \in Objects
    BY <1>1, HeapType DEF Sure
  <2>2. ASSUME NEW T \in SUBSET Objects, Roots(h) \subseteq T, Shut(h, T)  PROVE h[o].next \in T
    BY <2>2, <1>1 DEF Sure, Shut
  <2> QED  BY <2>1, <2>2 DEF Sure
<1> QED  BY <1>1 DEF Sure, Roots, Shut

LEMMA SureKept ==
  ASSUME NEW h \in Heaps, NEW k \in Heaps, SameLinks(h, k),
         \A o \in Objects : h[o].held > 0 => k[o].held > 0
  PROVE  Sure(h) \subseteq Sure(k)
<1>1. Roots(h) \subseteq Roots(k)
  BY SameReferrers DEF Roots
<1>2. \A T \in SUBSET Objects : Shut(k, T) => Shut(h, T)
  BY DEF Shut, SameLinks
<1> QED  BY <1>1, <1>2 DEF Sure

(* With a handle to each root the script reaches it all. *)
LEMMA SureReached ==
  ASSUME NEW h \in Heaps, \A o \in Roots(h) : h[o].held > 0
  PROVE  Sure(h) \subseteq Reachable(h)
<1> DEFINE S == {o \in Objects : h[o].held > 0}
           T == Reaches(h, S) \cap Objects
<1>1. S \in SUBSET Objects
  OBVIOUS
<1>2. S \subseteq Reaches(h, S) /\ Shut(h, Reaches(h, S))
  <2> HIDE DEF S
  <2> QED  BY <1>1, ReachesShut
<1>3. Roots(h) \subseteq T /\ Shut(h, T) /\ T \in SUBSET Objects
  <2>1. Roots(h) \subseteq S
    BY DEF Roots
  <2> HIDE DEF S
  <2>2. Roots(h) \subseteq T
    BY <1>1, <1>2, <2>1
  <2>3. Shut(h, T)
    BY <1>2, HeapType DEF Shut
  <2> QED  BY <2>2, <2>3
<1> QED  BY <1>3 DEF Sure, Reachable

(* What the detection knows of what it does not find, while the script     *)
(* does nothing.  The map has every object that is not sure to be reached  *)
(* from a handle or from what the sweeps will free, all of it left alone,  *)
(* and its numbers count nothing that is not there.                        *)
RestSure(g) == Linked(g.heap) \ DOMAIN g.map \subseteq Sure(g.heap)
Flagged(g) == \A o \in DOMAIN g.map : g.heap[o].flag
AtMost(g, S) ==
  \A o \in DOMAIN g.map : g.map[o] <= g.heap[o].held + Cardinality(Referrers(g.heap, o) \ S)
LiveSure(g) == InLive(g) \subseteq Sure(g.heap)
EnteredOrSure(g) ==
  \A i \in 1 .. Len(g.lists["old"]) : i <= g.detectIdx =>
    g.lists["old"][i].obj \in DOMAIN g.map \cup Sure(g.heap)

Searching == {"countReferences", "detectGarbage_init", "detectGarbage_loop1",
              "detectGarbage_loop2", "verifyUnmarked"}
Thorough(g) ==
  /\ g.detect # "buildMap" => g.detectIdx = 0
  /\ g.detect = "buildMap" => Flagged(g) /\ AtMost(g, {}) /\ EnteredOrSure(g)
  /\ g.detect \in Searching => Flagged(g) /\ RestSure(g)
  /\ g.detect = "countReferences" => AtMost(g, Passed(g))
  /\ g.detect \in {"detectGarbage_init", "detectGarbage_loop1"} => AtMost(g, DOMAIN g.map)
  /\ g.detect \in {"detectGarbage_loop1", "detectGarbage_loop2"} => LiveSure(g)

(* The detection is over when all that is left is sure. *)
Ended(g) == g.detect = "clearCounters" /\ DOMAIN g.map = {} /\ RestSure(g)
Sought(k) == Thorough(k) /\ (k.ret = 0 => Ended(k))

(* The states in which nothing is known, and those that know of the map.   *)
LEMMA BreakingSought ==
  ASSUME NEW k, k.detect \in {"clearCounters", "breakCircles_haveGarbage"}, k.detectIdx = 0,
         k.ret # 0 \/ Ended(k)
  PROVE  Sought(k)
  BY DEF Sought, Thorough, Searching

LEMMA SameSure ==
  ASSUME NEW g, NEW k, k.heap = g.heap, k.map = g.map
  PROVE  /\ RestSure(g) => RestSure(k)
         /\ Flagged(g) => Flagged(k)
         /\ \A S : AtMost(g, S) => AtMost(k, S)
  BY DEF RestSure, Flagged, AtMost

LEMMA EndsSought ==
  ASSUME NEW g, Sound(g, {}), Flagged(g), RestSure(g), g.detectIdx = 0
  PROVE  Sought(VerifyUnmarked(g))
<1> DEFINE k == VerifyUnmarked(g)
           n == NextInMap(g)
           b == [g EXCEPT !.detect = "breakCircles"]
           f == FirstInMap(b)
           c == f.cursor
<1>1. g \in Collectors
  BY SoundType
<1>2. CASE g.cursor = Null
  <2>1. /\ b \in Collectors /\ b.detect = "breakCircles" /\ b.heap = g.heap /\ b.map = g.map
        /\ b.detectIdx = 0 /\ b.lists = g.lists /\ b.cursor = g.cursor
    BY <1>1 DEF Collectors, Phases
  <2>2. k = BreakCircles(f)
    BY <1>2 DEF VerifyUnmarked
  <2> HIDE DEF b
  <2>3. Sound(b, {})
    BY <2>1 DEF Sound
  <2>4. f = [b EXCEPT !.cursor = c] /\ (c = Null <=> DOMAIN b.map = {})
    BY <2>3, FirstPassed
  <2> HIDE DEF f
  <2>5. f.detect = "breakCircles" /\ f.heap = g.heap /\ f.map = g.map /\ f.detectIdx = 0 /\ f.cursor = c
        /\ f \in Collectors
    <3>1. f.cursor \in Objects \cup {Null}
      <4>1. Sound(FirstInMap(b), {})
        BY <2>3, FirstPassed
      <4> QED  BY <4>1, FitType, SoundType DEF f
    <3> HIDE DEF c
    <3> QED  BY <2>1, <2>4, <3>1 DEF Collectors
  <2>6. CASE c = Null
    <3>1. k = [f EXCEPT !.detect = "clearCounters", !.ret = 0]
      BY <2>2, <2>5, <2>6 DEF BreakCircles
    <3> HIDE DEF k, c
    <3>2. k.detect = "clearCounters" /\ k.heap = g.heap /\ k.map = g.map /\ k.detectIdx = 0
      BY <2>5, <3>1 DEF Collectors
    <3>3. RestSure(k) /\ DOMAIN k.map = {}
      BY <2>1, <2>4, <2>6, <3>2, SameSure
    <3> QED  BY <3>2, <3>3, BreakingSought DEF Ended, k
  <2>7. CASE c # Null
    <3>1. k = [f EXCEPT !.heap = ReleaseAllHandles(CallDestructor(@, f.cursor), f.cursor),
                        !.cursor = NextInMap(f), !.detect = "breakCircles_haveGarbage", !.ret = 1]
      BY <2>2, <2>5, <2>7 DEF BreakCircles
    <3> HIDE DEF k, c
    <3>2. k.detect = "breakCircles_haveGarbage" /\ k.detectIdx = 0 /\ k.ret = 1
      BY <2>5, <3>1 DEF Collectors
    <3> QED  BY <3>2, BreakingSought DEF k
  <2> QED  BY <2>6, <2>7
<1>3. CASE g.cursor # Null
  <2>1. g.cursor \in DOMAIN g.map
    BY <1>3, SoundType
  <2>2. k = [g EXCEPT !.cursor = n, !.detect = "verifyUnmarked", !.ret = 1]
    BY <1>3, <2>1 DEF VerifyUnmarked, Flagged
  <2> HIDE DEF k, n
  <2>3. /\ k.detect = "verifyUnmarked" /\ k.heap = g.heap /\ k.map = g.map /\ k.detectIdx = 0
        /\ k.ret = 1
    BY <1>1, <2>2 DEF Collectors
  <2>4. Flagged(k) /\ RestSure(k)
    BY <2>3, SameSure
  <2> QED  BY <2>3, <2>4 DEF Sought, Thorough, k
<1> QED  BY <1>2, <1>3

(* What leaves the map is counted down. *)
LEMMA LeavesLinks ==
  ASSUME NEW g, Sound(g, {}), NEW o \in DOMAIN g.map
  PROVE  LET k == LeaveMap(g, o)
         IN /\ SameLinks(g.heap, k.heap) /\ k.heap \in Heaps
            /\ \A x \in Objects : k.heap[x].held = g.heap[x].held
            /\ \A x \in Objects \ {o} : k.heap[x].flag = g.heap[x].flag
            /\ DOMAIN k.map = DOMAIN g.map \ {o}
<1> DEFINE h == g.heap
           d == CountDown(h, o)
           k == LeaveMap(g, o)
<1>1. /\ g \in Collectors /\ h \in Heaps /\ Exact(h, InLists(g.lists) \cup {}, DOMAIN g.map)
      /\ o \in Objects
  BY SoundType
<1>2. h[o].rc >= 2 /\ h[o].rc \in Nat
  BY <1>1, ExactGives, HeapType
<1>3. ObjRelease(h, o) = d /\ d \in Heaps
  BY <1>1, <1>2, ReleaseShared
<1>4. k = [g EXCEPT !.map = [p \in DOMAIN @ \ {o} |-> @[p]], !.heap = d]
  BY <1>3 DEF LeaveMap
<1>5. /\ d[o].rc = h[o].rc - 1 /\ d[o].held = h[o].held /\ d[o].next = h[o].next
      /\ \A x \in Objects \ {o} : d[x] = h[x]
  BY <1>1 DEF CountDown, Heaps, Object
<1> HIDE DEF d, h, k
<1>6. k.heap = d /\ DOMAIN k.map = DOMAIN g.map \ {o}
  BY <1>1, <1>4 DEF Collectors
<1>7. SameLinks(h, d)
  BY <1>2, <1>5 DEF SameLinks
<1> QED  BY <1>3, <1>5, <1>6, <1>7 DEF h, k

LEMMA SpreadsSought ==
  ASSUME NEW g, Sound(g, {}), g.cursor = Null, Flagged(g), RestSure(g), LiveSure(g), g.detectIdx = 0
  PROVE  Sought(DetectGarbage2(g))
<1> DEFINE k == DetectGarbage2(g)
           M == DOMAIN g.map
           s == g.live
           o == s[Len(s)]
           t == SubSeq(s, 1, Len(s) - 1)
           n == [g EXCEPT !.live = SubSeq(@, 1, Len(@) - 1)]
           left == LeaveMap(n, o)
           next == g.heap[o].next
           on == IF o \notin M THEN n
                 ELSE IF next \in DOMAIN left.map THEN [left EXCEPT !.live = Append(@, next)]
                 ELSE left
           S == Sure(g.heap)
<1>1. /\ g \in Collectors /\ g.heap \in Heaps /\ s \in Seq(Objects) /\ M \subseteq Objects
  BY SoundType
<1>2. S \subseteq Objects /\ Shut(g.heap, S)
  BY <1>1, SureIs
<1>3. CASE s = <<>>
  <2> DEFINE f == FirstInMap(g)
  <2>1. k = VerifyUnmarked(f)
    BY <1>3 DEF DetectGarbage2
  <2>2. Sound(f, {}) /\ f = [g EXCEPT !.cursor = f.cursor]
    BY FirstPassed
  <2> HIDE DEF f
  <2>3. f.heap = g.heap /\ f.map = g.map /\ f.detectIdx = 0
    BY <1>1, <2>2 DEF Collectors
  <2>4. Flagged(f) /\ RestSure(f)
    BY <2>3, SameSure
  <2> QED  BY <2>1, <2>2, <2>3, <2>4, EndsSought
<1>4. CASE s # <<>>
  <2>1. k = Turned(on, "detectGarbage_loop2")
    BY <1>4 DEF DetectGarbage2, Turned
  <2>2. /\ t \in Seq(Objects) /\ o \in Objects /\ Len(s) \in 1 .. Len(s)
        /\ \A j \in 1 .. Len(t) : t[j] \in S
        /\ o \in S
    <3>1. t \in Seq(Objects) /\ o \in Objects
      BY <1>1, <1>4, Pops
    <3>2. Len(s) \in 1 .. Len(s) /\ \A j \in 1 .. Len(t) : j \in 1 .. Len(s) /\ t[j] = s[j]
      BY <1>1, <1>4
    <3>3. \A i \in 1 .. Len(s) : s[i] \in S
      BY DEF LiveSure, InLive
    <3> HIDE DEF S, t
    <3> QED  BY <3>1, <3>2, <3>3
  <2>3. n = WithLive(g, t)
    BY DEF WithLive
  <2> HIDE DEF n, t, o
  <2>4. /\ Sound(n, {}) /\ n.live = t
        /\ n.heap = g.heap /\ n.lists = g.lists /\ n.map = g.map /\ n.cursor = Null
        /\ n.detectIdx = 0
    BY <2>2, <2>3, LiveSet
  <2>5. "detectGarbage_loop2" \in Phases
    BY DEF Phases
  <2>6. CASE o \notin M
    <3>1. on = n
      BY <2>6
    <3>2. /\ k.detect = "detectGarbage_loop2" /\ k.live = t
          /\ k.heap = g.heap /\ k.map = g.map /\ k.detectIdx = 0
      BY <2>1, <2>4, <2>5, <3>1, Turns
    <3>3. k.ret = 1
      <4>1. n \in Collectors
        BY <2>4, SoundType
      <4> HIDE DEF on
      <4> QED  BY <4>1, <2>1, <3>1 DEF Turned, Collectors
    <3> HIDE DEF k, S
    <3>4. Flagged(k) /\ RestSure(k)
      BY <3>2, SameSure
    <3>5. LiveSure(k)
      BY <2>2, <3>2 DEF LiveSure, InLive, S
    <3> QED  BY <3>2, <3>3, <3>4, <3>5 DEF k, Sought, Thorough, Searching
  <2>7. CASE o \in M
    <3>1. /\ Sound(left, {}) /\ DOMAIN left.map = M \ {o}
          /\ left.live = t /\ left.detectIdx = 0
      BY <2>4, <2>7, LeavesAlone
    <3>2. /\ SameLinks(g.heap, left.heap) /\ left.heap \in Heaps
          /\ \A x \in Objects : left.heap[x].held = g.heap[x].held
          /\ \A x \in Objects \ {o} : left.heap[x].flag = g.heap[x].flag
      BY <2>4, <2>7, LeavesLinks
    <3> HIDE DEF left
    <3>3. S \subseteq Sure(left.heap) /\ Linked(left.heap) = Linked(g.heap)
      BY <1>1, <3>2, SureKept, SameReferrers
    <3>4. /\ Sound(on, {}) /\ on.map = left.map /\ on.heap = left.heap /\ on.detectIdx = 0
          /\ \A i \in 1 .. Len(on.live) : on.live[i] \in S
      <4>1. CASE next \in M \ {o}
        <5> DEFINE a == Append(t, next)
        <5>1. next \in Objects /\ next \in S
          <6>1. next \in S \cup {Null} /\ next \in Objects
            BY <1>1, <1>2, <2>2, <4>1 DEF Shut
          <6> QED  BY <6>1, GcAssumption
        <5>2. a \in Seq(Objects) /\ \A i \in 1 .. Len(a) : a[i] \in S
          <6> HIDE DEF next, S
          <6>1. Len(a) = Len(t) + 1 /\ a[Len(t) + 1] = next /\ \A i \in 1 .. Len(t) : a[i] = t[i]
            BY <2>2
          <6> QED  BY <2>2, <5>1, <6>1
        <5>3. on = WithLive(left, a)
          BY <2>7, <3>1, <4>1 DEF WithLive
        <5> HIDE DEF a, on, S
        <5>4. /\ Sound(on, {}) /\ on.live = a /\ on.heap = left.heap /\ on.map = left.map
              /\ on.detectIdx = left.detectIdx
          BY <3>1, <5>2, <5>3, LiveSet
        <5> QED  BY <3>1, <5>2, <5>4
      <4>2. CASE next \notin M \ {o}
        <5>1. on = left
          BY <2>7, <3>1, <4>2
        <5> HIDE DEF on, S
        <5> QED  BY <2>2, <3>1, <5>1
      <4> QED  BY <4>1, <4>2
    <3> HIDE DEF on
    <3>5. /\ k.detect = "detectGarbage_loop2" /\ k.live = on.live
          /\ k.heap = left.heap /\ k.map = left.map /\ k.detectIdx = 0
      BY <2>1, <2>5, <3>4, Turns
    <3>6. k.ret = 1
      <4>1. on \in Collectors
        BY <3>4, SoundType
      <4> QED  BY <4>1, <2>1 DEF Turned, Collectors
    <3> HIDE DEF k
    <3>7. Flagged(k)
      BY <1>1, <3>1, <3>2, <3>5 DEF Flagged
    <3>8. RestSure(k)
      <4>1. Linked(g.heap) \ M \subseteq S
        BY DEF RestSure
      <4> HIDE DEF S, M
      <4>2. Linked(left.heap) \ (M \ {o}) \subseteq S
        BY <4>1, <2>2, <3>3
      <4> QED  BY <4>2, <3>1, <3>3, <3>5 DEF RestSure
    <3>9. LiveSure(k)
      <4> HIDE DEF S
      <4> QED  BY <3>3, <3>4, <3>5 DEF LiveSure, InLive
    <3> QED  BY <3>5, <3>6, <3>7, <3>8, <3>9 DEF k, Sought, Thorough, Searching
  <2> QED  BY <2>6, <2>7
<1> QED  BY <1>3, <1>4

LEMMA FindsSought ==
  ASSUME NEW g, Sound(g, {}), Flagged(g), RestSure(g), LiveSure(g), AtMost(g, DOMAIN g.map),
         g.detectIdx = 0
  PROVE  Sought(DetectGarbage1(g))
<1> DEFINE k == DetectGarbage1(g)
           M == DOMAIN g.map
           c == g.cursor
           S == Sure(g.heap)
<1>1. /\ g \in Collectors /\ g.live \in Seq(Objects) /\ M \subseteq Objects /\ g.heap \in Heaps
      /\ c # Null => c \in M
      /\ \A x \in M : g.map[x] \in Int
  BY SoundType
<1>2. CASE c = Null
  <2>1. k = DetectGarbage2(g)
    BY <1>2 DEF DetectGarbage1
  <2> QED  BY <1>2, <2>1, SpreadsSought
<1>3. CASE c # Null
  <2> DEFINE s == IF Alive(g, c) THEN Append(g.live, c) ELSE g.live
             n == NextInMap(g)
  <2>1. k = [g EXCEPT !.live = s, !.cursor = n, !.detect = "detectGarbage_loop1", !.ret = 1]
    BY <1>3 DEF DetectGarbage1
  <2>2. c \in Objects /\ c \in M /\ g.heap[c].flag
    BY <1>1, <1>3 DEF Flagged
  <2>3. Alive(g, c) => c \in S
    <3> SUFFICES ASSUME Alive(g, c)  PROVE c \in S
      OBVIOUS
    <3> DEFINE m == g.map[c]
               e == g.heap[c].held
               a == Cardinality(Referrers(g.heap, c) \ M)
    <3>1. m > 0 /\ m <= e + a /\ m \in Int
      BY <1>1, <2>2 DEF Alive, AtMost
    <3>2. e \in Nat
      BY <1>1, <2>2, HeapType
    <3>3. a \in Nat /\ (a = 0 <=> Referrers(g.heap, c) \subseteq M)
      BY FewerReferrers
    <3> HIDE DEF m, a
    <3>4. e > 0 \/ ~(Referrers(g.heap, c) \subseteq M)
      <4> HIDE DEF e
      <4> QED  BY <3>1, <3>2, <3>3
    <3>5. CASE e > 0
      <4>1. c \in Roots(g.heap)
        BY <2>2, <3>5 DEF Roots
      <4> QED  BY <1>1, <4>1, SureIs
    <3>6. CASE ~(Referrers(g.heap, c) \subseteq M)
      <4>1. PICK p \in Linked(g.heap) : g.heap[p].next = c /\ p \notin M
        BY <3>6 DEF Referrers
      <4>2. p \in S
        BY <4>1 DEF RestSure
      <4>3. Shut(g.heap, S)
        BY <1>1, SureIs
      <4>4. g.heap[p].next \in S \cup {Null}
        BY <4>2, <4>3 DEF Shut
      <4> QED  BY <4>1, <4>4, <1>3
    <3> QED  BY <3>4, <3>5, <3>6
  <2>4. \A i \in 1 .. Len(s) : s[i] \in S
    <3>1. \A i \in 1 .. Len(g.live) : g.live[i] \in S
      BY DEF LiveSure, InLive
    <3>2. CASE Alive(g, c)
      <4> DEFINE l == g.live
      <4>1. s = Append(l, c) /\ l \in Seq(Objects) /\ c \in S
        BY <1>1, <2>3, <3>2
      <4> HIDE DEF s, l, c, S
      <4>2. Len(s) = Len(l) + 1 /\ s[Len(l) + 1] = c /\ \A i \in 1 .. Len(l) : s[i] = l[i]
        BY <4>1
      <4>3. \A i \in 1 .. Len(l) : l[i] \in S
        BY <3>1 DEF l
      <4> QED  BY <4>1, <4>2, <4>3
    <3>3. CASE ~Alive(g, c)
      BY <3>1, <3>3
    <3> QED  BY <3>2, <3>3
  <2> HIDE DEF s, n, k
  <2>5. /\ k.detect = "detectGarbage_loop1" /\ k.live = s /\ k.ret = 1
        /\ k.heap = g.heap /\ k.map = g.map /\ k.detectIdx = 0
    BY <1>1, <2>1 DEF Collectors
  <2>6. Flagged(k) /\ RestSure(k) /\ AtMost(k, DOMAIN k.map)
    BY <2>5, SameSure
  <2>7. LiveSure(k)
    BY <2>4, <2>5 DEF LiveSure, InLive
  <2> QED  BY <2>5, <2>6, <2>7 DEF k, Sought, Thorough, Searching
<1> QED  BY <1>2, <1>3

LEMMA BeginsSought ==
  ASSUME NEW g, Sound(g, {}), Flagged(g), RestSure(g), AtMost(g, DOMAIN g.map), g.detectIdx = 0
  PROVE  Sought(DetectGarbageInit(g))
<1> DEFINE w == WithLive(g, <<>>)
           f == FirstInMap(w)
<1>1. DetectGarbageInit(g) = DetectGarbage1(f)
  BY DEF DetectGarbageInit, WithLive
<1>2. <<>> \in Seq(Objects)
  OBVIOUS
<1>3. /\ Sound(w, {}) /\ w.heap = g.heap /\ w.map = g.map /\ w.live = <<>>
      /\ w.detectIdx = 0 /\ w \in Collectors
  BY <1>2, LiveSet, SoundType
<1> HIDE DEF w
<1>4. Sound(f, {}) /\ f = [w EXCEPT !.cursor = f.cursor]
  BY <1>3, FirstPassed
<1> HIDE DEF f
<1>5. f.heap = g.heap /\ f.map = g.map /\ f.live = <<>> /\ f.detectIdx = 0
  BY <1>3, <1>4 DEF Collectors
<1>6. Flagged(f) /\ RestSure(f) /\ AtMost(f, DOMAIN f.map)
  BY <1>5, SameSure
<1>7. LiveSure(f)
  BY <1>5 DEF LiveSure, InLive
<1> QED  BY <1>1, <1>4, <1>5, <1>6, <1>7, FindsSought

LEMMA CountsSought ==
  ASSUME NEW g, Sound(g, {}), Flagged(g), RestSure(g), AtMost(g, Passed(g)), g.detectIdx = 0
  PROVE  Sought(CountReferences(g))
<1> DEFINE k == CountReferences(g)
           M == DOMAIN g.map
           P == Passed(g)
           c == g.cursor
<1>1. /\ g \in Collectors /\ g.heap \in Heaps /\ M \subseteq Objects /\ M \subseteq Nat
      /\ \A x \in M : g.map[x] \in Int
      /\ g.map = [x \in M |-> g.map[x]]
      /\ Exact(g.heap, InLists(g.lists) \cup {}, M)
  BY SoundType, GcAssumption
<1>2. CASE c = Null
  <2>1. k = DetectGarbageInit(g)
    BY <1>2 DEF CountReferences
  <2>2. AtMost(g, M)
    BY <1>2 DEF Passed
  <2> QED  BY <2>1, <2>2, BeginsSought
<1>3. CASE c # Null
  <2> DEFINE next == g.heap[c].next
             m == IF g.heap[c].flag /\ next \in M THEN [g.map EXCEPT ![next] = @ - 1] ELSE g.map
             n == NextInMap(g)
  <2>1. k = [g EXCEPT !.map = m, !.cursor = n, !.detect = "countReferences", !.ret = 1]
    BY <1>3 DEF CountReferences
  <2>2. \A l : l.cursor = n /\ DOMAIN l.map = M => Passed(l) = P \cup {c}
    BY <1>3, NextPassed
  <2>3. c \in M /\ g.heap[c].flag /\ c \notin P
    <3>1. c \in M
      BY <1>3, SoundType
    <3> QED  BY <1>1, <1>3, <3>1 DEF Flagged, Passed
  <2>4. /\ DOMAIN m = M
        /\ \A x \in M : m[x] \in Int /\ m[x] = IF x = next THEN g.map[x] - 1 ELSE g.map[x]
    <3> DEFINE f == g.map
    <3>1. f = [x \in M |-> f[x]] /\ \A x \in M : f[x] \in Int
      BY <1>1
    <3>2. m = IF next \in M THEN [f EXCEPT ![next] = @ - 1] ELSE f
      BY <2>3
    <3> HIDE DEF M, next, f, m
    <3>3. DOMAIN m = M /\ \A x \in M : m[x] \in Int /\ m[x] = IF x = next THEN f[x] - 1 ELSE f[x]
      BY <3>1, <3>2
    <3> QED  BY <3>3 DEF f
  <2>5. ASSUME NEW x \in M
        PROVE  m[x] <= g.heap[x].held + Cardinality(Referrers(g.heap, x) \ (P \cup {c}))
    <3> DEFINE R == Referrers(g.heap, x)
               a == Cardinality(R \ P)
               b == Cardinality(R \ (P \cup {c}))
               e == g.heap[x].held
               u == g.map[x]
               v == m[x]
    <3>1. a \in Nat /\ b \in Nat /\ (c \in R \ P => b = a - 1)
      BY FewerReferrers
    <3>2. e \in Nat /\ u \in Int /\ u <= e + a
      BY <1>1, HeapType DEF AtMost
    <3>3. x = next => c \in R \ P
      <4> SUFFICES ASSUME x = next  PROVE c \in R
        BY <2>3
      <4>1. c \in Objects /\ c \in InLists(g.lists) \cup {}
        BY <1>1, <2>3, ExactGives
      <4>2. g.heap[c].rc > 0
        BY <1>1, <4>1 DEF Exact
      <4> QED  BY <4>1, <4>2 DEF Referrers, Linked
    <3>4. x # next => b = a
      <4>1. x # next => c \notin R
        BY DEF Referrers
      <4>2. c \notin R => R \ (P \cup {c}) = R \ P
        OBVIOUS
      <4> HIDE DEF R, P, c, next
      <4> QED  BY <4>1, <4>2
    <3>5. v = IF x = next THEN u - 1 ELSE u
      BY <2>4
    <3>6. v <= e + b
      <4>1. CASE x = next
        <5>1. v = u - 1 /\ b = a - 1
          BY <4>1, <3>1, <3>3, <3>5
        <5> HIDE DEF a, b, e, u, v
        <5> QED  BY <5>1, <3>1, <3>2
      <4>2. CASE x # next
        <5>1. v = u /\ b = a
          BY <4>2, <3>4, <3>5
        <5> HIDE DEF a, b, e, u, v
        <5> QED  BY <5>1, <3>2
      <4> QED  BY <4>1, <4>2
    <3> QED  BY <3>6
  <2> HIDE DEF m, n, k
  <2>6. /\ k.map = m /\ k.cursor = n /\ k.detect = "countReferences" /\ k.ret = 1
        /\ k.heap = g.heap /\ k.detectIdx = 0
    BY <1>1, <2>1 DEF Collectors
  <2>7. Passed(k) = P \cup {c}
    BY <2>2, <2>4, <2>6
  <2>8. AtMost(k, Passed(k))
    BY <2>4, <2>5, <2>6, <2>7 DEF AtMost
  <2>9. Flagged(k) /\ RestSure(k)
    BY <2>4, <2>6 DEF Flagged, RestSure
  <2> QED  BY <2>6, <2>8, <2>9 DEF k, Sought, Thorough, Searching
<1> QED  BY <1>2, <1>3

(* An object enters the map with as many as refer to it.                   *)
LEMMA EntersSought ==
  ASSUME NEW g, Sound(g, {}), g.cursor = Null, Flagged(g), AtMost(g, {}),
         NEW o \in InLists(g.lists) \ DOMAIN g.map
  PROVE  LET k == EnterMap(g, o)
         IN /\ DOMAIN k.map = DOMAIN g.map \cup {o} /\ Flagged(k) /\ AtMost(k, {})
            /\ Sure(g.heap) \subseteq Sure(k.heap)
            /\ k.lists = g.lists /\ k.detect = g.detect /\ k.detectIdx = g.detectIdx /\ k.ret = g.ret
<1> DEFINE k == EnterMap(g, o)
           M == DOMAIN g.map
           L == InLists(g.lists) \cup {}
           h == Entered(g.heap, o)
           m == [p \in M \cup {o} |-> IF p = o THEN g.heap[o].rc - 1 ELSE g.map[p]]
<1>1. /\ g \in Collectors /\ g.heap \in Heaps /\ M \subseteq Objects /\ \A x \in M : g.map[x] \in Int
      /\ Exact(g.heap, L, M) /\ o \in L \ M /\ o \in Objects
  BY SoundType DEF InLists
<1>2. /\ h \in Heaps /\ SameLinks(g.heap, h)
      /\ \A x \in Objects : h[x].held = g.heap[x].held /\ (x # o => h[x].flag = g.heap[x].flag)
  <2> HIDE DEF L, M
  <2> QED  BY <1>1, EntersMap DEF Entered
<1>3. h[o].flag
  BY <1>1 DEF Entered, ObjAddRef, Heaps, Object
<1>4. k = [g EXCEPT !.map = m, !.heap = h]
  BY DEF EnterMap, Entered
<1>5. g.heap[o].rc - 1 = g.heap[o].held + Cardinality(Referrers(g.heap, o))
  <2> DEFINE r == g.heap[o].rc
             e == g.heap[o].held
             c == Cardinality(Referrers(g.heap, o))
  <2>1. r \in Nat /\ e \in Nat /\ c \in Nat
    BY <1>1, HeapType, ReferrersFinite
  <2>2. r = e + c + One(o, L) + One(o, M)
    BY <1>1 DEF Exact
  <2>3. One(o, L) = 1 /\ One(o, M) = 0
    BY <1>1 DEF One
  <2> HIDE DEF r, e, c
  <2>4. r - 1 = e + c
    BY <2>1, <2>2, <2>3
  <2> QED  BY <2>4 DEF r, e, c
<1>6. DOMAIN m = M \cup {o} /\ m[o] = g.heap[o].rc - 1 /\ \A x \in M : m[x] = g.map[x]
  BY <1>1
<1> HIDE DEF h, m, k
<1>7. /\ k.heap = h /\ k.map = m
      /\ k.lists = g.lists /\ k.detect = g.detect /\ k.detectIdx = g.detectIdx /\ k.ret = g.ret
  BY <1>1, <1>4 DEF Collectors
<1>8. ASSUME NEW x \in M \cup {o}
      PROVE  m[x] <= h[x].held + Cardinality(Referrers(h, x) \ {})
  <2>1. /\ x \in Objects /\ h[x].held = g.heap[x].held /\ Referrers(h, x) = Referrers(g.heap, x)
        /\ Referrers(h, x) \ {} = Referrers(g.heap, x) /\ Referrers(g.heap, x) \ {} = Referrers(g.heap, x)
    BY <1>1, <1>2, SameReferrers
  <2>2. CASE x = o
    <3> DEFINE e == g.heap[o].held
               c == Cardinality(Referrers(g.heap, o))
    <3>1. m[x] = e + c /\ e \in Nat /\ c \in Nat
      BY <2>2, <1>1, <1>5, <1>6, HeapType, ReferrersFinite
    <3> HIDE DEF e, c
    <3>2. m[x] <= e + c
      BY <3>1
    <3> QED  BY <3>2, <2>1, <2>2 DEF e, c
  <2>3. CASE x # o
    <3>1. x \in M /\ m[x] = g.map[x]
      BY <2>3, <1>6, <1>8
    <3>2. g.map[x] <= g.heap[x].held + Cardinality(Referrers(g.heap, x) \ {})
      BY <3>1 DEF AtMost
    <3> QED  BY <3>1, <3>2, <2>1
  <2> QED  BY <2>2, <2>3
<1>9. AtMost(k, {})
  BY <1>6, <1>7, <1>8 DEF AtMost
<1>10. Flagged(k)
  BY <1>1, <1>2, <1>3, <1>6, <1>7 DEF Flagged
<1>11. Sure(g.heap) \subseteq Sure(h)
  BY <1>1, <1>2, SureKept
<1> QED  BY <1>6, <1>7, <1>9, <1>10, <1>11 DEF k

LEMMA BuildSought ==
  ASSUME NEW g, Sound(g, {}), g.cursor = Null, InOrder(g), g.lists["new"] = <<>>,
         Flagged(g), AtMost(g, {}), EnteredOrSure(g)
  PROVE  Sought(BuildMap(g))
<1> DEFINE k == BuildMap(g)
           s == g.lists["old"]
           j == g.detectIdx + 1
           n == [g EXCEPT !.detectIdx = @ + 1, !.detect = "buildMap", !.ret = 1]
           o == s[j].obj
           S == Sure(g.heap)
<1>1. /\ g \in Collectors /\ g.heap \in Heaps /\ g.detectIdx \in Nat /\ g.lists \in [Lists -> Seq(Entries)]
      /\ DOMAIN g.map \subseteq Objects /\ Apart(g.lists) /\ "old" \in Lists
      /\ Exact(g.heap, InLists(g.lists) \cup {}, DOMAIN g.map)
  BY SoundType, FitType DEF Sound, Lists
<1>2. s \in Seq(Entries) /\ Len(s) \in Nat
  BY <1>1
<1>3. CASE g.detectIdx >= Len(s)
  <2> DEFINE z == [g EXCEPT !.detectIdx = 0]
             f == FirstInMap(z)
  <2>1. k = CountReferences(f)
    BY <1>3 DEF BuildMap
  <2>2. /\ z \in Collectors /\ z.heap = g.heap /\ z.lists = g.lists /\ z.map = g.map
        /\ z.cursor = g.cursor /\ z.detectIdx = 0
    BY <1>1 DEF Collectors
  <2> HIDE DEF z
  <2>3. Sound(z, {})
    BY <2>2 DEF Sound
  <2>4. Sound(f, {}) /\ Passed(f) = {} /\ f = [z EXCEPT !.cursor = f.cursor]
    BY <2>3, FirstPassed
  <2> HIDE DEF f
  <2>5. f.heap = g.heap /\ f.map = g.map /\ f.detectIdx = 0
    BY <2>2, <2>4 DEF Collectors
  <2>6. Linked(g.heap) \ DOMAIN g.map \subseteq S
    <3> SUFFICES ASSUME NEW x \in Linked(g.heap), x \notin DOMAIN g.map  PROVE x \in S
      OBVIOUS
    <3>1. x \in InLists(g.lists)
      BY <1>1 DEF Exact, Linked
    <3>2. PICK list \in Lists : \E i \in 1 .. Len(g.lists[list]) : g.lists[list][i].obj = x
      BY <3>1 DEF InLists
    <3>3. list = "old"
      <4>1. list # "new"
        <5>1. Len(<<>>) = 0 /\ ~\E y \in 1 .. 0 : TRUE
          OBVIOUS
        <5> QED  BY <3>2, <5>1
      <4> QED  BY <4>1 DEF Lists
    <3>4. PICK i \in 1 .. Len(s) : s[i].obj = x
      BY <3>2, <3>3
    <3>5. i <= g.detectIdx
      BY <1>1, <1>2, <1>3
    <3> QED  BY <3>4, <3>5 DEF EnteredOrSure
  <2>7. RestSure(g)
    BY <2>6 DEF RestSure
  <2>8. Flagged(f) /\ RestSure(f) /\ AtMost(f, Passed(f))
    BY <2>4, <2>5, <2>7, SameSure
  <2> QED  BY <2>1, <2>4, <2>5, <2>8, CountsSought
<1>4. CASE g.detectIdx < Len(s)
  <2>1. k = IF g.heap[o].rc > 1 THEN EnterMap(n, o) ELSE n
    <3>1. n.detectIdx = j
      BY <1>1 DEF Collectors
    <3>2. ~(g.detectIdx >= Len(s))
      BY <1>1, <1>2, <1>4
    <3> HIDE DEF j
    <3> QED  BY <3>1, <3>2 DEF BuildMap
  <2>2. j \in 1 .. Len(s) /\ j \in Nat
    BY <1>1, <1>2, <1>4
  <2>3. /\ n \in Collectors /\ n.heap = g.heap /\ n.lists = g.lists /\ n.map = g.map
        /\ n.cursor = Null /\ n.detect = "buildMap" /\ n.detectIdx = j /\ n.ret = 1
    <3>1. "buildMap" \in Phases
      BY DEF Phases
    <3>2. j = g.detectIdx + 1
      OBVIOUS
    <3> HIDE DEF j
    <3> QED  BY <1>1, <2>2, <3>1, <3>2 DEF Collectors
  <2> HIDE DEF n
  <2>4. Sound(n, {}) /\ Flagged(n) /\ AtMost(n, {})
    BY <2>3, SameSure DEF Sound
  <2>5. o \in InLists(g.lists) /\ o \in Objects
    <3>1. o \in InLists(g.lists)
      BY <1>1, <2>2, EntryType
    <3> QED  BY <3>1 DEF InLists
  <2>6. o \notin DOMAIN g.map
    <3> SUFFICES ASSUME o \in DOMAIN g.map  PROVE FALSE
      OBVIOUS
    <3>1. PICK i \in 1 .. Len(s) : i <= g.detectIdx /\ s[i].obj = o
      BY DEF InOrder
    <3>2. i = j
      BY <1>1, <2>2, <3>1 DEF Apart
    <3> QED  BY <1>1, <3>1, <3>2
  <2>7. \A i \in 1 .. Len(s) : i <= j => i = j \/ s[i].obj \in DOMAIN g.map \cup S
    <3>1. \A i \in 1 .. Len(s) : i <= g.detectIdx => s[i].obj \in DOMAIN g.map \cup S
      BY DEF EnteredOrSure
    <3>2. \A i \in 1 .. Len(s) : i <= j => i = j \/ i <= g.detectIdx
      BY <1>1, <1>2
    <3> QED  BY <3>1, <3>2
  <2>8. CASE g.heap[o].rc > 1
    <3> HIDE DEF j
    <3>1. k = EnterMap(n, o)
      BY <2>1, <2>8
    <3> HIDE DEF k
    <3>2. /\ DOMAIN k.map = DOMAIN g.map \cup {o} /\ Flagged(k) /\ AtMost(k, {})
          /\ S \subseteq Sure(k.heap)
          /\ k.lists = g.lists /\ k.detect = "buildMap" /\ k.detectIdx = j /\ k.ret = 1
      <4> HIDE DEF o
      <4> QED  BY <3>1, <2>3, <2>4, <2>5, <2>6, EntersSought
    <3>3. EnteredOrSure(k)
      <4> HIDE DEF S
      <4> QED  BY <2>7, <3>2 DEF EnteredOrSure
    <3> QED  BY <3>2, <3>3 DEF k, Sought, Thorough, Searching
  <2>9. CASE ~(g.heap[o].rc > 1)
    <3> HIDE DEF j
    <3>1. k = n
      BY <2>1, <2>9
    <3>2. o \in S
      <4>1. g.heap[o].rc = 1
        <5>1. g.heap[o].rc >= 1 /\ g.heap[o].rc \in Nat
          BY <1>1, <2>5, ExactGives, HeapType
        <5> QED  BY <2>9, <5>1
      <4>2. Referrers(g.heap, o) = {} /\ o \in Linked(g.heap)
        <5>1. Referrers(g.heap, o) = {}
          BY <1>1, <2>5, <4>1, ExactGives
        <5> QED  BY <2>5, <4>1, <5>1 DEF Linked
      <4>3. o \in Roots(g.heap)
        BY <2>5, <4>2 DEF Roots
      <4> QED  BY <1>1, <4>3, SureIs
    <3> HIDE DEF k
    <3>3. EnteredOrSure(k)
      BY <2>3, <2>7, <3>1, <3>2 DEF EnteredOrSure
    <3> QED  BY <2>3, <2>4, <3>1, <3>3 DEF k, Sought, Thorough, Searching
  <2> QED  BY <2>8, <2>9
<1> QED  BY <1>1, <1>2, <1>3, <1>4

LEMMA ClearSought ==
  ASSUME NEW g, Sound(g, {}), g.cursor = Null, g.lists["new"] = <<>>, g.detectIdx = 0
  PROVE  Sought(ClearCounters(g))
<1> DEFINE k == ClearCounters(g)
           c == FirstInMap(g).cursor
           n == LeaveMap(g, c)
<1>1. CASE DOMAIN g.map = {}
  <2>1. k = BuildMap(g)
    BY <1>1 DEF ClearCounters
  <2>2. Flagged(g) /\ AtMost(g, {}) /\ InOrder(g)
    BY <1>1 DEF Flagged, AtMost, InOrder
  <2>3. EnteredOrSure(g)
    BY DEF EnteredOrSure
  <2> QED  BY <2>1, <2>2, <2>3, BuildSought
<1>2. CASE DOMAIN g.map # {}
  <2>1. k = Turned(n, "clearCounters")
    BY <1>2 DEF ClearCounters, Turned
  <2>2. c \in DOMAIN g.map
    <3> DEFINE f == FirstInMap(g)
    <3>1. Sound(f, {}) /\ (f.cursor = Null <=> DOMAIN g.map = {}) /\ f = [g EXCEPT !.cursor = f.cursor]
      BY FirstPassed
    <3> HIDE DEF f
    <3>2. f.map = g.map
      BY <3>1, SoundType DEF Collectors
    <3>3. f.cursor \in DOMAIN g.map
      BY <1>2, <3>1, <3>2 DEF Sound
    <3> QED  BY <3>3 DEF f
  <2> HIDE DEF c
  <2>3. Sound(n, {}) /\ n.detectIdx = 0
    BY <2>2, LeavesAlone
  <2> HIDE DEF n, k
  <2>4. k.detect = "clearCounters" /\ k.detectIdx = 0 /\ k.ret = 1
    <3>1. "clearCounters" \in Phases
      BY DEF Phases
    <3>2. n \in Collectors
      BY <2>3, SoundType
    <3>3. k.ret = 1
      BY <2>1, <3>2 DEF Turned, Collectors
    <3> QED  BY <2>1, <2>3, <3>1, <3>3, Turns
  <2> QED  BY <2>4, BreakingSought DEF k
<1> QED  BY <1>1, <1>2

LEMMA BreakSought ==
  ASSUME NEW g, g \in Collectors, g.detect = "breakCircles_haveGarbage", g.detectIdx = 0
  PROVE  Sought(BreakCircles(g))
<1> DEFINE k == BreakCircles(g)
<1>1. CASE g.cursor = Null
  <2>1. k = [g EXCEPT !.detect = "clearCounters", !.ret = 1]
    BY <1>1 DEF BreakCircles
  <2> HIDE DEF k
  <2>2. k.detect = "clearCounters" /\ k.detectIdx = 0 /\ k.ret = 1
    BY <2>1 DEF Collectors
  <2> QED  BY <2>2, BreakingSought DEF k
<1>2. CASE g.cursor # Null
  <2>1. k = [g EXCEPT !.heap = ReleaseAllHandles(CallDestructor(@, g.cursor), g.cursor),
                      !.cursor = NextInMap(g), !.detect = "breakCircles_haveGarbage", !.ret = 1]
    BY <1>2 DEF BreakCircles
  <2> HIDE DEF k
  <2>2. k.detect = "breakCircles_haveGarbage" /\ k.detectIdx = 0 /\ k.ret = 1
    BY <2>1 DEF Collectors
  <2> QED  BY <2>2, BreakingSought DEF k
<1> QED  BY <1>1, <1>2

LEMMA Searches ==
  ASSUME NEW g, Fit(g, {}), Thorough(g), g.lists["new"] = <<>>
  PROVE  Sought(IdentifyGarbageWithCyclicRefs(g))
<1> DEFINE k == IdentifyGarbageWithCyclicRefs(g)
<1>1. Sound(g, {}) /\ g \in Collectors
  BY FitSound, SoundType
<1>2. /\ g.detect \in Phases \ {"breakCircles"}
      /\ g.detect \in {"clearCounters", "buildMap", "detectGarbage_loop2"} => g.cursor = Null
      /\ g.detect = "buildMap" => InOrder(g)
  BY FitType, SoundType DEF Fit, Resting
<1>3. CASE g.detect = "clearCounters"
  <2>1. k = ClearCounters(g)
    BY <1>3 DEF IdentifyGarbageWithCyclicRefs
  <2>2. g.detectIdx = 0
    BY <1>3 DEF Thorough
  <2> QED  BY <2>1, <2>2, <1>1, <1>2, <1>3, ClearSought
<1>4. CASE g.detect = "buildMap"
  <2>1. k = BuildMap(g)
    BY <1>4 DEF IdentifyGarbageWithCyclicRefs
  <2>2. Flagged(g) /\ AtMost(g, {}) /\ EnteredOrSure(g)
    BY <1>4 DEF Thorough
  <2> QED  BY <2>1, <2>2, <1>1, <1>2, <1>4, BuildSought
<1>5. CASE g.detect = "countReferences"
  <2>1. k = CountReferences(g)
    BY <1>5 DEF IdentifyGarbageWithCyclicRefs
  <2>2. Flagged(g) /\ RestSure(g) /\ AtMost(g, Passed(g)) /\ g.detectIdx = 0
    BY <1>5 DEF Thorough, Searching
  <2> QED  BY <2>1, <2>2, <1>1, CountsSought
<1>6. CASE g.detect = "detectGarbage_init"
  <2>1. k = DetectGarbageInit(g)
    BY <1>6 DEF IdentifyGarbageWithCyclicRefs
  <2>2. Flagged(g) /\ RestSure(g) /\ AtMost(g, DOMAIN g.map) /\ g.detectIdx = 0
    BY <1>6 DEF Thorough, Searching
  <2> QED  BY <2>1, <2>2, <1>1, BeginsSought
<1>7. CASE g.detect = "detectGarbage_loop1"
  <2>1. k = DetectGarbage1(g)
    BY <1>7 DEF IdentifyGarbageWithCyclicRefs
  <2>2. Flagged(g) /\ RestSure(g) /\ AtMost(g, DOMAIN g.map) /\ LiveSure(g) /\ g.detectIdx = 0
    BY <1>7 DEF Thorough, Searching
  <2> QED  BY <2>1, <2>2, <1>1, FindsSought
<1>8. CASE g.detect = "detectGarbage_loop2"
  <2>1. k = DetectGarbage2(g)
    BY <1>8 DEF IdentifyGarbageWithCyclicRefs
  <2>2. Flagged(g) /\ RestSure(g) /\ LiveSure(g) /\ g.detectIdx = 0
    BY <1>8 DEF Thorough, Searching
  <2> QED  BY <2>1, <2>2, <1>1, <1>2, <1>8, SpreadsSought
<1>9. CASE g.detect = "verifyUnmarked"
  <2>1. k = VerifyUnmarked(g)
    BY <1>9 DEF IdentifyGarbageWithCyclicRefs
  <2>2. Flagged(g) /\ RestSure(g) /\ g.detectIdx = 0
    BY <1>9 DEF Thorough, Searching
  <2> QED  BY <2>1, <2>2, <1>1, EndsSought
<1>10. CASE g.detect = "breakCircles_haveGarbage"
  <2>1. k = BreakCircles(g)
    BY <1>10 DEF IdentifyGarbageWithCyclicRefs
  <2>2. g.detectIdx = 0
    BY <1>10 DEF Thorough
  <2> QED  BY <2>1, <2>2, <1>1, <1>10, BreakSought
<1> QED  BY <1>2, <1>3, <1>4, <1>5, <1>6, <1>7, <1>8, <1>9, <1>10 DEF Phases

(* What a sweep of the old objects does, while the script does nothing: an *)
(* object is gone, or what refers to what is as it was.                    *)
SweptSo(g) ==
  g.sweep["old"].state = "loop" =>
    \A i \in 1 .. Len(g.lists["old"]) : i <= g.sweep["old"].at => g.heap[g.lists["old"][i].obj].rc # 1
Clean(g) == \A i \in 1 .. Len(g.lists["old"]) : g.heap[g.lists["old"][i].obj].rc # 1
SameRest(g, k) ==
  /\ k.lists["old"] = g.lists["old"] /\ SameLinks(g.heap, k.heap)
  /\ \A o \in Objects : g.heap[o].held > 0 => k.heap[o].held > 0
SweepsOn(g, k) ==
  /\ k.lists["new"] = g.lists["new"]
  /\ \/ Len(k.lists["old"]) < Len(g.lists["old"]) /\ k.ret = 1
     \/ /\ SameRest(g, k)
        /\ SweptSo(g) => SweptSo(k)
        /\ k.ret = 0 => k.sweep["old"] = Unstarted /\ (SweptSo(g) => Clean(k))

LEMMA CollectsOn ==
  ASSUME NEW g, Fit(g, {}), NEW i \in 1 .. Len(g.lists["old"]), g.heap[g.lists["old"][i].obj].rc = 1,
         g.ret = 1
  PROVE  SweepsOn(g, Collect(g, "old", i))
<1> DEFINE k == Collect(g, "old", i)
           o == g.lists["old"][i].obj
           h == ObjRelease(g.heap, o)
           L == InLists(g.lists) \cup {}
           s == g.lists["old"]
           t == RemoveObjectAtIdx(s, i)
<1>1. /\ g \in Collectors /\ g.heap \in Heaps /\ g.lists \in [Lists -> Seq(Entries)] /\ g.sweep \in [Lists -> Sweeps]
      /\ Exact(g.heap, L, DOMAIN g.map) /\ "old" \in Lists /\ "new" \in Lists
  BY FitType DEF Fit, Sound, Lists
<1>2. o \in L
  BY <1>1, EntryType
<1>3. CASE o \notin Rising \/ g.heap[o].destructed
  <2> DEFINE lists == [g.lists EXCEPT !["old"] = t]
             sweep == [g.sweep EXCEPT !["old"] = [state |-> "haveMore", at |-> i - 1]]
  <2>1. h[o].rc = 0
    BY <1>1, <1>2, <1>3, FreedExact
  <2>2. k = [g EXCEPT !.heap = h, !.lists = lists, !.sweep = sweep]
    BY <2>1 DEF Collect
  <2>3. Len(t) = Len(s) - 1 /\ Len(s) \in Nat
    <3>1. s \in Seq(Entries) /\ i \in 1 .. Len(s)
      BY <1>1
    <3> HIDE DEF s
    <3>2. Len(s) \in Nat
      BY <3>1
    <3> QED  BY <3>1, <3>2, Removes
  <2> HIDE DEF t, h, sweep, k
  <2>4. lists["old"] = t /\ lists["new"] = g.lists["new"]
    BY <1>1
  <2> HIDE DEF lists
  <2>5. k.lists = lists /\ k.ret = 1
    BY <1>1, <2>2 DEF Collectors
  <2>6. Len(t) < Len(s)
    <3> HIDE DEF s
    <3> QED  BY <2>3
  <2> QED  BY <2>4, <2>5, <2>6 DEF k, SweepsOn
<1>4. CASE ~(o \notin Rising \/ g.heap[o].destructed)
  <2> DEFINE l == ObjAddRef(h, o)
             sweep == [g.sweep EXCEPT !["old"] = [state |-> "haveMore", at |-> i]]
  <2>1. /\ h[o].rc # 0 /\ SameLinks(g.heap, l)
        /\ \A x \in Objects : g.heap[x].held > 0 => l[x].held > 0
    BY <1>1, <1>2, <1>4, Rises
  <2>2. k = [g EXCEPT !.heap = l, !.sweep = sweep]
    BY <2>1 DEF Collect
  <2>3. sweep["old"].state = "haveMore"
    BY <1>1
  <2> HIDE DEF l, h, sweep, k
  <2>4. k.lists = g.lists /\ k.heap = l /\ k.sweep = sweep /\ k.ret = 1
    BY <1>1, <2>2 DEF Collectors
  <2>5. SameRest(g, k)
    BY <2>1, <2>4 DEF SameRest
  <2>6. SweptSo(k)
    BY <2>3, <2>4 DEF SweptSo
  <2> QED  BY <2>4, <2>5, <2>6 DEF k, SweepsOn
<1> QED  BY <1>3, <1>4

LEMMA InspectsOn ==
  ASSUME NEW g, Fit(g, {}), g.sweep["old"].at < Len(g.lists["old"])
  PROVE  SweepsOn(g, Inspect(g, "old")) /\ Inspect(g, "old").ret = 1
<1> DEFINE i == g.sweep["old"].at + 1
           o == g.lists["old"][i].obj
           n == [g EXCEPT !.ret = 1]
           k == Inspect(g, "old")
<1>1. /\ g \in Collectors /\ g.lists \in [Lists -> Seq(Entries)] /\ g.sweep \in [Lists -> Sweeps]
      /\ "old" \in Lists
  BY FitType DEF Fit, Sound, Lists
<1>2. g.sweep["old"].at \in Nat /\ i \in 1 .. Len(g.lists["old"])
  <2>1. g.sweep["old"] \in Sweeps /\ Len(g.lists["old"]) \in Nat
    BY <1>1
  <2>2. g.sweep["old"].at \in Nat
    BY <2>1 DEF Sweeps
  <2> QED  BY <2>1, <2>2
<1>3. n \in Collectors /\ Likewise(g, n) /\ n.lists = g.lists /\ n.heap = g.heap /\ n.sweep = g.sweep /\ n.ret = 1
  BY <1>1 DEF Collectors, Likewise
<1>4. Fit(n, {})
  BY <1>3, LikewiseFit
<1>5. k = IF g.heap[o].rc = 1 THEN Collect(n, "old", i) ELSE [n EXCEPT !.sweep["old"].at = i]
  BY DEF Inspect
<1> HIDE DEF n, k
<1>6. CASE g.heap[o].rc = 1
  <2>1. k = Collect(n, "old", i)
    BY <1>5, <1>6
  <2>2. SweepsOn(n, k)
    <3> HIDE DEF i
    <3> QED  BY <1>2, <1>3, <1>4, <1>6, <2>1, CollectsOn
  <2>3. SweepsOn(g, k)
    BY <1>3, <2>2 DEF SweepsOn, SameRest, SweptSo
  <2>4. k.ret = 1
    <3>1. "ret" \in DOMAIN n
      BY <1>3 DEF Collectors
    <3>2. k.ret = n.ret
      <4> HIDE DEF i
      <4> QED  BY <2>1, <3>1, <1>3 DEF Collect, Collectors
    <3> QED  BY <1>3, <3>2
  <2> QED  BY <2>3, <2>4 DEF k
<1>7. CASE g.heap[o].rc # 1
  <2> DEFINE sweep == [g.sweep EXCEPT !["old"].at = i]
  <2>1. k = [n EXCEPT !.sweep = sweep]
    BY <1>3, <1>5, <1>7
  <2>2. sweep["old"].at = i /\ sweep["old"].state = g.sweep["old"].state
    <3>1. g.sweep["old"] \in Sweeps
      BY <1>1
    <3> HIDE DEF i
    <3> QED  BY <1>1, <3>1 DEF Sweeps
  <2> HIDE DEF sweep
  <2>3. k.lists = g.lists /\ k.heap = g.heap /\ k.sweep = sweep /\ k.ret = 1
    BY <1>3, <2>1 DEF Collectors
  <2>4. SameRest(g, k)
    BY <2>3 DEF SameRest, SameLinks
  <2>5. SweptSo(g) => SweptSo(k)
    <3>1. \A j \in 1 .. Len(g.lists["old"]) : j <= i => j = i \/ j <= g.sweep["old"].at
      BY <1>2
    <3> HIDE DEF i
    <3> QED  BY <1>7, <2>2, <2>3, <3>1 DEF SweptSo
  <2> QED  BY <2>3, <2>4, <2>5 DEF k, SweepsOn
<1> QED  BY <1>6, <1>7

LEMMA DestroysOn ==
  ASSUME NEW g, Fit(g, {})
  PROVE  SweepsOn(g, DestroyGarbage(g, "old"))
<1> DEFINE s == g.sweep["old"]
           over == s.at >= Len(g.lists["old"])
           k == DestroyGarbage(g, "old")
           done == [g.sweep EXCEPT !["old"] = Unstarted]
<1>1. /\ g \in Collectors /\ g.lists \in [Lists -> Seq(Entries)] /\ g.sweep \in [Lists -> Sweeps]
      /\ "old" \in Lists
  BY FitType DEF Fit, Sound, Lists
<1>2. /\ s \in Sweeps /\ s.at \in Nat /\ s.state \in {"init", "loop", "haveMore"}
      /\ Len(g.lists["old"]) \in Nat /\ g.lists["old"] \in Seq(Entries)
  <2>1. s \in Sweeps /\ g.lists["old"] \in Seq(Entries)
    BY <1>1
  <2> QED  BY <2>1 DEF Sweeps
<1>3. ASSUME k = [g EXCEPT !.sweep = done, !.ret = 0], SweptSo(g) => Clean(g)
      PROVE  SweepsOn(g, k)
  <2>1. done["old"] = Unstarted
    BY <1>1
  <2> HIDE DEF done, k
  <2>2. k.lists = g.lists /\ k.heap = g.heap /\ k.sweep = done /\ k.ret = 0
    BY <1>1, <1>3 DEF Collectors
  <2>3. SameRest(g, k) /\ SweptSo(k)
    BY <2>1, <2>2 DEF SameRest, SameLinks, SweptSo, Unstarted
  <2>4. SweptSo(g) => Clean(k)
    BY <1>3, <2>2 DEF Clean
  <2> QED  BY <2>1, <2>2, <2>3, <2>4 DEF k, SweepsOn
<1>4. CASE s.state = "init" \/ (over /\ s.state = "haveMore")
  <2>1. k = StartSweep(g, "old")
    BY <1>4 DEF DestroyGarbage
  <2>2. CASE g.lists["old"] = <<>>
    <3>1. k = [g EXCEPT !.sweep = done, !.ret = 0]
      BY <2>1, <2>2 DEF StartSweep
    <3>2. Clean(g)
      BY <2>2 DEF Clean
    <3> QED  BY <3>1, <3>2, <1>3
  <2>3. CASE g.lists["old"] # <<>>
    <3> DEFINE sweep == [g.sweep EXCEPT !["old"] = [state |-> "loop", at |-> 0]]
               n == [g EXCEPT !.sweep = sweep]
    <3>1. k = Inspect(n, "old")
      BY <2>1, <2>3 DEF StartSweep
    <3>2. sweep \in [Lists -> Sweeps] /\ sweep["old"].at = 0
      BY <1>1 DEF Sweeps
    <3> HIDE DEF sweep
    <3>3. n \in Collectors /\ Likewise(g, n) /\ n.sweep = sweep /\ n.lists = g.lists /\ n.heap = g.heap
      BY <1>1, <3>2 DEF Collectors, Likewise
    <3> HIDE DEF n, k
    <3>4. Fit(n, {})
      BY <3>3, LikewiseFit
    <3>5. n.sweep["old"].at < Len(n.lists["old"])
      <4>1. Len(g.lists["old"]) # 0
        BY <1>2, <2>3
      <4> QED  BY <1>2, <3>2, <3>3, <4>1
    <3>6. SweepsOn(n, k) /\ k.ret = 1
      BY <3>1, <3>4, <3>5, InspectsOn
    <3>7. SweptSo(n)
      <4>1. \A i \in 1 .. Len(n.lists["old"]) : ~(i <= 0)
        OBVIOUS
      <4> QED  BY <3>2, <3>3, <4>1 DEF SweptSo
    <3>8. SweepsOn(g, k)
      BY <3>3, <3>6, <3>7 DEF SweepsOn, SameRest
    <3> QED  BY <3>8 DEF k
  <2> QED  BY <2>2, <2>3
<1>5. CASE ~(s.state = "init" \/ (over /\ s.state = "haveMore")) /\ over
  <2>1. k = [g EXCEPT !.sweep = done, !.ret = 0]
    BY <1>5 DEF DestroyGarbage
  <2>2. s.state = "loop" /\ over
    BY <1>2, <1>5
  <2>3. \A i \in 1 .. Len(g.lists["old"]) : i <= s.at
    BY <1>2, <2>2
  <2>4. SweptSo(g) => Clean(g)
    BY <2>2, <2>3 DEF SweptSo, Clean
  <2> QED  BY <2>1, <2>4, <1>3
<1>6. CASE ~(s.state = "init" \/ (over /\ s.state = "haveMore")) /\ ~over
  <2>1. k = Inspect(g, "old")
    BY <1>6 DEF DestroyGarbage
  <2>2. s.at < Len(g.lists["old"])
    BY <1>2, <1>6
  <2> QED  BY <2>1, <2>2, InspectsOn
<1> QED  BY <1>4, <1>5, <1>6

(* Where everything that is left is sure, and nothing is for the collector *)
(* only, the script reaches everything.                                    *)
LEMMA AllReached ==
  ASSUME NEW g, Fit(g, {}), g.lists["new"] = <<>>, DOMAIN g.map = {}, RestSure(g), Clean(g)
  PROVE  Linked(g.heap) = Reachable(g.heap)
<1> DEFINE h == g.heap
<1>1. /\ h \in Heaps /\ Exact(h, InLists(g.lists), DOMAIN g.map)
      /\ Reachable(h) \subseteq Linked(h) /\ Linked(h) \subseteq Objects
  BY KeptType
<1>2. ASSUME NEW o \in Roots(h)  PROVE h[o].held > 0
  <2> SUFFICES ASSUME ~(h[o].held > 0), o \in Linked(h), Referrers(h, o) = {}  PROVE FALSE
    BY <1>2 DEF Roots
  <2>1. o \in Objects /\ o \in InLists(g.lists)
    BY <1>1 DEF Linked, Exact
  <2>2. h[o].held \in Nat /\ h[o].rc \in Nat
    BY <1>1, <2>1, HeapType
  <2>3. Cardinality(Referrers(h, o)) = 0
    BY FS_EmptySet
  <2>4. One(o, InLists(g.lists)) = 1 /\ One(o, DOMAIN g.map) = 0
    BY <2>1 DEF One
  <2>5. h[o].rc = h[o].held + Cardinality(Referrers(h, o)) + One(o, InLists(g.lists)) + One(o, DOMAIN g.map)
    BY <1>1, <2>1 DEF Exact
  <2>6. h[o].rc = 1
    BY <2>2, <2>3, <2>4, <2>5
  <2>7. PICK list \in Lists : \E i \in 1 .. Len(g.lists[list]) : g.lists[list][i].obj = o
    BY <2>1 DEF InLists
  <2>8. list = "old"
    <3>1. Len(<<>>) = 0 /\ ~\E y \in 1 .. 0 : TRUE
      OBVIOUS
    <3> QED  BY <2>7, <3>1 DEF Lists
  <2> QED  BY <2>6, <2>7, <2>8 DEF Clean
<1>3. Sure(h) \subseteq Reachable(h)
  BY <1>1, <1>2, SureReached
<1>4. Linked(h) \subseteq Sure(h)
  BY DEF RestSure
<1> QED  BY <1>1, <1>3, <1>4

(* What the detection does not touch. *)
Fields == {"heap", "lists", "sweep", "detect", "detectIdx", "map", "cursor", "live", "full", "ret", "use"}
Keeps(g, k) == DOMAIN k = Fields /\ k.lists = g.lists /\ k.sweep = g.sweep /\ k.full = g.full

LEMMA KeepsTwice ==
  ASSUME NEW g, NEW k, NEW l, Keeps(g, k), Keeps(k, l)  PROVE Keeps(g, l)
BY DEF Keeps

LEMMA FirstKeeps ==
  ASSUME NEW g, DOMAIN g = Fields
  PROVE  /\ Keeps(g, FirstInMap(g))
         /\ \A b : Keeps(g, FirstInMap([g EXCEPT !.detect = b]))
         /\ \A b : Keeps(g, FirstInMap([g EXCEPT !.detectIdx = b]))
         /\ \A b : Keeps(g, FirstInMap([g EXCEPT !.live = b]))
BY DEF FirstInMap, Keeps, Fields

LEMMA MapKeeps ==
  ASSUME NEW g, DOMAIN g = Fields, NEW o
  PROVE  Keeps(g, LeaveMap(g, o)) /\ Keeps(g, EnterMap(g, o))
BY DEF LeaveMap, EnterMap, Keeps, Fields

LEMMA BreakKeeps ==
  ASSUME NEW g, DOMAIN g = Fields
  PROVE  Keeps(g, BreakCircles(g))
BY DEF BreakCircles, Keeps, Fields

LEMMA VerifyKeeps ==
  ASSUME NEW g, DOMAIN g = Fields
  PROVE  Keeps(g, VerifyUnmarked(g))
<1> DEFINE f == FirstInMap([g EXCEPT !.detect = "breakCircles"])
<1>1. Keeps(g, f)
  BY FirstKeeps
<1>2. VerifyUnmarked(g) = BreakCircles(f) \/ Keeps(g, VerifyUnmarked(g))
  BY DEF VerifyUnmarked, Keeps, Fields
<1> HIDE DEF f
<1>3. Keeps(g, BreakCircles(f))
  BY <1>1, BreakKeeps, KeepsTwice DEF Keeps
<1> QED  BY <1>2, <1>3

LEMMA SpreadKeeps ==
  ASSUME NEW g, DOMAIN g = Fields
  PROVE  Keeps(g, DetectGarbage2(g))
<1> DEFINE o == g.live[Len(g.live)]
           n == [g EXCEPT !.live = SubSeq(@, 1, Len(@) - 1)]
           left == LeaveMap(n, o)
           next == g.heap[o].next
           on == IF g.live = <<>> THEN g
                 ELSE IF o \notin DOMAIN g.map THEN n
                 ELSE IF next \in DOMAIN left.map THEN [left EXCEPT !.live = Append(@, next)]
                 ELSE left
           f == FirstInMap(g)
<1>1. DetectGarbage2(g) =
        IF g.live = <<>> THEN VerifyUnmarked(f) ELSE [on EXCEPT !.detect = "detectGarbage_loop2", !.ret = 1]
  BY DEF DetectGarbage2
<1>2. Keeps(g, VerifyUnmarked(f))
  <2>1. Keeps(g, f)
    BY FirstKeeps
  <2> HIDE DEF f
  <2> QED  BY <2>1, VerifyKeeps, KeepsTwice DEF Keeps
<1>3. Keeps(g, g) /\ Keeps(g, n)
  BY DEF Keeps, Fields
<1> HIDE DEF n, o, f
<1>4. Keeps(g, left)
  BY <1>3, MapKeeps, KeepsTwice DEF Keeps
<1> HIDE DEF left, next
<1>5. Keeps(g, [left EXCEPT !.live = Append(@, next)])
  BY <1>4 DEF Keeps, Fields
<1>6. Keeps(g, on)
  BY <1>3, <1>4, <1>5
<1> HIDE DEF on
<1>7. Keeps(g, [on EXCEPT !.detect = "detectGarbage_loop2", !.ret = 1])
  BY <1>6 DEF Keeps, Fields
<1> QED  BY <1>1, <1>2, <1>7

LEMMA FindKeeps ==
  ASSUME NEW g, DOMAIN g = Fields
  PROVE  Keeps(g, DetectGarbage1(g))
<1>1. DetectGarbage1(g) = DetectGarbage2(g) \/ Keeps(g, DetectGarbage1(g))
  BY DEF DetectGarbage1, Keeps, Fields
<1> QED  BY <1>1, SpreadKeeps

LEMMA BeginKeeps ==
  ASSUME NEW g, DOMAIN g = Fields
  PROVE  Keeps(g, DetectGarbageInit(g))
<1> DEFINE f == FirstInMap([g EXCEPT !.live = <<>>])
<1>1. Keeps(g, f) /\ DetectGarbageInit(g) = DetectGarbage1(f)
  BY FirstKeeps DEF DetectGarbageInit
<1> HIDE DEF f
<1> QED  BY <1>1, FindKeeps, KeepsTwice DEF Keeps

LEMMA CountKeeps ==
  ASSUME NEW g, DOMAIN g = Fields
  PROVE  Keeps(g, CountReferences(g))
<1>1. CountReferences(g) = DetectGarbageInit(g) \/ Keeps(g, CountReferences(g))
  BY DEF CountReferences, Keeps, Fields
<1> QED  BY <1>1, BeginKeeps

LEMMA BuildKeeps ==
  ASSUME NEW g, DOMAIN g = Fields
  PROVE  Keeps(g, BuildMap(g))
<1> DEFINE n == [g EXCEPT !.detectIdx = @ + 1, !.detect = "buildMap", !.ret = 1]
           o == g.lists["old"][n.detectIdx].obj
           f == FirstInMap([g EXCEPT !.detectIdx = 0])
<1>1. \/ BuildMap(g) = CountReferences(f)
      \/ BuildMap(g) = EnterMap(n, o)
      \/ BuildMap(g) = n
  BY DEF BuildMap
<1>2. Keeps(g, f)
  BY FirstKeeps
<1>3. Keeps(g, n)
  BY DEF Keeps, Fields
<1> HIDE DEF f, n, o
<1>4. Keeps(g, CountReferences(f))
  BY <1>2, CountKeeps, KeepsTwice DEF Keeps
<1>5. Keeps(g, EnterMap(n, o))
  BY <1>3, MapKeeps, KeepsTwice DEF Keeps
<1> QED  BY <1>1, <1>3, <1>4, <1>5

LEMMA ClearKeeps ==
  ASSUME NEW g, DOMAIN g = Fields
  PROVE  Keeps(g, ClearCounters(g))
<1> DEFINE n == LeaveMap(g, FirstInMap(g).cursor)
<1>1. ClearCounters(g) = BuildMap(g) \/ ClearCounters(g) = [n EXCEPT !.detect = "clearCounters", !.ret = 1]
  BY DEF ClearCounters
<1>2. Keeps(g, n)
  BY MapKeeps
<1> HIDE DEF n
<1>3. Keeps(g, [n EXCEPT !.detect = "clearCounters", !.ret = 1])
  BY <1>2 DEF Keeps, Fields
<1> QED  BY <1>1, <1>3, BuildKeeps

LEMMA IdentifyKeeps ==
  ASSUME NEW g, Fit(g, {})
  PROVE  Keeps(g, IdentifyGarbageWithCyclicRefs(g))
<1>1. g \in Collectors
  BY FitSound, SoundType
<1>2. DOMAIN g = Fields
  BY <1>1 DEF Collectors, Fields
<1>3. g.detect \in Phases \ {"breakCircles"}
  BY <1>1, FitType DEF Fit, Resting
<1> DEFINE k == IdentifyGarbageWithCyclicRefs(g)
<1>4. \/ k = ClearCounters(g) \/ k = BuildMap(g) \/ k = CountReferences(g) \/ k = DetectGarbageInit(g)
      \/ k = DetectGarbage1(g) \/ k = DetectGarbage2(g) \/ k = VerifyUnmarked(g) \/ k = BreakCircles(g)
  BY <1>3 DEF IdentifyGarbageWithCyclicRefs, Phases
<1> HIDE DEF k
<1> QED
  BY <1>2, <1>4, ClearKeeps, BuildKeeps, CountKeeps, BeginKeeps, FindKeeps, SpreadKeeps, VerifyKeeps,
     BreakKeeps DEF k

-----------------------------------------------------------------------------
(* A whole cycle the script leaves alone: rounds of a detection that finds *)
(* all there is and a sweep after which less is there, until a round frees *)
(* nothing.                                                                *)
WholeCycle(g) ==
  /\ g.lists["new"] = <<>> /\ Len(g.lists["old"]) <= g.full.count
  /\ g.full.phase \in {"detect", "destroyOld"}
  /\ g.full.phase = "detect" =>
       Thorough(g) /\ g.sweep["old"] = Unstarted /\ Len(g.lists["old"]) = g.full.count
  /\ g.full.phase = "destroyOld" =>
       /\ g.detect = "clearCounters" /\ g.detectIdx = 0 /\ DOMAIN g.map = {}
       /\ Len(g.lists["old"]) = g.full.count => RestSure(g) /\ SweptSo(g)
DoesBoth(f) == f.phase # "no" /\ f.doDetect /\ f.doDestroy
CycleInv == quiet /\ DoesBoth(gc.full) => WholeCycle(gc)

LEMMA SearchKept ==
  ASSUME NEW c, Fit(c, {}), WholeCycle(c), DoesBoth(c.full), c.full.phase = "detect",
         NEW g, g = IdentifyGarbageWithCyclicRefs(c), NEW k, k = IF g.ret = 0 THEN Finished(g) ELSE g
  PROVE  k.full.phase # "no" /\ WholeCycle(k)
<1>1. c \in Collectors /\ c.full \in Cycles /\ Len(c.lists["old"]) \in Nat
  <2>1. c \in Collectors /\ c.lists["old"] \in Seq(Entries)
    BY FitSound, SoundType DEF Lists
  <2> QED  BY <2>1, FitType
<1>2. /\ Thorough(c) /\ c.sweep["old"] = Unstarted /\ Len(c.lists["old"]) = c.full.count
      /\ c.lists["new"] = <<>>
  BY DEF WholeCycle
<1>3. Sought(g)
  BY <1>2, Searches
<1>4. Keeps(c, g)
  BY IdentifyKeeps
<1>5. CASE g.ret = 0
  <2>1. Thorough(g) /\ Ended(g)
    BY <1>3, <1>5 DEF Sought
  <2> DEFINE f == [c.full EXCEPT !.phase = "destroyOld"]
  <2>2. k = [g EXCEPT !.full = f]
    BY <1>4, <1>5 DEF Finished, Keeps, DoesBoth
  <2>3. f.phase = "destroyOld" /\ f.count = c.full.count
    BY <1>1 DEF Cycles
  <2> HIDE DEF f
  <2>4. /\ k.full = f /\ k.lists = c.lists /\ k.sweep = c.sweep /\ k.heap = g.heap /\ k.map = g.map
        /\ k.detect = g.detect /\ k.detectIdx = g.detectIdx
    BY <1>4, <2>2 DEF Keeps, Fields
  <2>5. g.detect = "clearCounters" /\ g.detectIdx = 0 /\ DOMAIN g.map = {} /\ RestSure(g)
    BY <2>1 DEF Ended, Thorough
  <2>6. RestSure(k)
    BY <2>4, <2>5, SameSure
  <2>7. SweptSo(k)
    <3>1. k.sweep["old"] = Unstarted
      BY <1>2, <2>4
    <3>2. k.sweep["old"].state # "loop"
      BY <3>1 DEF Unstarted
    <3> QED  BY <3>2 DEF SweptSo
  <2>8. Len(k.lists["old"]) <= k.full.count /\ k.lists["new"] = <<>>
    BY <1>1, <1>2, <2>3, <2>4
  <2> QED  BY <2>3, <2>4, <2>5, <2>6, <2>7, <2>8 DEF WholeCycle
<1>6. CASE g.ret # 0
  <2>1. k = g /\ Thorough(g)
    BY <1>3, <1>6 DEF Sought
  <2>2. g.lists = c.lists /\ g.sweep = c.sweep /\ g.full = c.full
    BY <1>4 DEF Keeps
  <2> QED  BY <1>1, <1>2, <2>1, <2>2 DEF WholeCycle
<1> QED  BY <1>5, <1>6

LEMMA RestSureKept ==
  ASSUME NEW g, NEW k, g.heap \in Heaps, k.heap \in Heaps, k.map = g.map, SameRest(g, k), RestSure(g)
  PROVE  RestSure(k)
<1>1. Sure(g.heap) \subseteq Sure(k.heap)
  BY SureKept DEF SameRest
<1>2. Linked(k.heap) = Linked(g.heap)
  BY SameReferrers DEF SameRest
<1> QED  BY <1>1, <1>2 DEF RestSure

LEMMA SweepKept ==
  ASSUME NEW c, Fit(c, {}), WholeCycle(c), DoesBoth(c.full), c.full.phase = "destroyOld",
         NEW g, g = DestroyGarbage(c, "old"), NEW k, k = IF g.ret = 0 THEN Finished(g) ELSE g
  PROVE  /\ k.full.phase # "no" => WholeCycle(k)
         /\ k.full.phase = "no" => Linked(k.heap) = Reachable(k.heap)
<1> DEFINE n == c.full.count
           m == Len(c.lists["old"])
           l == Len(g.lists["old"])
<1>1. Fit(g, {}) /\ Swept(c, g) /\ SweepsOn(c, g)
  BY DestroysFit, DestroysOn DEF Lists
<1>2. /\ c \in Collectors /\ g \in Collectors /\ c.heap \in Heaps /\ g.heap \in Heaps /\ c.full \in Cycles
      /\ n \in Nat /\ m \in Nat /\ l \in Nat
  <2>1. /\ c \in Collectors /\ c.lists["old"] \in Seq(Entries) /\ g \in Collectors /\ g.lists["old"] \in Seq(Entries)
        /\ c.heap \in Heaps /\ g.heap \in Heaps
    BY <1>1, FitSound, SoundType DEF Lists
  <2>2. c.full \in Cycles
    BY <2>1, FitType
  <2> QED  BY <2>1, <2>2 DEF Cycles
<1>3. /\ c.lists["new"] = <<>> /\ m <= n
      /\ c.detect = "clearCounters" /\ c.detectIdx = 0 /\ DOMAIN c.map = {}
      /\ m = n => RestSure(c) /\ SweptSo(c)
  BY DEF WholeCycle
<1>4. /\ g.lists["new"] = <<>> /\ g.full = c.full
      /\ g.detect = "clearCounters" /\ g.detectIdx = 0 /\ g.map = c.map
  BY <1>1, <1>3 DEF Swept, SweepsOn
<1>5. /\ l <= n
      /\ l = n => SameRest(c, g) /\ m = n
      /\ g.ret = 0 => SameRest(c, g)
  <2>1. l < m \/ (SameRest(c, g) /\ l = m)
    BY <1>1 DEF SweepsOn, SameRest
  <2>2. g.ret = 0 => SameRest(c, g)
    BY <1>1 DEF SweepsOn
  <2> HIDE DEF l, m, n
  <2> QED  BY <1>2, <1>3, <2>1, <2>2
<1>6. l = n => RestSure(g) /\ SweptSo(g)
  <2> SUFFICES ASSUME l = n  PROVE RestSure(g) /\ SweptSo(g)
    OBVIOUS
  <2>1. SameRest(c, g) /\ RestSure(c) /\ SweptSo(c)
    BY <1>3, <1>5
  <2>2. RestSure(g)
    BY <1>2, <1>4, <2>1, RestSureKept
  <2>3. SweptSo(g)
    <3>1. ~(l < m)
      <4> HIDE DEF l, m, n
      <4> QED  BY <1>2, <1>5
    <3> QED  BY <1>1, <2>1, <3>1 DEF SweepsOn
  <2> QED  BY <2>2, <2>3
<1> HIDE DEF m
<1>7. CASE g.ret # 0
  <2>1. k = g
    BY <1>7
  <2>2. WholeCycle(g)
    BY <1>3, <1>4, <1>5, <1>6 DEF WholeCycle
  <2> QED  BY <2>1, <2>2, <1>4 DEF DoesBoth
<1>8. CASE g.ret = 0
  <2>1. g.sweep["old"] = Unstarted
    BY <1>1, <1>8 DEF SweepsOn
  <2>2. CASE n # l
    <3> DEFINE f == [c.full EXCEPT !.count = l, !.phase = "detect"]
    <3>1. k = [g EXCEPT !.full = f]
      BY <1>4, <1>8, <2>2 DEF Finished, FirstPhase, DoesBoth
    <3>2. f.phase = "detect" /\ f.count = l
      BY <1>2 DEF Cycles
    <3> HIDE DEF f, n
    <3>3. /\ k.full = f /\ k.lists = g.lists /\ k.sweep = g.sweep
          /\ k.detect = g.detect /\ k.detectIdx = g.detectIdx
      BY <1>2, <3>1 DEF Collectors
    <3>4. Thorough(k)
      BY <1>4, <3>3 DEF Thorough, Searching
    <3>5. Len(k.lists["old"]) <= k.full.count /\ Len(k.lists["old"]) = k.full.count
      BY <1>2, <3>2, <3>3
    <3> QED  BY <1>4, <2>1, <3>2, <3>3, <3>4, <3>5 DEF WholeCycle
  <2>3. CASE n = l
    <3>1. k = [g EXCEPT !.full = NoCycle]
      BY <1>4, <1>8, <2>3 DEF Finished
    <3> HIDE DEF l, n
    <3>2. k.full = NoCycle /\ k.heap = g.heap
      BY <1>2, <3>1 DEF Collectors
    <3>3. RestSure(g) /\ Clean(g)
      <4>1. RestSure(g) /\ SweptSo(c)
        BY <1>3, <1>5, <1>6, <2>3
      <4> QED  BY <1>1, <1>8, <4>1 DEF SweepsOn
    <3>4. Linked(g.heap) = Reachable(g.heap)
      BY <1>1, <1>3, <1>4, <3>3, AllReached
    <3> QED  BY <3>2, <3>4 DEF NoCycle
  <2> QED  BY <2>2, <2>3
<1> QED  BY <1>7, <1>8

LEMMA ScriptFull ==
  ASSUME GcInv, Script
  PROVE  quiet' = FALSE /\ (gc.full.phase # "no" => gc'.full = gc.full)
<1>1. gc \in Collectors
  BY HeapIs
<1>2. ASSUME NEW h, NEW C, ScriptStep(WithHeap(h), C)
      PROVE  quiet' = FALSE /\ gc'.full = gc.full
  <2>1. WithHeap(h).full = gc.full
    BY <1>1 DEF WithHeap, Collectors
  <2> QED  BY <1>2, <2>1 DEF ScriptStep
<1>3. ASSUME NEW o \in Objects, CreateObject(o)
      PROVE  quiet' = FALSE /\ (gc.full.phase # "no" => gc'.full = gc.full)
  <2> DEFINE d == [gc EXCEPT !.heap[o] = [NoObject EXCEPT !.rc = 1, !.held = 1]]
             e == [d EXCEPT !.heap = ObjAddRef(@, o)]
             k == [AutoCollect(e) EXCEPT !.lists["new"] = Append(@, [obj |-> o, sweeps |-> 0])]
  <2>1. gc' = k /\ quiet' = FALSE
    BY <1>3 DEF CreateObject, ScriptStep, Created, AddScriptObjectToGC
  <2>2. d.full = gc.full /\ DOMAIN d = Fields
    BY <1>1 DEF Collectors, Fields
  <2> HIDE DEF d
  <2>3. e.full = gc.full /\ DOMAIN e = Fields
    BY <2>2 DEF Fields
  <2> HIDE DEF e
  <2>4. gc.full.phase # "no" => AutoCollect(e) = e
    BY <2>3 DEF AutoCollect
  <2>5. gc.full.phase # "no" => k.full = gc.full
    BY <2>3, <2>4 DEF Fields
  <2> QED  BY <2>1, <2>5
<1>4. ASSUME NEW o, TakeHandle(o)  PROVE quiet' = FALSE /\ gc'.full = gc.full
  BY <1>2, <1>4 DEF TakeHandle
<1>5. ASSUME NEW o, KeepWeak(o) \/ DropHandle(o) \/ \E p \in Objects \cup {Null} : AssignHandle(o, p)
      PROVE quiet' = FALSE /\ gc'.full = gc.full
  BY <1>2, <1>5 DEF KeepWeak, DropHandle, AssignHandle
<1> QED  BY <1>3, <1>4, <1>5 DEF Script, LoadHandle, LoadWeak

(* A step that is no full cycle's starts none. *)
LEMMA CollectFull ==
  ASSUME GcInv, NEW doDetect \in BOOLEAN, NEW doDestroy \in BOOLEAN, GarbageCollect(doDetect, doDestroy)
  PROVE  gc'.full = gc.full
<1> DEFINE d == IF doDestroy THEN Destroyed(gc) ELSE gc
           g == IF doDetect THEN Detected(d) ELSE d
           e == DestroyGarbage(gc, "new")
           f == DestroyGarbage(e, "old")
<1>1. gc' = g
  BY DEF GarbageCollect, CollectorStep
<1>2. Fit(gc, {}) /\ "new" \in Lists /\ "old" \in Lists
  BY HeapIs DEF Lists
<1>3. Fit(e, {}) /\ e.full = gc.full
  BY <1>2, DestroysFit DEF Swept
<1> HIDE DEF e
<1>4. Fit(f, {}) /\ f.full = gc.full
  BY <1>2, <1>3, DestroysFit DEF Swept
<1>5. d = f \/ d = gc
  BY DEF Destroyed, e
<1> HIDE DEF d, f
<1>6. Fit(d, {}) /\ d.full = gc.full
  BY <1>2, <1>4, <1>5
<1>7. g = IdentifyGarbageWithCyclicRefs(d) \/ g = d
  BY DEF Detected
<1> HIDE DEF g
<1> QED  BY <1>1, <1>6, <1>7, IdentifyKeeps DEF Keeps

LEMMA StartCycle ==
  ASSUME GcInv, NEW doDetect \in BOOLEAN, NEW doDestroy \in BOOLEAN, StartFullCycle(doDetect, doDestroy)
  PROVE  CycleInv'
<1> SUFFICES ASSUME DoesBoth(gc'.full)  PROVE WholeCycle(gc')
  BY DEF CycleInv
<1> DEFINE moved == [gc EXCEPT !.lists = AllOld(@), !.detect = "clearCounters", !.detectIdx = 0,
                               !.cursor = Null, !.live = <<>>]
           g == IF doDetect THEN moved ELSE gc
           f == [NoCycle EXCEPT !.doDetect = doDetect, !.doDestroy = doDestroy]
           c == [f EXCEPT !.phase = FirstPhase(f), !.count = Len(g.lists["old"])]
           e == IF doDestroy THEN [g EXCEPT !.sweep = [list \in Lists |-> Unstarted]] ELSE g
           k == [e EXCEPT !.full = c]
<1>1. gc' = k
  BY DEF StartFullCycle, AllOld
<1>2. gc \in Collectors /\ Fit(gc, {}) /\ gc.lists \in [Lists -> Seq(Entries)] /\ Apart(gc.lists)
  BY HeapIs, MapType DEF Fit, Sound
<1>3. DOMAIN gc = Fields
  BY <1>2 DEF Collectors, Fields
<1>5. /\ c.doDetect = doDetect /\ c.doDestroy = doDestroy /\ c.count = Len(g.lists["old"])
      /\ doDetect => c.phase = "detect"
  <2> DEFINE n == Len(g.lists["old"])
  <2> HIDE DEF g, n
  <2>1. c = [f EXCEPT !.phase = FirstPhase(f), !.count = n]
    BY DEF n
  <2> HIDE DEF c
  <2>2. /\ c.doDetect = doDetect /\ c.doDestroy = doDestroy /\ c.count = n
        /\ doDetect => c.phase = "detect"
    BY <2>1 DEF NoCycle, FirstPhase
  <2> QED  BY <2>2 DEF n
<1>6. DOMAIN g = Fields /\ DOMAIN e = Fields
  <2>1. DOMAIN moved = Fields
    BY <1>3
  <2> HIDE DEF moved
  <2>2. DOMAIN g = Fields
    BY <1>3, <2>1
  <2> HIDE DEF g
  <2> QED  BY <2>2
<1>7. gc'.full = c
  <2> HIDE DEF c, e
  <2> QED  BY <1>1, <1>6 DEF Fields
<1>8. doDetect /\ doDestroy
  <2> HIDE DEF c
  <2> QED  BY <1>5, <1>7 DEF DoesBoth
<1> DEFINE sweep == [list \in Lists |-> Unstarted]
<1>9. g = moved /\ e = [moved EXCEPT !.sweep = sweep]
  BY <1>8
<1>10. /\ moved.lists = AllOld(gc.lists) /\ moved.detect = "clearCounters" /\ moved.detectIdx = 0
       /\ DOMAIN moved = Fields
  BY <1>3 DEF Fields
<1> HIDE DEF moved, c
<1>11. sweep["old"] = Unstarted /\ AllOld(gc.lists)["new"] = <<>>
  BY DEF Lists, AllOld
<1> HIDE DEF sweep
<1>12. /\ e.lists = AllOld(gc.lists) /\ e.detect = "clearCounters" /\ e.detectIdx = 0 /\ e.sweep = sweep
       /\ DOMAIN e = Fields
  BY <1>9, <1>10 DEF Fields
<1>13. g.lists = AllOld(gc.lists)
  BY <1>9, <1>10
<1> HIDE DEF e, g
<1>14. /\ k.lists = AllOld(gc.lists) /\ k.detect = "clearCounters" /\ k.detectIdx = 0 /\ k.sweep = sweep
       /\ k.full = c
  BY <1>12 DEF Fields
<1> HIDE DEF k
<1>15. AllOld(gc.lists)["old"] \in Seq(Entries)
  BY <1>2, AllOldApart DEF Lists
<1>16. Thorough(k)
  BY <1>14 DEF Thorough, Searching
<1>17. Len(k.lists["old"]) = k.full.count /\ Len(k.lists["old"]) <= k.full.count
  <2>1. Len(AllOld(gc.lists)["old"]) \in Nat
    BY <1>15
  <2> QED  BY <1>5, <1>13, <1>14, <2>1
<1> QED  BY <1>1, <1>5, <1>8, <1>11, <1>14, <1>16, <1>17 DEF WholeCycle

(* One step of a whole cycle, and its last. *)
LEMMA CycleStep ==
  ASSUME GcInv, CycleInv, FullCycleStep
  PROVE  /\ CycleInv'
         /\ quiet /\ DoesBoth(gc.full) /\ gc'.full.phase = "no" =>
              Linked(gc'.heap) = Reachable(gc'.heap)
<1> DEFINE g == CASE gc.full.phase = "detect" -> IdentifyGarbageWithCyclicRefs(gc)
                  [] gc.full.phase = "destroyNew" -> DestroyGarbage(gc, "new")
                  [] gc.full.phase = "destroyOld" -> DestroyGarbage(gc, "old")
           k == IF g.ret = 0 THEN Finished(g) ELSE g
<1>1. gc' = k /\ quiet' = quiet /\ gc.full.phase # "no"
  BY DEF FullCycleStep, CollectorStep, Idle
<1>2. Fit(gc, {}) /\ gc \in Collectors /\ gc.full \in Cycles
  BY HeapIs, FitType
<1>3. gc.full.phase \in {"detect", "destroyNew", "destroyOld"}
  BY <1>1, <1>2 DEF Cycles
<1>4. CASE ~quiet
  BY <1>1, <1>4 DEF CycleInv
<1>5. CASE quiet /\ DoesBoth(gc.full)
  <2>1. WholeCycle(gc)
    BY <1>5 DEF CycleInv
  <2>2. CASE gc.full.phase = "detect"
    <3>1. g = IdentifyGarbageWithCyclicRefs(gc)
      BY <2>2
    <3> HIDE DEF g
    <3>2. k.full.phase # "no" /\ WholeCycle(k)
      BY <1>2, <1>5, <2>1, <2>2, <3>1, SearchKept
    <3> HIDE DEF k
    <3> QED  BY <1>1, <3>2 DEF CycleInv
  <2>3. CASE gc.full.phase = "destroyOld"
    <3>1. g = DestroyGarbage(gc, "old")
      BY <2>3
    <3> HIDE DEF g
    <3>2. /\ k.full.phase # "no" => WholeCycle(k)
          /\ k.full.phase = "no" => Linked(k.heap) = Reachable(k.heap)
      BY <1>2, <1>5, <2>1, <2>3, <3>1, SweepKept
    <3> HIDE DEF k
    <3> QED  BY <1>1, <3>2 DEF CycleInv, DoesBoth
  <2> QED  BY <2>1, <2>2, <2>3 DEF WholeCycle
<1>6. CASE ~DoesBoth(gc.full)
  <2>1. g.full = gc.full /\ DOMAIN g = Fields
    <3>1. CASE gc.full.phase = "detect"
      <4>1. g = IdentifyGarbageWithCyclicRefs(gc)
        BY <3>1
      <4> HIDE DEF g
      <4> QED  BY <1>2, <4>1, IdentifyKeeps DEF Keeps
    <3>2. CASE gc.full.phase # "detect"
      <4>1. PICK list \in Lists : g = DestroyGarbage(gc, list)
        BY <1>3, <3>2 DEF Lists
      <4> HIDE DEF g
      <4>2. Fit(g, {}) /\ Swept(gc, g)
        BY <1>2, <4>1, DestroysFit
      <4>3. g \in Collectors
        BY <4>2, FitSound, SoundType
      <4> QED  BY <4>2, <4>3 DEF Swept, Collectors, Fields
    <3> QED  BY <3>1, <3>2
  <2> HIDE DEF g
  <2>2. ~(gc.full.doDetect /\ gc.full.doDestroy)
    BY <1>1, <1>6 DEF DoesBoth
  <2>3. ~DoesBoth(k.full)
    <3>1. CASE g.ret # 0
      BY <1>6, <2>1, <3>1
    <3>2. CASE g.ret = 0
      <4> DEFINE f == gc.full
                 n == Len(g.lists["old"])
      <4>1. \/ k = [g EXCEPT !.full = [f EXCEPT !.phase = "destroyOld"]]
            \/ k = [g EXCEPT !.full = [f EXCEPT !.count = n, !.phase = FirstPhase(f)]]
            \/ k = [g EXCEPT !.full = NoCycle]
        BY <2>1, <3>2 DEF Finished, Fields
      <4>2. f \in Cycles
        BY <1>2
      <4> HIDE DEF k, f, n
      <4>3. \/ k.full = [f EXCEPT !.phase = "destroyOld"]
            \/ k.full = [f EXCEPT !.count = n, !.phase = FirstPhase(f)]
            \/ k.full = NoCycle
        BY <2>1, <4>1 DEF Fields
      <4>4. (k.full.doDetect = f.doDetect /\ k.full.doDestroy = f.doDestroy) \/ k.full.phase = "no"
        <5>1. CASE k.full = [f EXCEPT !.phase = "destroyOld"]
          BY <4>2, <5>1 DEF Cycles
        <5>2. CASE k.full = [f EXCEPT !.count = n, !.phase = FirstPhase(f)]
          <6> DEFINE p == FirstPhase(f)
                     l == k.full
          <6>1. l = [f EXCEPT !.count = n, !.phase = p]
            BY <5>2
          <6> HIDE DEF p, l
          <6>2. l.doDetect = f.doDetect /\ l.doDestroy = f.doDestroy
            BY <4>2, <6>1 DEF Cycles
          <6> QED  BY <6>2 DEF l
        <5>3. CASE k.full = NoCycle
          BY <5>3 DEF NoCycle
        <5> QED  BY <4>3, <5>1, <5>2, <5>3
      <4> QED  BY <2>2, <4>4 DEF DoesBoth, f
    <3> QED  BY <3>1, <3>2
  <2> HIDE DEF k
  <2> QED  BY <1>1, <1>6, <2>3 DEF CycleInv
<1> QED  BY <1>4, <1>5, <1>6

LEMMA CycleInvKept ==
  GcInv /\ CycleInv /\ [GcNext]_gcVars => CycleInv'
<1> SUFFICES ASSUME GcInv, CycleInv, [GcNext]_gcVars  PROVE CycleInv'
  OBVIOUS
<1>1. CASE Script
  BY <1>1, ScriptFull DEF CycleInv
<1>2. ASSUME NEW m \in Modes, GarbageCollect(m[1], m[2])  PROVE CycleInv'
  <2>1. m[1] \in BOOLEAN /\ m[2] \in BOOLEAN
    BY GcAssumption
  <2>2. gc'.full = gc.full
    BY <1>2, <2>1, CollectFull
  <2>3. gc.full.phase = "no"
    BY <1>2 DEF GarbageCollect, Idle
  <2> QED  BY <2>2, <2>3 DEF CycleInv, DoesBoth
<1>3. ASSUME NEW m \in Modes, StartFullCycle(m[1], m[2])  PROVE CycleInv'
  <2>1. m[1] \in BOOLEAN /\ m[2] \in BOOLEAN
    BY GcAssumption
  <2> QED  BY <1>3, <2>1, StartCycle
<1>4. CASE FullCycleStep
  BY <1>4, CycleStep
<1>5. CASE UNCHANGED gcVars
  BY <1>5 DEF gcVars, CycleInv
<1> QED  BY <1>1, <1>2, <1>3, <1>4, <1>5 DEF GcNext

(* A full cycle that detects and destroys, and that the script leaves      *)
(* alone, ends only when every object there is can be reached from one of  *)
(* the script's handles (as_gc.cpp:181-233).                               *)
THEOREM GcCollectsAll == GcSpec => GcFullCycleCollects
<1>1. GcInit => CycleInv
  BY DEF GcInit, CycleInv
<1>2. GcInv /\ CycleInv /\ [GcNext]_gcVars =>
        [gc.full.phase # "no" /\ gc.full.doDetect /\ gc.full.doDestroy /\ gc'.full.phase = "no" /\ quiet
           => Linked(gc'.heap) = Reachable(gc'.heap)]_gcVars
  <2> SUFFICES ASSUME GcInv, CycleInv, GcNext, quiet, DoesBoth(gc.full), gc'.full.phase = "no"
               PROVE  Linked(gc'.heap) = Reachable(gc'.heap)
    BY DEF DoesBoth
  <2>1. gc.full.phase # "no"
    BY DEF DoesBoth
  <2>2. ~Script
    BY <2>1, ScriptFull
  <2>3. FullCycleStep
    BY <2>1, <2>2 DEF GcNext, GarbageCollect, StartFullCycle, Idle
  <2> QED  BY <2>3, CycleStep
<1> QED  BY <1>1, <1>2, CycleInvKept, GcInvariant, PTL DEF GcSpec, GcFullCycleCollects
=============================================================================
