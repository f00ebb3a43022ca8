------------------------- MODULE M68KLinearAllocator -------------------------
(***************************************************************************)
(* musashi_addon/src/m68k_allocator.c: one linear allocator over a block   *)
(* of memory that m68k_code_init gives it.  The loader takes its files,    *)
(* sections and names from it; nothing is freed but by going back.         *)
(* Addresses are numbers.                                                  *)
(***************************************************************************)
EXTENDS Integers

CONSTANTS
  Chunks,     \* addresses malloc may return for the allocator's memory
  maxSize,    \* of each: 5 MB
  Sizes,      \* sizes callers ask for
  Alignments  \* alignments callers ask for: powers of two

ASSUME AllocatorAssumption ==
  /\ Chunks \subseteq Nat \ {0}
  /\ maxSize \in Nat
  /\ Sizes \subseteq Nat
  /\ Alignments \subseteq {1, 2, 4, 8, 16}

VARIABLES
  start, current, \* g_allocator; 0 before it is created
  blocks,         \* the blocks handed out and not rewound over
  points          \* the rewind points that are still good

allocatorVars == <<start, current, blocks, points>>

AllocatorInit == start = 0 /\ current = 0 /\ blocks = {} /\ points = {}

(* M68KLinearAllocator_create: whatever the old memory held is out of its  *)
(* reach from now on.                                                      *)
create(data) ==
  /\ start' = data /\ current' = data
  /\ blocks' = {} /\ points' = {}

(* What lies past p is handed out again, and a point past p with it.       *)
GoBack(p) ==
  /\ current' = p
  /\ blocks' = {b \in blocks : b.at + b.size <= p}
  /\ points' = {q \in points : q <= p}
  /\ UNCHANGED start

reset == start # 0 /\ GoBack(start)

getRewindPoint ==
  /\ start # 0
  /\ points' = points \cup {current}
  /\ UNCHANGED <<start, current, blocks>>

rewind == \E p \in points : GoBack(p)

(* ptr & (alignment - 1) is the remainder: alignment is a power of two.    *)
(* Slip: a pointer already aligned is moved on by as much as any other.    *)
Adjust_notMasked(ptr, alignment) == alignment - (ptr % alignment) - 1
Adjust(ptr, alignment) == (alignment - (ptr % alignment)) % alignment

(***************************************************************************)
(* M68KLinearAllocator_allocAligned, for allocAlignedZero, allocString and *)
(* the macros too.  What is handed out is not compared with maxSize.       *)
(* Bound: once it has passed the end, nothing more is asked for.           *)
(***************************************************************************)
allocAligned(size, alignment) ==
  LET at == current + Adjust(current, alignment)
  IN /\ start # 0
     /\ current <= start + maxSize
     /\ current' = at + size
     /\ blocks' = blocks \cup {[at |-> at, size |-> size, alignment |-> alignment]}
     /\ UNCHANGED <<start, points>>

AllocatorNext ==
  \/ \E data \in Chunks : create(data)
  \/ reset \/ getRewindPoint \/ rewind
  \/ \E size \in Sizes, alignment \in Alignments : allocAligned(size, alignment)

AllocatorSpec == AllocatorInit /\ [][AllocatorNext]_allocatorVars

-----------------------------------------------------------------------------
Block == [at : Nat, size : Nat, alignment : Alignments]

AllocatorTypeOK ==
  /\ start \in Nat /\ current \in Nat
  /\ blocks \subseteq Block
  /\ points \subseteq Nat

Disjoint(b, c) == b.at + b.size <= c.at \/ c.at + c.size <= b.at

(* While what was handed out fits (the code leaves that to its callers),   *)
(* every block lies in the memory, aligned, and shares no byte with        *)
(* another, through any sequence of allocations and rewinds.               *)
BlocksSound ==
  current <= start + maxSize =>
    \A b \in blocks :
      /\ start <= b.at /\ b.at + b.size <= start + maxSize
      /\ b.at % b.alignment = 0
      /\ \A c \in blocks \ {b} : Disjoint(b, c)
=============================================================================
