------------------------ MODULE M68KElfLoaderProofs ------------------------
(***************************************************************************)
(* Proofs about the loader and the linker, for any object files that are   *)
(* well formed, any page size and regions.                                 *)
(*                                                                         *)
(* Placement.  Disjointness is inductive together with Placed: a section   *)
(* of the current memory lies between the start of its region and its      *)
(* region's cursor, and a memory new to m68k_code_init holds none.         *)
(*                                                                         *)
(* Linking.  Located says which sections are placed for which files, and   *)
(* so that every address the linker computes is one; the files and the     *)
(* sections only grow, which changes no address once resolved              *)
(* (ResolveGrows).  With sections apart, the relocations of one address    *)
(* are of one section and one of them is the last; Linked, that the word   *)
(* there is what this one writes, is then inductive.                       *)
(*                                                                         *)
(* The allocator the loader keeps its tables in: the blocks it hands out   *)
(* are sound, for every arena, size and alignment.                         *)
(***************************************************************************)
EXTENDS M68KElfLoader, M68KLinearAllocator, SequenceTheorems, WellFoundedInduction, TLAPS

Low(r) == CASE r = "code" -> memStart [] r = "data" -> dataStart [] r = "bss" -> bssStart

Numbers ==
  /\ code \in Nat /\ data \in Nat /\ bss \in Nat
  /\ memStart \in Arenas \cup {0} /\ memStart \in Nat
  /\ memStart # 0 =>
       /\ memStart \in used
       /\ memStart <= code /\ dataStart <= data /\ bssStart <= bss

Loading ==
  phase = "allocating" =>
    /\ memStart # 0
    /\ loading \in FileNames /\ Images[loading].kind = "elf"
    /\ next \in Nat \ {0}

Placed ==
  \A s \in placed :
    /\ s.base \in used
    /\ s.region \in {"code", "data", "bss"} /\ s.start \in Nat /\ s.total \in Nat
    /\ s.base <= s.start
    /\ s.base = memStart =>
         Low(s.region) <= s.start /\ s.start + s.total <= Cursor(s.region)

Apart ==
  \A s, t \in Current : s # t /\ s.region = t.region =>
    s.start + s.total <= t.start \/ t.start + t.total <= s.start

Inv == Numbers /\ Loading /\ Placed /\ Apart /\ used \subseteq Arenas

LEMMA TotalSizeNat ==
  ASSUME NEW size \in Nat
  PROVE  TotalSize(size) \in Nat /\ TotalSize(size) >= size
<1> DEFINE v == size + Page
<1>1. v \in Nat /\ v >= size
  BY SizeAssumption
<1>2. v % Page \in 0 .. Page - 1
  BY <1>1, SizeAssumption
<1>3. (Page - (v % Page)) % Page \in 0 .. Page - 1
  BY <1>2, SizeAssumption
<1>4. QED
  BY <1>1, <1>3, SizeAssumption DEF TotalSize, alignUp

LEMMA InitInv == Init => Inv
BY SizeAssumption DEF Init, Inv, Numbers, Loading, Placed, Apart, Current

LEMMA CodeInitInv ==
  ASSUME Inv, NEW memory \in Arenas, m68k_code_init(memory)
  PROVE  Inv'
<1>1. memory \in Nat \ {0}
  BY SizeAssumption
<1>2. Numbers' /\ used' \subseteq Arenas
  BY <1>1, SizeAssumption
  DEF Inv, Numbers, m68k_code_init, dataStart, bssStart
<1>3. \A s \in placed : s.base # memStart'
  BY DEF Inv, Placed, m68k_code_init
<1>4. Placed'
  BY <1>3 DEF Inv, Placed, m68k_code_init
<1>5. Apart'
  BY <1>3 DEF Apart, Current, m68k_code_init
<1>6. Loading'
  BY DEF Loading, m68k_code_init
<1>7. QED
  BY <1>2, <1>4, <1>5, <1>6 DEF Inv

(* Whatever leaves cursors, memory and sections alone keeps the invariant. *)
LEMMA FrameInv ==
  ASSUME Inv, Loading', UNCHANGED <<region, memStart, used, placed>>
  PROVE  Inv'
<1>1. Numbers'
  BY DEF Inv, Numbers, region, dataStart, bssStart
<1>2. Placed'
  BY DEF Inv, Placed, region, Low, Cursor, dataStart, bssStart
<1>3. Apart' /\ used' \subseteq Arenas
  BY DEF Inv, Apart, Current
<1>4. QED
  BY <1>1, <1>2, <1>3 DEF Inv

LEMMA LoadInv ==
  ASSUME Inv, NEW f \in FileNames, m68k_elf_load(f)
  PROVE  Inv'
<1>1. UNCHANGED <<region, memStart, used, placed>>
  BY DEF m68k_elf_load, LoadCrashes, AlreadyLoaded, LoadFails, StartLoad
<1>2. Loading'
  <2>1. CASE StartLoad(f)
    BY <2>1 DEF m68k_elf_load, StartLoad, Loading
  <2>2. CASE LoadCrashes(f) \/ AlreadyLoaded(f) \/ LoadFails(f)
    BY <2>2
    DEF m68k_elf_load, LoadCrashes, AlreadyLoaded, LoadFails, Register, Loading
  <2>3. QED
    BY <2>1, <2>2 DEF m68k_elf_load
<1>3. QED
  BY <1>1, <1>2, FrameInv

LEMMA AllocateInv ==
  ASSUME Inv, AllocateSection
  PROVE  Inv'
<1> DEFINE s == Images[loading].sections[next]
           r == Region(s)
           total == TotalSize(s.size)
           new == [file |-> Len(files) + 1, index |-> next, region |-> r, base |-> memStart,
                   start |-> Cursor(r), offset |-> getOffset(Cursor(r)),
                   size |-> s.size, total |-> total]
<1>1. /\ phase = "allocating" /\ next <= Len(Images[loading].sections)
      /\ placed' = placed \cup {new}
      /\ Advance(r, total)
      /\ next' = next + 1
      /\ UNCHANGED <<memStart, used, phase, loading>>
  BY DEF AllocateSection
<1>2. total \in Nat
  <2> DEFINE count == Len(Images[loading].sections)
  <2>1. loading \in FileNames /\ Images[loading].kind = "elf" /\ next \in Nat \ {0}
    BY <1>1 DEF Inv, Loading
  <2>2. count \in Nat /\ \A i \in 1 .. count : Images[loading].sections[i].size \in Nat
    BY <2>1, ImageAssumption DEF WellFormedFile, SectionFits
  <2>3. next <= count
    BY <1>1
  <2> HIDE DEF count
  <2>4. next \in 1 .. count
    BY <2>1, <2>2, <2>3
  <2>5. s.size \in Nat
    BY <2>2, <2>4
  <2>6. QED
    BY <2>5, TotalSizeNat
<1>3. r \in {"code", "data", "bss"}
  BY DEF Region
<1>4. new.region = r /\ new.base = memStart /\ new.start = Cursor(r) /\ new.total = total
  OBVIOUS
<1> HIDE DEF new, total, r, s
<1>5. /\ memStart \in Nat /\ memStart # 0 /\ memStart \in used
      /\ dataStart \in Nat /\ bssStart \in Nat
      /\ UNCHANGED <<dataStart, bssStart>>
  <2>1. memStart # 0
    BY <1>1 DEF Inv, Loading
  <2>2. memStart \in Nat /\ memStart \in used
    BY <2>1 DEF Inv, Numbers
  <2>3. dataStart \in Nat /\ bssStart \in Nat
    BY <2>2, SizeAssumption DEF dataStart, bssStart
  <2>4. UNCHANGED <<dataStart, bssStart>>
    BY <1>1 DEF dataStart, bssStart
  <2>5. QED
    BY <2>1, <2>2, <2>3, <2>4
<1>6. \A q \in {"code", "data", "bss"} :
        /\ Cursor(q) \in Nat /\ Low(q) \in Nat /\ Low(q) <= Cursor(q) /\ memStart <= Low(q)
        /\ Cursor(q)' = IF q = r THEN Cursor(q) + total ELSE Cursor(q)
        /\ Low(q)' = Low(q)
  <2>1. memStart <= dataStart /\ memStart <= bssStart
    BY <1>5, SizeAssumption DEF dataStart, bssStart
  <2> QED  BY <1>1, <1>2, <1>3, <1>5, <2>1 DEF Inv, Numbers, Cursor, Low, Advance
<1>7. Numbers'
  BY <1>1, <1>2, <1>5 DEF Inv, Numbers, Advance
<1>8. Loading'
  BY <1>1 DEF Inv, Loading
<1>9. Placed'
  <2>1. ASSUME NEW t \in placed'
        PROVE  /\ t.base \in used'
               /\ t.region \in {"code", "data", "bss"} /\ t.start \in Nat /\ t.total \in Nat
               /\ t.base <= t.start
               /\ t.base = memStart' =>
                    Low(t.region)' <= t.start /\ t.start + t.total <= Cursor(t.region)'
    <3>1. CASE t \in placed
      BY SMTT(30), <1>1, <1>2, <1>6, <3>1 DEF Inv, Placed
    <3>2. CASE t = new
      BY <1>1, <1>2, <1>3, <1>4, <1>5, <1>6, <3>2
    <3>3. QED
      BY <1>1, <3>1, <3>2
  <2>2. QED
    BY <2>1 DEF Placed
<1>10. Apart'
  <2>1. \A t \in Current : t.region = r => t.start + t.total <= new.start
    BY <1>4 DEF Inv, Placed, Current
  <2>2. Current' \subseteq Current \cup {new}
    BY <1>1 DEF Current
  <2>3. QED
    BY <1>4, <2>1, <2>2 DEF Inv, Apart
<1>11. QED
  BY <1>1, <1>7, <1>8, <1>9, <1>10 DEF Inv

LEMMA NextInv == Inv /\ [Next]_vars => Inv'
<1> SUFFICES ASSUME Inv, [Next]_vars PROVE Inv'
  OBVIOUS
<1>1. ASSUME NEW m \in Arenas, m68k_code_init(m) PROVE Inv'
  BY <1>1, CodeInitInv
<1>2. ASSUME NEW f \in FileNames, m68k_elf_load(f) PROVE Inv'
  BY <1>2, LoadInv
<1>3. CASE AllocateSection
  BY <1>3, AllocateInv
<1>4. CASE SkipSection
  <2>1. Loading'
    BY <1>4 DEF SkipSection, Inv, Loading
  <2>2. QED
    BY <1>4, <2>1, FrameInv DEF SkipSection
<1>5. CASE FinishLoad
  <2>1. Loading'
    BY <1>5 DEF FinishLoad, Register, Loading
  <2>2. QED
    BY <1>5, <2>1, FrameInv DEF FinishLoad
<1>6. CASE m68k_elf_link
  <2>1. Loading'
    BY <1>6 DEF m68k_elf_link, Loading
  <2>2. QED
    BY <1>6, <2>1, FrameInv DEF m68k_elf_link
<1>7. ASSUME NEW source \in Sources, NEW line \in Lines, LookupCrashes(source, line)
      PROVE  Inv'
  <2>1. Loading'
    BY <1>7 DEF LookupCrashes, Loading
  <2>2. QED
    BY <1>7, <2>1, FrameInv DEF LookupCrashes
<1>8. CASE UNCHANGED vars
  <2>1. Loading'
    BY <1>8 DEF vars, Inv, Loading
  <2>2. QED
    BY <1>8, <2>1, FrameInv DEF vars
<1>9. QED
  BY <1>1, <1>2, <1>3, <1>4, <1>5, <1>6, <1>7, <1>8 DEF Next

LEMMA InvDisjoint == Inv => SectionsDisjoint
<1> SUFFICES ASSUME Inv, InBudget, NEW s \in Current
             PROVE  /\ memStart <= s.start /\ s.start + s.total <= memEnd
                    /\ \A t \in Current \ {s} :
                         s.start + s.total <= t.start \/ t.start + t.total <= s.start
  BY DEF SectionsDisjoint
<1>1. /\ memStart \in Nat /\ dataStart = memStart + codeSize
      /\ bssStart = dataStart + dataSize /\ memEnd = bssStart + bssSize
      /\ codeSize \in Nat /\ dataSize \in Nat /\ bssSize \in Nat
  BY SizeAssumption DEF Inv, Numbers, dataStart, bssStart, memEnd
<1>2. \A t \in Current :
        /\ t.region \in {"code", "data", "bss"} /\ t.start \in Nat /\ t.total \in Nat
        /\ t.region = "code" => memStart <= t.start /\ t.start + t.total <= dataStart
        /\ t.region = "data" => dataStart <= t.start /\ t.start + t.total <= bssStart
        /\ t.region = "bss" => bssStart <= t.start /\ t.start + t.total <= memEnd
  <2>1. code \in Nat /\ data \in Nat /\ bss \in Nat
    BY DEF Inv, Numbers
  <2>2. TAKE t \in Current
  <2>3. /\ t.region \in {"code", "data", "bss"} /\ t.start \in Nat /\ t.total \in Nat
        /\ Low(t.region) <= t.start /\ t.start + t.total <= Cursor(t.region)
    BY DEF Inv, Placed, Current
  <2>4. QED
    BY <1>1, <2>1, <2>3 DEF Low, Cursor, InBudget
<1>3. memStart <= s.start /\ s.start + s.total <= memEnd
  BY <1>1, <1>2
<1>4. ASSUME NEW t \in Current \ {s}
      PROVE  s.start + s.total <= t.start \/ t.start + t.total <= s.start
  <2>1. CASE s.region = t.region
    BY <1>4, <2>1 DEF Inv, Apart
  <2>2. CASE s.region # t.region
    BY <1>1, <1>2, <2>2
  <2>3. QED
    BY <2>1, <2>2
<1>5. QED
  BY <1>3, <1>4

(* While no cursor has left its region, no two sections of any files loaded *)
(* into the current memory share an address, and none leaves the memory.   *)
THEOREM SectionsNeverOverlap == Spec => []SectionsDisjoint
  BY InvDisjoint, InitInv, NextInv, PTL DEF Spec
-----------------------------------------------------------------------------
(* Paths.  A load takes several steps; what it needs to know at its end is *)
(* that the path it will register is still free.                           *)
FilesTyped == files \in Seq([name : FileNames, valid : BOOLEAN])

LoadingFresh == phase = "allocating" => loading \in FileNames /\ Same(loading) = {}

PathInv == FilesTyped /\ LoadingFresh /\ UniquePaths

LEMMA RegisterPaths ==
  ASSUME PathInv, NEW f \in FileNames, NEW valid \in BOOLEAN,
         Same(f) = {}, Register(f, valid)
  PROVE  PathInv'
<1>1. CASE Len(files) < MaxFiles
  <2> DEFINE entry == [name |-> f, valid |-> valid]
  <2>1. files' = Append(files, entry) /\ phase' = "idle"
    BY <1>1 DEF Register
  <2>2. FilesTyped'
    BY <2>1 DEF PathInv, FilesTyped
  <2>3. /\ Len(files) \in Nat /\ Len(files') = Len(files) + 1
        /\ \A k \in 1 .. Len(files) : files'[k] = files[k]
        /\ files'[Len(files) + 1] = entry
    BY <2>1 DEF PathInv, FilesTyped
  <2>4. \A k \in 1 .. Len(files) : Path(k)' = Path(k) /\ Path(k) # f
    BY <2>3 DEF Path, Same, Indexes
  <2>5. ASSUME NEW k \in 1 .. Len(files) PROVE Path(k)' # f
    BY <2>4
  <2>6. UniquePaths'
    <3> SUFFICES ASSUME NEW j \in 1 .. Len(files) + 1, NEW k \in 1 .. Len(files) + 1,
                        Path(j)' # NoPath, Path(j)' = Path(k)'
                 PROVE  j = k
      BY <2>3 DEF UniquePaths, Indexes
    <3>1. ASSUME NEW n \in Nat, n = Len(files) + 1
          PROVE  Path(n)' = IF valid THEN f ELSE NoPath
      <4>1. entry.valid = valid /\ entry.name = f
        OBVIOUS
      <4> HIDE DEF entry
      <4>2. files'[n] = entry
        BY <2>3, <3>1
      <4>3. Path(n)' = IF entry.valid THEN entry.name ELSE NoPath
        BY <4>2 DEF Path
      <4>4. QED
        BY <4>1, <4>3, Zenon
    <3>2. CASE j \in 1 .. Len(files) /\ k \in 1 .. Len(files)
      BY <2>4, <3>2 DEF PathInv, UniquePaths, Indexes
    <3>3. CASE j = Len(files) + 1 /\ k \in 1 .. Len(files)
      <4>1. Path(j)' = f
        BY <2>3, <3>1, <3>3
      <4>2. QED
        BY <2>5, <3>3, <4>1
    <3>4. CASE j \in 1 .. Len(files) /\ k = Len(files) + 1
      <4>1. Path(k)' = f
        BY <2>3, <3>1, <3>4
      <4>2. QED
        BY <2>5, <3>4, <4>1
    <3>5. QED
      BY <2>3, <3>2, <3>3, <3>4
  <2>7. QED
    BY <2>1, <2>2, <2>6 DEF PathInv, LoadingFresh
<1>2. CASE ~(Len(files) < MaxFiles)
  BY <1>2 DEF Register, PathInv, FilesTyped, LoadingFresh, UniquePaths, Indexes, Path
<1>3. QED
  BY <1>1, <1>2

LEMMA InitPath == Init => PathInv
  BY DEF Init, PathInv, FilesTyped, LoadingFresh, UniquePaths, Indexes

LEMMA PathFrame ==
  ASSUME PathInv, UNCHANGED files, LoadingFresh'
  PROVE  PathInv'
BY DEF PathInv, FilesTyped, UniquePaths, Indexes, Path

LEMMA PathNext == PathInv /\ [Next]_vars => PathInv'
<1> SUFFICES ASSUME PathInv, [Next]_vars PROVE PathInv'
  OBVIOUS
<1>1. ASSUME NEW f \in FileNames, m68k_elf_load(f) PROVE PathInv'
  <2>1. CASE LoadFails(f)
    BY <2>1, RegisterPaths DEF LoadFails
  <2>2. CASE StartLoad(f)
    <3>1. LoadingFresh'
      BY <2>2 DEF StartLoad, LoadingFresh, Same, Indexes, Path
    <3>2. QED
      BY <2>2, <3>1, PathFrame DEF StartLoad
  <2>3. CASE LoadCrashes(f) \/ AlreadyLoaded(f)
    <3>1. LoadingFresh' /\ UNCHANGED files
      BY <1>1, <2>3 DEF m68k_elf_load, LoadCrashes, AlreadyLoaded, LoadingFresh
    <3>2. QED
      BY <3>1, PathFrame
  <2>4. QED
    BY <1>1, <2>1, <2>2, <2>3 DEF m68k_elf_load
<1>2. CASE AllocateSection \/ SkipSection
  <2>1. LoadingFresh' /\ UNCHANGED files
    BY <1>2
    DEF PathInv, AllocateSection, SkipSection, LoadingFresh, Same, Indexes, Path
  <2>2. QED
    BY <2>1, PathFrame
<1>3. CASE FinishLoad
  BY <1>3, RegisterPaths DEF FinishLoad, PathInv, LoadingFresh
<1>4. CASE m68k_elf_link
  BY <1>4, PathFrame DEF m68k_elf_link, LoadingFresh
<1>5. CASE \/ \E m \in Arenas : m68k_code_init(m)
           \/ \E source \in Sources, line \in Lines : LookupCrashes(source, line)
  <2>1. LoadingFresh' /\ UNCHANGED files
    BY <1>5 DEF m68k_code_init, LookupCrashes, LoadingFresh
  <2>2. QED
    BY <2>1, PathFrame
<1>6. CASE UNCHANGED vars
  <2>1. LoadingFresh'
    BY <1>6 DEF vars, PathInv, LoadingFresh, Same, Indexes, Path
  <2>2. QED
    BY <1>6, <2>1, PathFrame DEF vars
<1>7. QED
  BY <1>1, <1>2, <1>3, <1>4, <1>5, <1>6 DEF Next

(* m68k_elf_load never registers two files under one path.                 *)
THEOREM PathsUnique == Spec => []UniquePaths
<1>2. PathInv => UniquePaths
  BY DEF PathInv
<1>3. QED
  BY <1>2, InitPath, PathNext, PTL DEF Spec
-----------------------------------------------------------------------------
(* What the sections placed have to do with the files.                     *)
SectionsOf(f) == Images[f].sections

(* s is where the section of its index of file f was placed. *)
Of(s, f) ==
  /\ s.index \in 1 .. Len(SectionsOf(f))
  /\ Placeable(SectionsOf(f)[s.index])
  /\ s.region = Region(SectionsOf(f)[s.index])
  /\ s.size = SectionsOf(f)[s.index].size /\ s.total = TotalSize(s.size)
  /\ s.start \in Nat /\ s.base \in Nat /\ s.offset = (s.start - s.base) % Word

(* The sections of f, loaded as file k, that come before n are placed, and *)
(* no others of k.                                                         *)
Mapped(P, k, f, n) ==
  /\ f \in FileNames /\ Images[f].kind = "elf"
  /\ \A s \in P : s.file = k => Of(s, f) /\ s.index < n
  /\ \A i \in 1 .. Len(SectionsOf(f)) : i < n /\ Placeable(SectionsOf(f)[i]) =>
       \E s \in P : s.file = k /\ s.index = i

Filed(P, k, file) ==
  IF file.valid THEN Mapped(P, k, file.name, Len(SectionsOf(file.name)) + 1)
  ELSE \A s \in P : s.file # k

AllFiled == \A k \in Indexes : Filed(placed, k, files[k])
LoadingMapped == phase = "allocating" => Mapped(placed, Len(files) + 1, loading, next)
Owned ==
  /\ \A s \in placed : s.file \in 1 .. Len(files) + 1
  /\ phase \notin {"corrupted", "allocating"} => \A s \in placed : s.file \in Indexes
Distinct == \A s, t \in placed : s.file = t.file /\ s.index = t.index => s = t

Located == AllFiled /\ LoadingMapped /\ Owned /\ Distinct

LEMMA LocatedFrame ==
  ASSUME Located, UNCHANGED <<placed, files>>,
         phase' = "allocating" => phase = "allocating" /\ UNCHANGED <<loading, next>>,
         phase \in {"corrupted", "allocating"} => phase' \in {"corrupted", "allocating"}
  PROVE  Located'
<1>1. AllFiled' /\ Distinct'
  BY DEF Located, AllFiled, Indexes, Distinct
<1>2. LoadingMapped'
  BY DEF Located, LoadingMapped
<1>3. Owned'
  BY DEF Located, Owned, Indexes
<1> QED  BY <1>1, <1>2, <1>3 DEF Located

LEMMA FilesLen ==
  ASSUME FilesTyped
  PROVE  Len(files) \in Nat /\ \A k \in Indexes : files[k] \in [name : FileNames, valid : BOOLEAN]
<1>1. Len(files) \in Nat
  BY LenProperties DEF FilesTyped
<1> QED  BY <1>1, ElementOfSeq DEF FilesTyped, Indexes

LEMMA StartLocated ==
  ASSUME Located, FilesTyped, phase = "idle", NEW f \in FileNames, StartLoad(f)
  PROVE  Located'
<1>1. UNCHANGED <<placed, files>> /\ phase' = "allocating" /\ loading' = f /\ next' = 1
      /\ Images[f].kind = "elf"
  BY DEF StartLoad
<1>2. AllFiled' /\ Distinct'
  BY <1>1 DEF Located, AllFiled, Indexes, Distinct
<1>3. \A s \in placed : s.file # Len(files) + 1
  BY FilesLen DEF Located, Owned, Indexes
<1>4. LoadingMapped'
  BY <1>1, <1>3 DEF LoadingMapped, Mapped
<1>5. Owned'
  BY <1>1 DEF Located, Owned, Indexes
<1> QED  BY <1>2, <1>4, <1>5 DEF Located

(* A section of one file says nothing of the others. *)
LEMMA MappedOthers ==
  ASSUME NEW P, NEW s, NEW k, s.file # k, NEW f, NEW n, Mapped(P, k, f, n)
  PROVE  Mapped(P \cup {s}, k, f, n)
  BY DEF Mapped

LEMMA AllocateLocated ==
  ASSUME Located, FilesTyped, Inv, AllocateSection
  PROVE  Located'
<1> PICK f \in FileNames, n \in Nat \ {0} : f = loading /\ n = next
  BY DEF Inv, Loading, AllocateSection
<1> PICK x, total : x = SectionsOf(f)[n] /\ total = TotalSize(x.size)
  OBVIOUS
<1> PICK new : new = [file |-> Len(files) + 1, index |-> n, region |-> Region(x), base |-> memStart,
                      start |-> Cursor(Region(x)), offset |-> getOffset(Cursor(Region(x))),
                      size |-> x.size, total |-> total]
  OBVIOUS
<1>1. /\ phase = "allocating" /\ n <= Len(SectionsOf(f)) /\ Placeable(x)
      /\ placed' = placed \cup {new} /\ next' = n + 1
      /\ UNCHANGED <<files, phase, loading>>
  BY DEF AllocateSection, SectionsOf
<1>2. Images[f].kind = "elf" /\ Len(SectionsOf(f)) \in Nat
  BY <1>1, ImageAssumption DEF Inv, Loading, WellFormedFile, SectionsOf
<1>3. Cursor(Region(x)) \in Nat /\ memStart \in Nat
  BY DEF Inv, Numbers, Cursor, Region
<1>4. /\ new.file = Len(files) + 1 /\ new.index = n /\ new.region = Region(x)
      /\ new.size = x.size /\ new.total = total /\ new.start \in Nat /\ new.base \in Nat
      /\ new.offset = (new.start - new.base) % Word
  BY <1>3 DEF getOffset
<1> HIDE DEF getOffset
<1>5. Of(new, f)
  BY <1>1, <1>2, <1>4 DEF Of
<1>6. Mapped(placed, Len(files) + 1, f, n)
  BY <1>1 DEF Located, LoadingMapped
<1>7. Mapped(placed', Len(files) + 1, f, n + 1)
  <2>1. \A s \in placed' : s.file = Len(files) + 1 => Of(s, f) /\ s.index < n + 1
    <3> TAKE s \in placed'
    <3>1. CASE s = new
      BY <1>4, <1>5, <3>1
    <3>2. CASE s \in placed
      BY <1>2, <1>6, <3>2 DEF Mapped, Of
    <3> QED  BY <1>1, <3>1, <3>2
  <2>2. \A i \in 1 .. Len(SectionsOf(f)) : i < n + 1 /\ Placeable(SectionsOf(f)[i]) =>
          \E s \in placed' : s.file = Len(files) + 1 /\ s.index = i
    BY <1>1, <1>2, <1>4, <1>6 DEF Mapped
  <2> QED  BY <1>2, <2>1, <2>2 DEF Mapped
<1>8. AllFiled'
  <2> SUFFICES ASSUME NEW k \in Indexes PROVE Filed(placed', k, files[k])
    BY <1>1 DEF AllFiled, Indexes
  <2>1. new.file # k
    BY <1>4, FilesLen DEF Indexes
  <2>2. Filed(placed, k, files[k])
    BY DEF Located, AllFiled
  <2> QED  BY <1>1, <2>1, <2>2, MappedOthers DEF Filed
<1>9. LoadingMapped'
  BY <1>1, <1>7 DEF LoadingMapped
<1>10. Owned'
  BY <1>1, <1>4, FilesLen DEF Located, Owned, Indexes
<1>11. Distinct'
  <2>1. \A s \in placed : ~(s.file = new.file /\ s.index = new.index)
    BY <1>2, <1>4, <1>6 DEF Mapped, Of
  <2> QED  BY <1>1, <2>1 DEF Located, Distinct
<1> QED  BY <1>8, <1>9, <1>10, <1>11 DEF Located

LEMMA SkipLocated ==
  ASSUME Located, FilesTyped, Inv, SkipSection
  PROVE  Located'
<1> PICK f \in FileNames, n \in Nat \ {0} : f = loading /\ n = next
  BY DEF Inv, Loading, SkipSection
<1>1. /\ phase = "allocating" /\ n <= Len(SectionsOf(f)) /\ ~Placeable(SectionsOf(f)[n])
      /\ next' = n + 1 /\ UNCHANGED <<files, phase, loading, placed>>
  BY DEF SkipSection, SectionsOf
<1>2. Mapped(placed, Len(files) + 1, f, n)
  BY <1>1 DEF Located, LoadingMapped
<1>3. Len(SectionsOf(f)) \in Nat
  BY <1>2, ImageAssumption DEF Mapped, WellFormedFile, SectionsOf
<1>4. Mapped(placed, Len(files) + 1, f, n + 1)
  BY <1>1, <1>2, <1>3 DEF Mapped, Of
<1>5. LoadingMapped'
  BY <1>1, <1>4 DEF LoadingMapped
<1>6. AllFiled' /\ Owned' /\ Distinct'
  BY <1>1 DEF Located, AllFiled, Owned, Distinct, Indexes
<1> QED  BY <1>5, <1>6 DEF Located

LEMMA RegisterLocated ==
  ASSUME Located, FilesTyped, NEW f \in FileNames, NEW valid \in BOOLEAN, Register(f, valid),
         UNCHANGED placed, Filed(placed, Len(files) + 1, [name |-> f, valid |-> valid])
  PROVE  Located'
<1>0. Len(files) \in Nat
  BY FilesLen
<1>1. CASE phase' = "corrupted" /\ UNCHANGED files
  BY <1>1, LocatedFrame
<1>2. CASE files' = Append(files, [name |-> f, valid |-> valid]) /\ phase' = "idle"
  <2> PICK file : file = [name |-> f, valid |-> valid]
    OBVIOUS
  <2>1. /\ Len(files') = Len(files) + 1 /\ files'[Len(files) + 1] = file
        /\ \A k \in 1 .. Len(files) : files'[k] = files[k]
    BY <1>2, AppendProperties DEF FilesTyped
  <2>2. AllFiled'
    <3> SUFFICES ASSUME NEW k \in 1 .. Len(files) + 1 PROVE Filed(placed, k, files'[k])
      BY <2>1 DEF AllFiled, Indexes
    <3>1. CASE k \in 1 .. Len(files)
      BY <2>1, <3>1 DEF Located, AllFiled, Indexes
    <3>2. CASE k = Len(files) + 1
      BY <2>1, <3>2
    <3> QED  BY <1>0, <3>1, <3>2
  <2>3. LoadingMapped' /\ Distinct'
    BY <1>2 DEF LoadingMapped, Located, Distinct
  <2>4. Owned'
    BY <1>0, <2>1 DEF Located, Owned, Indexes
  <2> QED  BY <2>2, <2>3, <2>4 DEF Located
<1> QED  BY <1>1, <1>2 DEF Register

LEMMA LocatedNext ==
  ASSUME Located, FilesTyped, Inv, [Next]_vars
  PROVE  Located'
<1>1. ASSUME NEW f \in FileNames, m68k_elf_load(f) PROVE Located'
  <2>1. CASE LoadCrashes(f) \/ AlreadyLoaded(f)
    BY <1>1, <2>1, LocatedFrame DEF m68k_elf_load, LoadCrashes, AlreadyLoaded
  <2>2. CASE LoadFails(f)
    <3>1. Filed(placed, Len(files) + 1, [name |-> f, valid |-> FALSE])
      <4>1. \A s \in placed : s.file # Len(files) + 1
        BY <1>1, FilesLen DEF m68k_elf_load, Located, Owned, Indexes
      <4> QED  BY <4>1 DEF Filed
    <3> QED  BY <2>2, <3>1, RegisterLocated DEF LoadFails
  <2>3. CASE StartLoad(f)
    BY <1>1, <2>3, StartLocated DEF m68k_elf_load
  <2> QED  BY <1>1, <2>1, <2>2, <2>3 DEF m68k_elf_load
<1>2. CASE FinishLoad
  <2> PICK f \in FileNames : f = loading
    BY <1>2 DEF Inv, Loading, FinishLoad
  <2>1. phase = "allocating" /\ next > Len(SectionsOf(f)) /\ Register(f, TRUE) /\ UNCHANGED placed
    BY <1>2 DEF FinishLoad, SectionsOf
  <2>2. Mapped(placed, Len(files) + 1, f, next)
    BY <2>1 DEF Located, LoadingMapped
  <2>3. Len(SectionsOf(f)) \in Nat /\ next \in Nat
    BY <2>1, <2>2, ImageAssumption DEF Mapped, WellFormedFile, SectionsOf, Inv, Loading
  <2>4. Mapped(placed, Len(files) + 1, f, Len(SectionsOf(f)) + 1)
    BY <2>1, <2>2, <2>3 DEF Mapped, Of
  <2>5. Filed(placed, Len(files) + 1, [name |-> f, valid |-> TRUE])
    BY <2>4 DEF Filed
  <2> QED  BY <2>1, <2>5, RegisterLocated
<1>3. ASSUME NEW m \in Arenas, m68k_code_init(m) PROVE Located'
  BY <1>3, LocatedFrame DEF m68k_code_init
<1>4. CASE m68k_elf_link
  BY <1>4, LocatedFrame DEF m68k_elf_link
<1>5. ASSUME NEW source \in Sources, NEW line \in Lines, LookupCrashes(source, line) PROVE Located'
  BY <1>5, LocatedFrame DEF LookupCrashes
<1>6. CASE UNCHANGED vars
  BY <1>6, LocatedFrame DEF vars
<1> QED  BY <1>1, <1>2, <1>3, <1>4, <1>5, <1>6, AllocateLocated, SkipLocated DEF Next

LEMMA InitLocated == Init => Located
  BY DEF Init, Located, AllFiled, LoadingMapped, Owned, Distinct, Indexes

(* One place for every section a symbol can be in. *)
LEMMA PlaceIs ==
  ASSUME Located, NEW k \in Indexes, files[k].valid, NEW i \in 1 .. Len(Img(k).sections),
         Placeable(Img(k).sections[i])
  PROVE  /\ Place(k, i) \in placed /\ Place(k, i).file = k /\ Place(k, i).index = i
         /\ Place(k, i).start \in Nat
<1>1. Mapped(placed, k, files[k].name, Len(Img(k).sections) + 1)
  BY DEF Located, AllFiled, Filed, Img, SectionsOf
<1>2. Len(Img(k).sections) \in Nat
  BY <1>1, ImageAssumption DEF Mapped, WellFormedFile, Img
<1>3. \E s \in placed : s.file = k /\ s.index = i
  BY <1>1, <1>2 DEF Mapped, Img, SectionsOf
<1>4. Place(k, i) \in placed /\ Place(k, i).file = k /\ Place(k, i).index = i
  BY <1>3 DEF Place
<1> QED  BY <1>1, <1>4 DEF Mapped, Of
-----------------------------------------------------------------------------
(* A relocation, its section, the file of that and the symbol it is for.   *)
Fitting(r) ==
  /\ r.section \in placed /\ r.section.file \in Indexes /\ files[r.section.file].valid
  /\ Of(r.section, files[r.section.file].name)
  /\ r.section.start \in Nat /\ r.section.size \in Nat /\ r.section.total \in Nat
  /\ r.section.size <= r.section.total
  /\ r.n \in 1 .. Len(Section(r.section).rela) /\ Len(Section(r.section).rela) \in Nat
  /\ r.rela = Section(r.section).rela[r.n]
  /\ r.rela.addend \in Int
  /\ r.rela.offset \in 0 .. r.section.size - 1
  /\ r.rela.symbol \in 1 .. Len(Img(r.section.file).symbols)
  /\ SymbolFits(Img(r.section.file), Symbol(r))

LEMMA PlacedFits ==
  ASSUME Located, NEW s \in placed, s.file \in Indexes
  PROVE  /\ files[s.file].valid /\ files[s.file].name \in FileNames
         /\ Img(s.file).kind = "elf" /\ WellFormedFile(Img(s.file))
         /\ Of(s, files[s.file].name) /\ SectionFits(Img(s.file), Section(s))
         /\ s.size \in Nat /\ s.total \in Nat /\ s.size <= s.total /\ s.index \in Nat
<1>1. files[s.file].valid /\ Mapped(placed, s.file, files[s.file].name, Len(SectionsOf(files[s.file].name)) + 1)
  BY DEF Located, AllFiled, Filed
<1>2. files[s.file].name \in FileNames /\ Img(s.file).kind = "elf" /\ Of(s, files[s.file].name)
  BY <1>1 DEF Mapped, Img
<1>3. WellFormedFile(Img(s.file))
  BY <1>2, ImageAssumption DEF Img
<1>4. s.index \in 1 .. Len(Img(s.file).sections) /\ s.size = Section(s).size /\ s.total = TotalSize(s.size)
  BY <1>2 DEF Of, Section, SectionsOf, Img
<1>5. SectionFits(Img(s.file), Section(s))
  BY <1>3, <1>4 DEF WellFormedFile, Section
<1>6. s.size \in Nat
  BY <1>4, <1>5 DEF SectionFits
<1>7. s.index \in Nat
  BY <1>3, <1>4 DEF WellFormedFile
<1> QED  BY <1>1, <1>2, <1>3, <1>4, <1>5, <1>6, <1>7, TotalSizeNat

LEMMA RelocationIs ==
  ASSUME Located, NEW r \in Relocations
  PROVE  Fitting(r)
<1> PICK s, n : s \in placed /\ n \in 1 .. Len(Section(s).rela) /\
      s.file \in Indexes /\ r = [section |-> s, rela |-> Section(s).rela[n], n |-> n]
  BY DEF Relocations
<1>1. r.section = s /\ r.rela = Section(s).rela[n] /\ r.n = n
  OBVIOUS
<1>2. /\ files[s.file].valid /\ files[s.file].name \in FileNames
      /\ Img(s.file).kind = "elf" /\ WellFormedFile(Img(s.file))
      /\ Of(s, files[s.file].name) /\ SectionFits(Img(s.file), Section(s))
      /\ s.size \in Nat /\ s.total \in Nat /\ s.size <= s.total
  BY PlacedFits
<1>3. RelocationFits(Img(s.file), Section(s), Section(s).rela[n]) /\ Len(Section(s).rela) \in Nat
  BY <1>2 DEF SectionFits
<1>4. s.start \in Nat /\ s.size = Section(s).size
  BY <1>2 DEF Of, Section, SectionsOf, Img
<1>5. /\ r.rela.addend \in Int /\ r.rela.offset \in 0 .. s.size - 1
      /\ r.rela.symbol \in 1 .. Len(Img(s.file).symbols)
  BY <1>1, <1>3, <1>4 DEF RelocationFits
<1>6. s.index \in 1 .. Len(Img(s.file).sections) /\ Section(s) = Img(s.file).sections[s.index]
  BY <1>2 DEF Of, Section, SectionsOf, Img
<1>7. Relocated(Img(s.file), r.rela.symbol)
  BY <1>1, <1>6 DEF Relocated
<1>8. SymbolFits(Img(s.file), Symbol(r))
  BY <1>1, <1>2, <1>5, <1>7 DEF WellFormedFile, Symbol
<1> QED  BY <1>1, <1>2, <1>3, <1>4, <1>5, <1>8 DEF Fitting

LEMMA WhereIs ==
  ASSUME NEW r, Fitting(r)
  PROVE  /\ Where(r) \in Nat /\ r.section \in placed
         /\ r.section.start <= Where(r) /\ Where(r) <= r.section.start + r.section.total - 1
<1> PICK s, x : s = r.section /\ x = r.rela.offset
  OBVIOUS
<1>1. /\ s \in placed /\ s.start \in Nat /\ s.size \in Nat /\ s.total \in Nat /\ s.size <= s.total
      /\ x \in 0 .. s.size - 1 /\ Where(r) = s.start + x
  BY DEF Fitting, Where
<1> QED  BY <1>1

(* A word was written inside a section, and there it is. *)
Home == \A a \in DOMAIN mem : \E s \in placed : a \in s.start .. s.start + s.total - 1

LEMMA HomeNext ==
  ASSUME Home, Located, Inv, [Next]_vars
  PROVE  Home'
<1>1. CASE AllocateSection
  <2>1. placed \subseteq placed' /\ DOMAIN mem' \subseteq DOMAIN mem
    BY <1>1 DEF AllocateSection
  <2> QED  BY <2>1 DEF Home
<1>2. CASE m68k_elf_link
  <2>1. UNCHANGED placed /\ DOMAIN mem' \subseteq DOMAIN mem \cup {Where(r) : r \in Relocations}
    BY <1>2 DEF m68k_elf_link
  <2>2. ASSUME NEW r \in Relocations
        PROVE  Where(r) \in r.section.start .. r.section.start + r.section.total - 1 /\ r.section \in placed
    BY RelocationIs, WhereIs DEF Fitting
  <2> QED  BY <2>1, <2>2 DEF Home
<1>3. CASE UNCHANGED <<placed, mem>>
  BY <1>3 DEF Home
<1> QED
  BY <1>1, <1>2, <1>3
  DEF Next, m68k_code_init, m68k_elf_load, LoadCrashes, AlreadyLoaded, LoadFails, StartLoad, SkipSection,
      FinishLoad, LookupCrashes, vars
-----------------------------------------------------------------------------
(* The naturals, and a set of pairs, have a first. *)
NatLess == OpToRel(<, Nat)

LEMMA LeastNat ==
  ASSUME NEW S \in SUBSET Nat, S # {}
  PROVE  \E n \in S : \A m \in S : n <= m
<1>1. NatLess = {p \in Nat \X Nat : p[1] < p[2]}
  BY DEF NatLess, OpToRel
<1>2. IsWellFoundedOn(NatLess, Nat)
  BY NatLessThanWellFounded DEF NatLess
<1>3. PICK n \in S : \A m \in S : ~(<<m, n>> \in NatLess)
  BY <1>2, WFMin
<1>4. \A m \in S : m \in Nat /\ n \in Nat /\ ~(m < n)
  BY <1>1, <1>3, Zenon
<1> QED  BY <1>4

LEMMA GreatestNat ==
  ASSUME NEW L \in Nat, NEW S \in SUBSET (0 .. L), S # {}
  PROVE  \E n \in S : \A m \in S : m <= n
<1>1. PICK d \in {L - m : m \in S} : \A e \in {L - m : m \in S} : d <= e
  <2>1. \A m \in S : L - m \in Nat
    OBVIOUS
  <2>2. {L - m : m \in S} \in SUBSET Nat /\ {L - m : m \in S} # {}
    BY <2>1
  <2> QED  BY <2>2, LeastNat
<1>2. PICK n \in S : d = L - n
  OBVIOUS
<1>3. \A m \in S : L - n <= L - m
  BY <1>1, <1>2
<1> QED  BY <1>3

Earlier(p, q) == p[1] < q[1] \/ (p[1] = q[1] /\ p[2] <= q[2])

LEMMA FirstIs ==
  ASSUME NEW S \in SUBSET (Nat \X Nat), S # {}
  PROVE  First(S) \in S /\ \A q \in S : Earlier(First(S), q)
<1>1. PICK i \in {p[1] : p \in S} : \A j \in {p[1] : p \in S} : i <= j
  <2>1. {p[1] : p \in S} \in SUBSET Nat /\ {p[1] : p \in S} # {}
    OBVIOUS
  <2> QED  BY <2>1, LeastNat
<1>2. PICK n \in {p[2] : p \in {q \in S : q[1] = i}} :
        \A m \in {p[2] : p \in {q \in S : q[1] = i}} : n <= m
  <2>1. {p[2] : p \in {q \in S : q[1] = i}} \in SUBSET Nat /\ {p[2] : p \in {q \in S : q[1] = i}} # {}
    BY <1>1
  <2> QED  BY <2>1, LeastNat
<1>3. PICK p \in S : p[1] = i /\ p[2] = n
  BY <1>2
<1>4. \A q \in S : Earlier(p, q)
  <2> TAKE q \in S
  <2>1. i <= q[1] /\ (q[1] = i => n <= q[2])
    BY <1>1, <1>2
  <2> QED  BY <1>3, <2>1 DEF Earlier
<1> QED  BY <1>4 DEF First, Earlier

LEMMA EarlierOnce ==
  ASSUME NEW p \in Nat \X Nat, NEW q \in Nat \X Nat, Earlier(p, q), Earlier(q, p)
  PROVE  p = q
  BY DEF Earlier

(* What comes after a set of pairs does not change its first. *)
LEMMA FirstStays ==
  ASSUME NEW S \in SUBSET (Nat \X Nat), NEW T \in SUBSET (Nat \X Nat), S # {}, S \subseteq T,
         \A q \in T : q \in S \/ \A p \in S : p[1] < q[1]
  PROVE  First(T) = First(S)
<1>1. First(S) \in S /\ \A q \in S : Earlier(First(S), q)
  BY FirstIs
<1>2. First(T) \in T /\ \A q \in T : Earlier(First(T), q)
  BY FirstIs
<1>3. \A q \in T : Earlier(First(S), q)
  BY <1>1 DEF Earlier
<1> QED  BY <1>1, <1>2, <1>3, EarlierOnce

(* The files and the sections are more than they were. *)
Grown ==
  /\ Len(files) \in Nat /\ Len(files') \in Nat /\ Len(files) <= Len(files')
  /\ \A k \in Indexes : files'[k] = files[k]
  /\ placed \subseteq placed'

ExportFits(p) ==
  /\ p \in Nat \X Nat /\ p[1] \in Indexes /\ files[p[1]].valid
  /\ p[2] \in 1 .. Len(Img(p[1]).symbols) /\ Exported(Export(p))
  /\ SymbolFits(Img(p[1]), Export(p))

LEMMA ExportIs ==
  ASSUME Located, FilesTyped, NEW p \in AllExports
  PROVE  ExportFits(p)
<1> PICK k \in Indexes : p \in {k} \X Exports(k)
  BY DEF AllExports
<1>1. k \in Nat
  BY FilesLen DEF Indexes
<1>2. files[k].valid /\ p[1] = k /\ p[2] \in 1 .. Len(Img(k).symbols) /\ Exported(Img(k).symbols[p[2]])
  BY DEF Exports
<1>3. Mapped(placed, k, files[k].name, Len(SectionsOf(files[k].name)) + 1)
  BY <1>2 DEF Located, AllFiled, Filed
<1>4. WellFormedFile(Img(k))
  BY <1>3, ImageAssumption DEF Mapped, Img
<1>5. p \in Nat \X Nat
  BY <1>1, <1>2, <1>4 DEF WellFormedFile
<1>6. SymbolFits(Img(k), Img(k).symbols[p[2]])
  BY <1>2, <1>4 DEF WellFormedFile, Exported
<1> QED  BY <1>2, <1>5, <1>6 DEF ExportFits, Export

LEMMA ExportWhen ==
  ASSUME NEW p, ExportFits(p)
  PROVE  p \in AllExports
<1>1. p = <<p[1], p[2]>> /\ p[2] \in Exports(p[1]) /\ p[1] \in Indexes
  BY DEF ExportFits, Exports, Export
<1> QED  BY <1>1 DEF AllExports

LEMMA TargetGrows ==
  ASSUME Located, Located', Grown, NEW k \in Indexes, files[k].valid, NEW symbol,
         SymbolFits(Img(k), symbol), symbol.shndx > 0
  PROVE  Target(k, symbol) \in Nat /\ Target(k, symbol)' = Target(k, symbol)
<1>0. Len(Img(k).sections) \in Nat
  BY ImageAssumption DEF Located, AllFiled, Filed, Mapped, Img, WellFormedFile
<1>1. /\ symbol.shndx \in 1 .. Len(Img(k).sections) /\ Placeable(Img(k).sections[symbol.shndx])
      /\ symbol.value \in Nat
  BY <1>0 DEF SymbolFits
<1> PICK i \in 1 .. Len(Img(k).sections) : i = symbol.shndx
  BY <1>1
<1> PICK s \in placed : s = Place(k, i) /\ s.file = k /\ s.index = i /\ s.start \in Nat
  BY <1>1, PlaceIs
<1>2. s \in placed'
  BY DEF Grown
<1>3. Place(k, i)' \in placed' /\ Place(k, i)'.file = k /\ Place(k, i)'.index = i
  BY <1>2 DEF Place
<1>4. Place(k, i)' = s
  BY <1>2, <1>3 DEF Located, Distinct
<1> QED  BY <1>1, <1>4 DEF Target

LEMMA ExportGrows ==
  ASSUME Located, Located', Grown, NEW p, ExportFits(p)
  PROVE  /\ ExportFits(p)' /\ Export(p)' = Export(p)
         /\ ExportTarget(p) \in Nat /\ ExportTarget(p)' = ExportTarget(p)
<1>1. p[1] \in Indexes' /\ files'[p[1]] = files[p[1]]
  BY DEF Grown, ExportFits, Indexes
<1>2. Export(p)' = Export(p) /\ Img(p[1])' = Img(p[1])
  BY <1>1 DEF Export, Img
<1>3. ExportFits(p)'
  BY <1>1, <1>2 DEF ExportFits
<1>4. Export(p).shndx > 0 /\ files[p[1]].valid /\ p[1] \in Indexes /\ SymbolFits(Img(p[1]), Export(p))
  BY DEF ExportFits, Exported
<1>5. Target(p[1], Export(p)) \in Nat /\ \A x : x = Export(p) => Target(p[1], x)' = Target(p[1], Export(p))
  BY <1>4, TargetGrows
<1> QED  BY <1>2, <1>3, <1>5 DEF ExportTarget, Target
-----------------------------------------------------------------------------
(* The first definition that matches stays the first. *)
LEMMA MatchingGrows ==
  ASSUME Located, Located', FilesTyped, FilesTyped', Grown, NEW k, NEW symbol,
         Matching(k, symbol) # {}
  PROVE  /\ First(Matching(k, symbol)) \in Matching(k, symbol)
         /\ First(Matching(k, symbol)) = First(Matching(k, symbol)')
         /\ Matching(k, symbol)' # {}
<1>1. \A p \in AllExports : ExportFits(p) /\ p \in AllExports' /\ Export(p)' = Export(p)
  <2> TAKE p \in AllExports
  <2>1. ExportFits(p)
    BY ExportIs
  <2>2. ExportFits(p)' /\ Export(p)' = Export(p)
    BY <2>1, ExportGrows
  <2>3. p = <<p[1], p[2]>> /\ p[1] \in Indexes' /\ p[2] \in Exports(p[1])'
    <3>1. p = <<p[1], p[2]>>
      BY <2>1 DEF ExportFits
    <3>2. /\ p[1] \in Indexes' /\ files'[p[1]].valid
          /\ p[2] \in 1 .. Len(Img(p[1])'.symbols) /\ Exported(Img(p[1])'.symbols[p[2]])
      BY <2>2 DEF ExportFits, Export
    <3> QED  BY <3>1, <3>2 DEF Exports
  <2> QED  BY <2>1, <2>2, <2>3 DEF AllExports
<1>2. \A p \in AllExports' : p \in Nat \X Nat /\ (p \in AllExports \/ p[1] > Len(files))
  <2> TAKE p \in AllExports'
  <2>1. PICK k2 \in Indexes' : p \in {k2} \X Exports(k2)'
    BY DEF AllExports
  <2>2. k2 \in Nat
    BY DEF Grown, Indexes
  <2>3. /\ files'[k2].valid /\ p[1] = k2 /\ p[2] \in 1 .. Len(Img(k2)'.symbols)
        /\ p = <<p[1], p[2]>>
    BY <2>1 DEF Exports
  <2>4. Images[files'[k2].name].kind = "elf" /\ files'[k2].name \in FileNames
    BY <2>1, <2>3 DEF Located, AllFiled, Filed, Mapped
  <2>5. Len(Img(k2)'.symbols) \in Nat
    BY <2>4, ImageAssumption DEF WellFormedFile, Img
  <2>6. p \in Nat \X Nat
    BY <2>2, <2>3, <2>5
  <2>7. CASE k2 \in Indexes
    <3>1. files'[k2] = files[k2]
      BY <2>7 DEF Grown
    <3>2. Exports(k2)' = Exports(k2)
      BY <3>1 DEF Exports, Img
    <3> QED  BY <2>1, <2>6, <2>7, <3>2 DEF AllExports
  <2>8. CASE k2 \notin Indexes
    BY <2>1, <2>2, <2>3, <2>6, <2>8 DEF Grown, Indexes
  <2> QED  BY <2>7, <2>8
<1> PICK S, T : S = Matching(k, symbol) /\ T = Matching(k, symbol)'
  OBVIOUS
<1>3. S \in SUBSET (Nat \X Nat) /\ T \in SUBSET (Nat \X Nat) /\ S # {}
  BY <1>1, <1>2 DEF Matching, ExportFits
<1>4. S \subseteq T
  BY <1>1 DEF Matching
<1>5. \A q \in T : q \in S \/ \A p \in S : p[1] < q[1]
  <2> TAKE q \in T
  <2>1. q \in AllExports' /\ q[1] # k /\ Hash[Export(q)'.name] = Hash[symbol.name]
    BY DEF Matching
  <2>2. CASE q \in AllExports
    BY <1>1, <2>1, <2>2 DEF Matching
  <2>3. CASE q[1] > Len(files)
    <3>1. \A p \in S : p[1] \in Indexes /\ p[1] \in Nat
      BY <1>1 DEF Matching, ExportFits
    <3> QED  BY <1>3, <2>3, <3>1 DEF Indexes, Grown
  <2> QED  BY <1>2, <2>1, <2>2, <2>3
<1>6. First(S) \in S /\ First(T) = First(S) /\ T # {}
  BY <1>3, <1>4, <1>5, FirstIs, FirstStays
<1> QED  BY <1>6

(* An address once resolved stays what it was, however many files and      *)
(* sections are added.                                                     *)
LEMMA ResolveGrows ==
  ASSUME Located, Located', FilesTyped, FilesTyped', Grown, NEW k \in Indexes, files[k].valid,
         NEW symbol, SymbolFits(Img(k), symbol), resolveSymbolAddress(k, symbol) # Unresolved
  PROVE  resolveSymbolAddress(k, symbol)' = resolveSymbolAddress(k, symbol)
<1>1. CASE symbol.shndx > 0
  BY <1>1, TargetGrows DEF resolveSymbolAddress
<1>2. CASE ~(symbol.shndx > 0)
  <2>1. symbol.shndx = 0 /\ symbol.global /\ Matching(k, symbol) # {}
    BY <1>2 DEF resolveSymbolAddress
  <2> PICK p : p = First(Matching(k, symbol))
    OBVIOUS
  <2>2. p \in Matching(k, symbol) /\ p = First(Matching(k, symbol)') /\ Matching(k, symbol)' # {}
    BY <2>1, MatchingGrows
  <2>3. ExportFits(p)
    BY <2>2, ExportIs DEF Matching
  <2>4. ExportTarget(p)' = ExportTarget(p)
    BY <2>3, ExportGrows
  <2>5. First(Matching(k, symbol))' = p
    BY <2>2
  <2>6. resolveSymbolAddress(k, symbol) = ExportTarget(p)
    BY <1>2, <2>1 DEF resolveSymbolAddress
  <2>7. resolveSymbolAddress(k, symbol)' = ExportTarget(First(Matching(k, symbol)))'
    BY <1>2, <2>1, <2>2 DEF resolveSymbolAddress
  <2> QED  BY <2>4, <2>5, <2>6, <2>7 DEF ExportTarget, Target, Place, Export, Img
<1> QED  BY <1>1, <1>2

Kept(r) == Fitting(r)' /\ r \in Relocations' /\ ~Fails(r)' /\ Written(r)' = Written(r)

LEMMA RelocationGrows ==
  ASSUME Located, Located', FilesTyped, FilesTyped', Grown, UNCHANGED memStart,
         NEW r \in Relocations, ~Fails(r)
  PROVE  Kept(r)
<1> PICK k : k = r.section.file
  OBVIOUS
<1>1. Fitting(r)
  BY RelocationIs
<1>2. k \in Indexes /\ files[k].valid /\ k \in Indexes' /\ files'[k] = files[k]
  <2>1. k \in Indexes /\ files[k].valid
    BY <1>1 DEF Fitting
  <2> QED  BY <2>1 DEF Grown, Indexes
<1>3. Img(k)' = Img(k) /\ Section(r.section)' = Section(r.section) /\ Symbol(r)' = Symbol(r)
  <2>1. Img(k)' = Img(k)
    BY <1>2 DEF Img
  <2> QED  BY <2>1 DEF Section, Symbol
<1>4. Fitting(r)'
  BY <1>1, <1>2, <1>3 DEF Fitting, Grown
<1>5. SymbolFits(Img(k), Symbol(r)) /\ resolveSymbolAddress(k, Symbol(r)) # Unresolved
  BY <1>1 DEF Fitting, Fails
<1>6. \A x : x = Symbol(r) => resolveSymbolAddress(k, x)' = resolveSymbolAddress(k, Symbol(r))
  BY <1>2, <1>5, ResolveGrows
<1>7. resolveSymbolAddress(k, Symbol(r))' = resolveSymbolAddress(k, Symbol(r))
  BY <1>3, <1>6 DEF resolveSymbolAddress, Target, Place, Matching
<1>8. ~Fails(r)'
  BY <1>5, <1>7 DEF Fails, Unresolved
<1>9. Written(r)' = Written(r)
  BY <1>7 DEF Written, getOffset, Width
<1>10. r \in Relocations'
  <2> PICK s, n : s \in placed /\ n \in 1 .. Len(Section(s).rela) /\ s.file \in Indexes /\ ~Section(s).rel
        /\ r = [section |-> s, rela |-> Section(s).rela[n], n |-> n]
    BY DEF Relocations
  <2>1. r.section = s
    OBVIOUS
  <2>2. s \in placed' /\ s.file \in Indexes' /\ Section(s)' = Section(s)
    BY <1>2, <1>3, <2>1 DEF Grown
  <2> QED  BY <2>2 DEF Relocations
<1> QED  BY <1>4, <1>8, <1>9, <1>10 DEF Kept
-----------------------------------------------------------------------------
(* The last relocation of every address, and what is there. *)
AllFit == \A r \in Relocations : Fitting(r)

(* Relocations of one address are of one section. *)
SharedPlace ==
  AllCurrent => \A r, q \in Relocations : Where(r) = Where(q) => r.section = q.section

Shape == Inv /\ SectionsDisjoint /\ FilesTyped /\ Located /\ Home /\ AllFit /\ SharedPlace

LEMMA SharePlace == Located /\ SectionsDisjoint => AllFit /\ SharedPlace
<1> SUFFICES ASSUME Located, SectionsDisjoint PROVE AllFit /\ SharedPlace
  OBVIOUS
<1>1. AllFit
  BY RelocationIs DEF AllFit
<1>2. ASSUME AllCurrent, NEW r \in Relocations, NEW q \in Relocations, Where(r) = Where(q)
      PROVE  r.section = q.section
  <2> PICK s, t : s = r.section /\ t = q.section
    OBVIOUS
  <2>0. Fitting(r) /\ Fitting(q)
    BY <1>1 DEF AllFit
  <2>1. /\ s \in placed /\ s.start <= Where(r) /\ Where(r) <= s.start + s.total - 1
        /\ t \in placed /\ t.start <= Where(q) /\ Where(q) <= t.start + t.total - 1
        /\ Where(r) \in Nat
    BY <2>0, WhereIs
  <2>2. s.start \in Nat /\ s.total \in Nat /\ t.start \in Nat /\ t.total \in Nat
    BY <2>0 DEF Fitting
  <2>3. s \in Current /\ t \in Current /\ InBudget
    BY <1>2, <2>1 DEF AllCurrent
  <2>4. t # s => s.start + s.total <= t.start \/ t.start + t.total <= s.start
    BY <2>3 DEF SectionsDisjoint
  <2> QED  BY <1>2, <2>1, <2>2, <2>4
<1> QED  BY <1>1, <1>2 DEF SharedPlace

(* The relocations at an address, and the last of them. *)
Last(r, a) ==
  r \in Relocations /\ Where(r) = a /\ \A q \in Relocations : Where(q) = a => After(r, q)

Linked ==
  AllCurrent => \A a \in DOMAIN mem : \E r : Last(r, a) /\ ~Fails(r) /\ mem[a] = Written(r)

LEMMA LastGrows ==
  ASSUME Shape, Shape', Grown, UNCHANGED memStart, AllCurrent', NEW a, NEW r, Last(r, a), ~Fails(r)
  PROVE  Last(r, a)' /\ ~Fails(r)' /\ Written(r)' = Written(r)
<1>1. Kept(r)
  BY RelocationGrows DEF Shape, Last
<1>2. Fitting(r) /\ Where(r) = a
  BY DEF Shape, AllFit, Last
<1>3. ASSUME NEW q \in Relocations', Where(q) = a PROVE q \in Relocations
  <2>1. q.section = r.section
    BY <1>1, <1>2, <1>3 DEF Shape, SharedPlace, Where, Kept
  <2> PICK s, n : n \in 1 .. Len(Section(s)'.rela) /\ ~Section(s)'.rel
                  /\ q = [section |-> s, rela |-> Section(s)'.rela[n], n |-> n]
    BY DEF Relocations
  <2>2. s = r.section
    BY <2>1
  <2>3. s \in placed /\ s.file \in Indexes /\ Section(s)' = Section(s)
    BY <1>2, <2>2 DEF Fitting, Grown, Section, Img
  <2> QED  BY <2>3 DEF Relocations
<1>4. \A q \in Relocations' : Where(q) = a => After(r, q)
  BY <1>3 DEF Last
<1> QED  BY <1>1, <1>2, <1>4 DEF Kept, Last, Where, After

LEMMA LinkedGrows ==
  ASSUME Linked, Shape, Shape', Grown, UNCHANGED memStart, AllCurrent' => AllCurrent,
         \A a \in DOMAIN mem' : a \in DOMAIN mem /\ mem'[a] = mem[a]
  PROVE  Linked'
<1> SUFFICES ASSUME AllCurrent', NEW a \in DOMAIN mem'
             PROVE  \E r : Last(r, a)' /\ ~Fails(r)' /\ mem'[a] = Written(r)'
  BY DEF Linked
<1>1. PICK r : Last(r, a) /\ ~Fails(r) /\ mem[a] = Written(r)
  BY DEF Linked
<1> QED  BY <1>1, LastGrows

LEMMA FittingNumbers ==
  ASSUME Shape, NEW r, Fitting(r)
  PROVE  /\ r.section.file \in 1 .. Len(files) /\ Len(files) \in Nat
         /\ r.section.index \in 1 .. Len(Img(r.section.file).sections)
         /\ Len(Img(r.section.file).sections) \in Nat
         /\ r.n \in 1 .. Len(Section(r.section).rela) /\ Len(Section(r.section).rela) \in Nat
<1> PICK s, L : s = r.section /\ L = Len(Section(s).rela)
  OBVIOUS
<1>1. s \in placed /\ s.file \in Indexes /\ L \in Nat /\ r.n \in 1 .. L
  BY DEF Fitting
<1>2. s.file \in 1 .. Len(files) /\ Len(files) \in Nat
  BY <1>1, FilesLen DEF Indexes, Shape
<1>3. WellFormedFile(Img(s.file)) /\ Of(s, files[s.file].name)
  BY <1>1, PlacedFits DEF Shape
<1>4. Len(Img(s.file).sections) \in Nat /\ s.index \in 1 .. Len(Img(s.file).sections)
  BY <1>3 DEF WellFormedFile, SectionsOf, Img, Of
<1> QED  BY <1>1, <1>2, <1>4

(* One of the relocations at an address is the last. *)
LEMMA LastIs ==
  ASSUME Shape, NEW a, NEW q \in Relocations, Where(q) = a
  PROVE  \E r : Last(r, a)
<1> PICK at : at = {r \in Relocations : Where(r) = a}
  OBVIOUS
<1>0. /\ \A r \in at : Fitting(r) /\ r.section \in placed /\ r \in Relocations /\ Where(r) = a
      /\ q \in at
  BY DEF Shape, AllFit, Fitting
<1> PICK f \in {r.section.file : r \in at} : \A g \in {r.section.file : r \in at} : g <= f
  <2>1. {r.section.file : r \in at} # {}
    BY <1>0
  <2>2. Len(files) \in Nat /\ {r.section.file : r \in at} \in SUBSET (0 .. Len(files))
    BY <1>0, FittingNumbers
  <2> QED  BY <2>1, <2>2, GreatestNat
<1>1. PICK first \in at : first.section.file = f
  OBVIOUS
<1> PICK i \in {r.section.index : r \in {r \in at : r.section.file = f}} :
      \A j \in {r.section.index : r \in {r \in at : r.section.file = f}} : j <= i
  <2>1. {r.section.index : r \in {r \in at : r.section.file = f}} # {}
    BY <1>1
  <2>2. /\ Len(Img(f).sections) \in Nat
        /\ {r.section.index : r \in {r \in at : r.section.file = f}} \in SUBSET (0 .. Len(Img(f).sections))
    BY <1>0, <1>1, FittingNumbers
  <2> QED  BY <2>1, <2>2, GreatestNat
<1>2. PICK second \in at : second.section.file = f /\ second.section.index = i
  OBVIOUS
<1> PICK s : s = second.section
  OBVIOUS
<1>3. \A r \in at : r.section.file = f /\ r.section.index = i => r.section = s
  BY <1>0, <1>2 DEF Shape, Located, Distinct
<1> PICK n \in {r.n : r \in {r \in at : r.section = s}} : \A m \in {r.n : r \in {r \in at : r.section = s}} : m <= n
  <2>1. {r.n : r \in {r \in at : r.section = s}} # {}
    BY <1>2
  <2>2. /\ Len(Section(s).rela) \in Nat
        /\ {r.n : r \in {r \in at : r.section = s}} \in SUBSET (0 .. Len(Section(s).rela))
    BY <1>0, <1>2, FittingNumbers
  <2> QED  BY <2>1, <2>2, GreatestNat
<1>4. PICK r \in at : r.section = s /\ r.n = n
  OBVIOUS
<1>5. ASSUME NEW p \in at PROVE After(r, p)
  <2>1. /\ p.section.file \in Nat /\ p.section.index \in Nat /\ p.n \in Nat
        /\ r.section.file \in Nat /\ r.section.index \in Nat /\ r.n \in Nat
    BY <1>0, FittingNumbers
  <2>2. p.section.file <= f
    OBVIOUS
  <2>3. p.section.file = f => p.section.index <= i
    OBVIOUS
  <2>4. p.section.file = f /\ p.section.index = i => p.n <= n
    BY <1>3
  <2>5. r.section.file = f /\ r.section.index = i
    BY <1>2, <1>4
  <2> QED  BY <1>4, <2>1, <2>2, <2>3, <2>4, <2>5 DEF After
<1> QED  BY <1>0, <1>5 DEF Last

LEMMA LastOnce ==
  ASSUME Shape, AllCurrent, NEW a, NEW q, NEW r, Last(q, a), Last(r, a)
  PROVE  q = r
<1>1. q.section = r.section
  BY DEF Shape, SharedPlace, Last
<1>2. After(q, r) /\ After(r, q) /\ q \in Relocations /\ r \in Relocations
  BY DEF Last
<1>3. Fitting(q) /\ Fitting(r)
  BY <1>2 DEF Shape, AllFit
<1>4. q.n \in Nat /\ r.n \in Nat
  BY <1>3, FittingNumbers
<1>5. r.section.file \in Nat /\ r.section.index \in Nat
  BY <1>3, FittingNumbers
<1>6. q.n = r.n
  BY <1>1, <1>2, <1>4, <1>5 DEF After
<1> QED  BY <1>1, <1>2, <1>6 DEF Relocations
-----------------------------------------------------------------------------
(* m68k_elf_link writes for each address what the last relocation does. *)
LEMMA LinkWrites ==
  ASSUME Shape, m68k_elf_link, NEW a, NEW q \in Relocations, Where(q) = a,
         \A r \in Relocations : ~Fails(r)
  PROVE  \E r : Last(r, a) /\ a \in DOMAIN mem' /\ mem'[a] = Written(r)
<1> PICK at : at = {r \in Relocations : Where(r) = a}
  OBVIOUS
<1>1. PICK r : Last(r, a)
  BY LastIs
<1> PICK c : c = CHOOSE x \in at : \A y \in at : After(x, y)
  OBVIOUS
<1>2. c \in at /\ \A y \in at : After(c, y)
  BY <1>1 DEF Last
<1>3. Last(c, a)
  BY <1>2 DEF Last
<1>4. at # {}
  OBVIOUS
<1>5. mem' = [x \in DOMAIN mem \cup {Where(r2) : r2 \in Relocations} |->
                LET these == {r2 \in Relocations : Where(r2) = x}
                IN IF these = {} THEN mem[x]
                   ELSE Written(CHOOSE r2 \in these : \A q2 \in these : After(r2, q2))]
  BY DEF m68k_elf_link
<1>6. a \in DOMAIN mem \cup {Where(r2) : r2 \in Relocations}
  OBVIOUS
<1>7. mem'[a] = Written(c) /\ a \in DOMAIN mem'
  BY <1>4, <1>5, <1>6
<1> QED  BY <1>3, <1>7

LEMMA LinkStableStep ==
  ASSUME Shape, Linked, AllCurrent, m68k_elf_link, NEW a \in DOMAIN mem
  PROVE  mem'[a] = mem[a]
<1>1. PICK r : Last(r, a) /\ mem[a] = Written(r)
  BY DEF Linked
<1>2. CASE UNCHANGED mem
  BY <1>2
<1>3. CASE \A q \in Relocations : ~Fails(q)
  <2>1. PICK q : Last(q, a) /\ mem'[a] = Written(q)
    BY <1>1, <1>3, LinkWrites DEF Last
  <2>2. q = r
    BY <1>1, <2>1, LastOnce
  <2> QED  BY <1>1, <2>1, <2>2
<1> QED  BY <1>2, <1>3 DEF m68k_elf_link

LEMMA LinkLinked ==
  ASSUME Shape, Shape', Linked, m68k_elf_link
  PROVE  Linked'
<1>0. UNCHANGED <<region, memStart, files, placed>>
  BY DEF m68k_elf_link
<1>1. Grown /\ (AllCurrent' => AllCurrent)
  BY <1>0, FilesLen DEF Grown, AllCurrent, InBudget, Current, region, dataStart, bssStart, memEnd, Shape
<1>2. CASE UNCHANGED mem
  BY <1>0, <1>1, <1>2, LinkedGrows
<1>3. CASE \A q \in Relocations : ~Fails(q)
  <2> SUFFICES ASSUME AllCurrent', NEW a \in DOMAIN mem'
               PROVE  \E r : Last(r, a)' /\ ~Fails(r)' /\ mem'[a] = Written(r)'
    BY DEF Linked
  <2>1. \E q \in Relocations : Where(q) = a
    <3>1. a \in DOMAIN mem \cup {Where(q) : q \in Relocations}
      BY <1>3 DEF m68k_elf_link
    <3>2. CASE a \in DOMAIN mem
      BY <1>1, <3>2 DEF Linked, Last
    <3> QED  BY <3>1, <3>2
  <2>2. PICK r : Last(r, a) /\ mem'[a] = Written(r)
    BY <1>1, <1>3, <2>1, LinkWrites
  <2>3. ~Fails(r)
    BY <1>3, <2>2 DEF Last
  <2> QED  BY <1>0, <1>1, <2>2, <2>3, LastGrows
<1> QED  BY <1>2, <1>3 DEF m68k_elf_link

LEMMA RegisterGrows ==
  ASSUME FilesTyped, NEW f \in FileNames, NEW valid \in BOOLEAN, Register(f, valid), UNCHANGED placed
  PROVE  Grown
<1>1. CASE UNCHANGED files
  BY <1>1, FilesLen DEF Grown
<1>2. CASE files' = Append(files, [name |-> f, valid |-> valid])
  <2>1. /\ Len(files') = Len(files) + 1 /\ Len(files) \in Nat
        /\ \A k \in 1 .. Len(files) : files'[k] = files[k]
    BY <1>2, AppendProperties, FilesLen DEF FilesTyped
  <2> QED  BY <2>1 DEF Grown, Indexes
<1> QED  BY <1>1, <1>2 DEF Register

LEMMA LinkedNext ==
  ASSUME Shape, Shape', Linked, [Next]_vars
  PROVE  Linked'
<1>1. ASSUME UNCHANGED <<region, memStart, placed, mem, files>> PROVE Linked'
  <2>1. Grown /\ (AllCurrent' => AllCurrent)
    BY <1>1, FilesLen DEF Grown, AllCurrent, InBudget, Current, region, dataStart, bssStart, memEnd, Shape
  <2> QED  BY <1>1, <2>1, LinkedGrows
<1>2. ASSUME UNCHANGED <<region, memStart, placed, mem>>,
             NEW f \in FileNames, NEW valid \in BOOLEAN, Register(f, valid)
      PROVE  Linked'
  <2>1. Grown
    BY <1>2, RegisterGrows DEF Shape
  <2>2. AllCurrent' => AllCurrent
    BY <1>2 DEF AllCurrent, InBudget, Current, region, dataStart, bssStart, memEnd
  <2> QED  BY <1>2, <2>1, <2>2, LinkedGrows
<1>3. ASSUME NEW f \in FileNames, m68k_elf_load(f) PROVE Linked'
  <2>1. CASE LoadCrashes(f) \/ AlreadyLoaded(f) \/ StartLoad(f)
    BY <1>1, <2>1 DEF LoadCrashes, AlreadyLoaded, StartLoad
  <2>2. CASE LoadFails(f)
    BY <1>2, <2>2 DEF LoadFails
  <2> QED  BY <1>3, <2>1, <2>2 DEF m68k_elf_load
<1>4. CASE FinishLoad
  <2>1. loading \in FileNames /\ Register(loading, TRUE) /\ UNCHANGED <<region, memStart, placed, mem>>
    BY <1>4 DEF FinishLoad, Shape, Inv, Loading
  <2> QED  BY <1>2, <2>1
<1>5. CASE SkipSection
  BY <1>1, <1>5 DEF SkipSection
<1>6. CASE AllocateSection
  <2>1. placed \subseteq placed' /\ UNCHANGED <<files, memStart>>
    BY <1>6 DEF AllocateSection
  <2>2. Grown
    BY <2>1, FilesLen DEF Grown, Shape
  <2>3. AllCurrent' => AllCurrent
    <3> PICK r, total : Advance(r, total) /\ \E s \in placed' : s.total = total
      BY <1>6 DEF AllocateSection
    <3>1. /\ total \in Nat /\ code \in Nat /\ data \in Nat /\ bss \in Nat
          /\ dataStart \in Nat /\ bssStart \in Nat /\ memEnd \in Nat
          /\ dataStart' = dataStart /\ bssStart' = bssStart /\ memEnd' = memEnd
      BY <2>1, SizeAssumption DEF Shape, Inv, Placed, Numbers, dataStart, bssStart, memEnd
    <3>2. InBudget' => InBudget
      BY <3>1 DEF InBudget, Advance
    <3> QED  BY <2>1, <3>2 DEF AllCurrent, Current
  <2>4. \A a \in DOMAIN mem' : a \in DOMAIN mem /\ mem'[a] = mem[a]
    BY <1>6 DEF AllocateSection
  <2> QED  BY <2>1, <2>2, <2>3, <2>4, LinkedGrows
<1>7. ASSUME NEW m \in Arenas, m68k_code_init(m) PROVE Linked'
  <2> SUFFICES ASSUME AllCurrent' PROVE DOMAIN mem' = {}
    BY DEF Linked
  <2>1. \A s \in placed : s.base # memStart'
    BY <1>7 DEF m68k_code_init, Shape, Inv, Placed
  <2>2. placed = {} /\ UNCHANGED mem
    BY <1>7, <2>1 DEF AllCurrent, Current, m68k_code_init
  <2> QED  BY <2>2 DEF Shape, Home
<1>8. CASE m68k_elf_link
  BY <1>8, LinkLinked
<1>9. ASSUME NEW source \in Sources, NEW line \in Lines, LookupCrashes(source, line) PROVE Linked'
  BY <1>1, <1>9 DEF LookupCrashes
<1>10. CASE UNCHANGED vars
  BY <1>1, <1>10 DEF vars
<1> QED  BY <1>3, <1>4, <1>5, <1>6, <1>7, <1>8, <1>9, <1>10 DEF Next
-----------------------------------------------------------------------------
(* Reducing modulo Word first changes nothing. *)
LEMMA ModOfMultiple ==
  ASSUME NEW V \in Nat \ {0}, NEW a \in Int, NEW m \in Int
  PROVE  (a + V * m) % V = a % V
<1> PICK d \in Int, r \in 0 .. V - 1 : a = V * d + r /\ a % V = r
  OBVIOUS
<1>1. a + V * m = V * (d + m) + r
  OBVIOUS
<1> PICK e \in Int : e = d + m
  OBVIOUS
<1>2. (V * e + r) % V = r
  OBVIOUS
<1> QED  BY <1>1, <1>2

LEMMA DivMod ==
  ASSUME NEW V \in Nat \ {0}, NEW a \in Int
  PROVE  a % V \in 0 .. V - 1 /\ \E d \in Int : a = V * d + (a % V)
<1>1. a % V \in 0 .. V - 1
  OBVIOUS
<1>2. a \div V \in Int /\ a = V * (a \div V) + (a % V)
  OBVIOUS
<1> QED  BY <1>1, <1>2

LEMMA ModTwice ==
  ASSUME NEW V \in {Word, Half}, NEW x \in Int, NEW y \in Int
  PROVE  ((x % Word) + y) % V = (x + y) % V
<1>1. Word \in Nat \ {0} /\ V \in Nat \ {0} /\ Word % V = 0
  BY SizeAssumption
<1> PICK q \in Int : Word = V * q
  BY <1>1
<1> PICK d \in Int : x = Word * d + (x % Word) /\ x % Word \in Int
  <2>1. x % Word \in 0 .. Word - 1 /\ \E d \in Int : x = Word * d + (x % Word)
    BY <1>1, DivMod, Zenon
  <2> PICK d \in Int : x = Word * d + (x % Word)
    BY <2>1
  <2>2. x % Word \in Int
    BY <1>1, <2>1
  <2> QED  BY <2>2
<1> PICK w \in Int : w = (x % Word) + y
  BY SMTT(30)
<1>2. x + y = w + (V * q) * d
  BY <1>1
<1>3. (V * q) * d = V * (q * d) /\ q * d \in Int
  BY <1>1
<1>4. (w + V * (q * d)) % V = w % V
  BY ZenonT(60), <1>1, <1>3, ModOfMultiple
<1> QED  BY <1>2, <1>3, <1>4

LEMMA TargetNat ==
  ASSUME Located, NEW k \in Indexes, files[k].valid, NEW symbol,
         SymbolFits(Img(k), symbol), symbol.shndx > 0
  PROVE  Target(k, symbol) \in Nat
<1>0. Len(Img(k).sections) \in Nat
  BY ImageAssumption DEF Located, AllFiled, Filed, Mapped, Img, WellFormedFile
<1>1. /\ symbol.shndx \in 1 .. Len(Img(k).sections) /\ Placeable(Img(k).sections[symbol.shndx])
      /\ symbol.value \in Nat
  BY <1>0 DEF SymbolFits
<1>2. Place(k, symbol.shndx).start \in Nat
  BY <1>1, PlaceIs
<1> QED  BY <1>1, <1>2 DEF Target

LEMMA MatchingIs ==
  ASSUME Located, FilesTyped, NEW k, NEW symbol, Matching(k, symbol) # {}
  PROVE  /\ First(Matching(k, symbol)) \in Matching(k, symbol)
         /\ \A q \in Matching(k, symbol) : ExportFits(q) /\ Earlier(First(Matching(k, symbol)), q)
<1> PICK S : S = Matching(k, symbol)
  OBVIOUS
<1>1. \A p \in S : p \in Nat \X Nat /\ ExportFits(p)
  BY ExportIs DEF Matching, ExportFits
<1>2. S \in SUBSET (Nat \X Nat)
  BY <1>1
<1> QED  BY <1>1, <1>2, FirstIs

LEMMA Resolves ==
  ASSUME Located, FilesTyped, NoCollision, NEW r, Fitting(r),
         resolveSymbolAddress(r.section.file, Symbol(r)) # Unresolved
  PROVE  /\ resolveSymbolAddress(r.section.file, Symbol(r)) \in Definitions(r)
         /\ resolveSymbolAddress(r.section.file, Symbol(r)) \in Nat
<1> PICK k, symbol : k = r.section.file /\ symbol = Symbol(r)
  OBVIOUS
<1>0. k \in Indexes /\ files[k].valid /\ SymbolFits(Img(k), symbol)
  BY DEF Fitting
<1>1. CASE symbol.shndx > 0
  BY <1>0, <1>1, TargetNat DEF resolveSymbolAddress, Definitions
<1>2. CASE ~(symbol.shndx > 0)
  <2>1. symbol.shndx = 0 /\ symbol.global /\ Matching(k, symbol) # {}
    BY <1>2 DEF resolveSymbolAddress
  <2> PICK p : p = First(Matching(k, symbol))
    OBVIOUS
  <2>2. p \in Matching(k, symbol) /\ ExportFits(p)
    BY <2>1, MatchingIs
  <2>3. p \in AllExports /\ Hash[Export(p).name] = Hash[symbol.name]
    BY <2>2 DEF Matching
  <2>4. Export(p).name = symbol.name
    BY <1>0, <2>2, <2>3 DEF NoCollision, SymbolFits, ExportFits
  <2>5. resolveSymbolAddress(k, symbol) = ExportTarget(p)
    BY <1>2, <2>1 DEF resolveSymbolAddress
  <2>6. ExportTarget(p) \in Nat
    BY <2>2, TargetNat DEF ExportFits, Exported, ExportTarget
  <2> QED  BY <1>2, <2>3, <2>4, <2>5, <2>6 DEF Definitions
<1> QED  BY <1>1, <1>2

LEMMA LinkedSound == Shape /\ Linked => LinkSound
<1> SUFFICES ASSUME Shape, Linked, NoCollision, AllCurrent, NEW a \in DOMAIN mem
             PROVE  \E r \in Relocations :
                      /\ Where(r) = a
                      /\ \E t \in Definitions(r) : mem[a] = (t - memStart + r.rela.addend) % Width(r)
  BY DEF LinkSound
<1>1. PICK r : Last(r, a) /\ ~Fails(r) /\ mem[a] = Written(r)
  BY DEF Linked
<1> PICK t : t = resolveSymbolAddress(r.section.file, Symbol(r))
  OBVIOUS
<1>2. r \in Relocations /\ Where(r) = a /\ Fitting(r) /\ t # Unresolved
  BY <1>1 DEF Last, Shape, AllFit, Fails
<1>3. t \in Definitions(r) /\ t \in Nat
  BY <1>2, Resolves DEF Shape
<1>4. mem[a] = (((t - memStart) % Word) + r.rela.addend) % Width(r)
  BY <1>1 DEF Written, getOffset
<1> PICK x, y, V : x = t - memStart /\ y = r.rela.addend /\ V = Width(r)
  OBVIOUS
<1>5. x \in Int /\ y \in Int /\ V \in {Word, Half}
  BY <1>2, <1>3 DEF Shape, Inv, Numbers, Fitting, Width
<1>6. mem[a] = (x + y) % V
  BY <1>4, <1>5, ModTwice
<1> QED  BY <1>2, <1>3, <1>6

LEMMA AgreesWithFindSymbol == Shape => LinkerAgreesWithFindSymbol
<1> SUFFICES ASSUME Shape, NoCollision, NEW r \in Relocations, Symbol(r).shndx = 0, ~Fails(r)
             PROVE  m68k_find_symbol(Symbol(r).name)
                      = resolveSymbolAddress(r.section.file, Symbol(r)) % Word
  BY DEF LinkerAgreesWithFindSymbol
<1> PICK k, symbol : k = r.section.file /\ symbol = Symbol(r)
  OBVIOUS
<1> PICK found : found = {p \in AllExports : Export(p).name = symbol.name}
  OBVIOUS
<1>0. Fitting(r)
  BY DEF Shape, AllFit
<1>1. /\ k \in Indexes /\ files[k].valid /\ SymbolFits(Img(k), symbol) /\ r.section \in placed
      /\ r.rela.symbol \in 1 .. Len(Img(k).symbols) /\ symbol = Img(k).symbols[r.rela.symbol]
  BY <1>0 DEF Fitting, Symbol
<1>2. symbol.global /\ Matching(k, symbol) # {}
      /\ resolveSymbolAddress(k, symbol) = ExportTarget(First(Matching(k, symbol)))
  BY DEF Fails, resolveSymbolAddress
<1>3. WellFormedFile(Img(k))
  BY <1>1, PlacedFits DEF Shape
<1>4. \A p \in Matching(k, symbol) : p \in found
  <2> TAKE p \in Matching(k, symbol)
  <2>1. ExportFits(p) /\ p \in AllExports /\ Hash[Export(p).name] = Hash[symbol.name]
    BY ExportIs DEF Matching, Shape
  <2> QED  BY <1>1, <2>1 DEF NoCollision, SymbolFits, ExportFits
<1>5. \A p \in found : p \in Matching(k, symbol)
  <2> TAKE p \in found
  <2>1. ExportFits(p) /\ p \in AllExports /\ Export(p).name = symbol.name
    BY ExportIs DEF Shape
  <2>2. CASE p[1] = k
    <3>1. /\ p[2] \in 1 .. Len(Img(k).symbols) /\ Img(k).symbols[p[2]].global
          /\ Img(k).symbols[p[2]].name = symbol.name /\ Img(k).symbols[p[2]].shndx > 0
      BY <2>1, <2>2 DEF ExportFits, Exported, Export
    <3>2. p[2] = r.rela.symbol
      BY <1>1, <1>2, <1>3, <3>1 DEF WellFormedFile
    <3>3. Img(k).symbols[p[2]] = symbol
      BY <1>1, <3>2
    <3> QED  BY <3>1, <3>3
  <2> QED  BY <2>1, <2>2 DEF Matching
<1>6. found = Matching(k, symbol)
  BY <1>1, <1>4, <1>5 DEF Matching
<1> QED  BY <1>2, <1>6 DEF m68k_find_symbol

Typed ==
  /\ placed \subseteq SectionRecord
  /\ \A a \in DOMAIN mem : mem[a] \in Nat
  /\ phase \in {"idle", "allocating", "exited", "crashed", "corrupted"}
  /\ ret \in {0, -1}

LEMMA TypedIs == Typed /\ Shape => TypeOK
  BY FilesLen, SizeAssumption DEF Typed, Shape, TypeOK, Inv, Numbers

LEMMA InitTyped == Init => Typed
  BY DEF Init, Typed

LEMMA WrittenNat ==
  ASSUME Shape, NEW r \in Relocations, ~Fails(r)
  PROVE  Written(r) \in Nat
<1> PICK k, symbol, t : k = r.section.file /\ symbol = Symbol(r) /\ t = resolveSymbolAddress(k, symbol)
  OBVIOUS
<1>1. Fitting(r)
  BY DEF Shape, AllFit
<1>2. k \in Indexes /\ files[k].valid /\ SymbolFits(Img(k), symbol) /\ t # Unresolved
  BY <1>1 DEF Fitting, Fails
<1>3. t \in Nat
  <2>1. CASE symbol.shndx > 0
    BY <1>2, <2>1, TargetNat DEF resolveSymbolAddress, Shape
  <2>2. CASE ~(symbol.shndx > 0)
    <3>1. Matching(k, symbol) # {} /\ t = ExportTarget(First(Matching(k, symbol)))
      BY <1>2, <2>2 DEF resolveSymbolAddress
    <3> PICK p : p = First(Matching(k, symbol))
      OBVIOUS
    <3>2. ExportFits(p)
      BY <3>1, MatchingIs DEF Shape
    <3>3. ExportTarget(p) \in Nat
      BY <3>2, TargetNat DEF ExportFits, Exported, ExportTarget, Shape
    <3> QED  BY <3>1, <3>3
  <2> QED  BY <2>1, <2>2
<1> PICK x, y, V : x = t - memStart /\ y = r.rela.addend /\ V = Width(r)
  OBVIOUS
<1>4. x \in Int /\ y \in Int /\ V \in Nat \ {0} /\ Word \in Nat \ {0}
  BY <1>1, <1>3, SizeAssumption DEF Shape, Inv, Numbers, Fitting, Width
<1>5. x % Word \in Int
  BY <1>4
<1>6. ((x % Word) + y) % V \in Nat
  BY <1>4, <1>5
<1> QED  BY <1>6 DEF Written, getOffset

LEMMA TypedNext ==
  ASSUME Typed, Shape, [Next]_vars
  PROVE  Typed'
<1>1. ASSUME NEW f, NEW valid, Register(f, valid), UNCHANGED <<placed, mem>> PROVE Typed'
  BY <1>1 DEF Typed, Register
<1>2. ASSUME NEW f \in FileNames, m68k_elf_load(f) PROVE Typed'
  <2>1. CASE LoadCrashes(f) \/ AlreadyLoaded(f) \/ StartLoad(f)
    BY <2>1 DEF LoadCrashes, AlreadyLoaded, StartLoad, Typed
  <2> QED  BY <1>1, <1>2, <2>1 DEF m68k_elf_load, LoadFails
<1>3. CASE AllocateSection
  <2> PICK f \in FileNames, n \in Nat \ {0} : f = loading /\ n = next /\ phase = "allocating" /\ memStart # 0
    BY <1>3 DEF Shape, Inv, Loading, AllocateSection
  <2> PICK x, total : x = SectionsOf(f)[n] /\ total = TotalSize(x.size)
    OBVIOUS
  <2>1. /\ n <= Len(SectionsOf(f)) /\ UNCHANGED <<phase, ret>>
        /\ placed' = placed \cup
            {[file |-> Len(files) + 1, index |-> n, region |-> Region(x), base |-> memStart,
              start |-> Cursor(Region(x)), offset |-> getOffset(Cursor(Region(x))),
              size |-> x.size, total |-> total]}
        /\ \A a \in DOMAIN mem' : a \in DOMAIN mem /\ mem'[a] = mem[a]
    BY <1>3 DEF AllocateSection, SectionsOf
  <2>2. WellFormedFile(Images[f])
    BY <1>3, ImageAssumption DEF Shape, Inv, Loading
  <2>3. n \in 1 .. Len(SectionsOf(f))
    BY <2>1, <2>2 DEF WellFormedFile, SectionsOf
  <2>4. x.size \in Nat
    BY <2>2, <2>3 DEF WellFormedFile, SectionsOf, SectionFits
  <2>5. total \in Nat
    BY <2>4, TotalSizeNat
  <2>6. Cursor(Region(x)) \in Nat /\ memStart \in Nat /\ memStart \in Arenas /\ Len(files) + 1 \in Nat \ {0}
    BY FilesLen DEF Shape, Inv, Numbers, Cursor, Region
  <2>7. getOffset(Cursor(Region(x))) \in 0 .. Word - 1
    BY <2>6, SizeAssumption DEF getOffset
  <2>8. Region(x) \in {"code", "data", "bss"}
    BY DEF Region
  <2>9. placed' \subseteq SectionRecord
    BY <2>1, <2>4, <2>5, <2>6, <2>7, <2>8 DEF Typed, SectionRecord
  <2> QED  BY <2>1, <2>9 DEF Typed
<1>4. CASE SkipSection \/ FinishLoad
  BY <1>1, <1>4 DEF SkipSection, FinishLoad, Typed
<1>5. CASE m68k_elf_link
  <2>1. CASE UNCHANGED mem
    BY <1>5, <2>1 DEF m68k_elf_link, Typed
  <2>2. CASE \A q \in Relocations : ~Fails(q)
    <3>1. ASSUME NEW a \in DOMAIN mem' PROVE mem'[a] \in Nat
      <4>1. CASE \E q \in Relocations : Where(q) = a
        BY <1>5, <2>2, <4>1, LinkWrites, WrittenNat DEF Last
      <4>2. CASE ~\E q \in Relocations : Where(q) = a
        BY <1>5, <2>2, <3>1, <4>2 DEF m68k_elf_link, Typed
      <4> QED  BY <4>1, <4>2
    <3> QED  BY <1>5, <3>1 DEF m68k_elf_link, Typed
  <2> QED  BY <1>5, <2>1, <2>2 DEF m68k_elf_link
<1>6. ASSUME UNCHANGED <<placed, mem>>, phase' \in {phase, "crashed"}, UNCHANGED ret PROVE Typed'
  BY <1>6 DEF Typed
<1> QED  BY <1>1, <1>2, <1>3, <1>4, <1>5, <1>6 DEF Next, m68k_code_init, LookupCrashes, vars
-----------------------------------------------------------------------------
(* Source lines. *)
Sooner(h, g) ==
  \/ h[1].file < g[1].file
  \/ h[1].file = g[1].file /\ h[1].index < g[1].index
  \/ h[1].file = g[1].file /\ h[1].index = g[1].index /\ h[2] <= g[2]

(* The section and the entry a source line is answered with. *)
LEMMA LineAnswerIs ==
  ASSUME Shape, NEW source, NEW line, LineHits(source, line) # {}
  PROVE  LineAnswer(source, line) \in LineHits(source, line)
<1> PICK S : S = LineHits(source, line)
  OBVIOUS
<1>1. ASSUME NEW h \in S
      PROVE  /\ h[1] \in placed /\ h[1].file \in Indexes /\ h[1].file \in Nat
             /\ h[1].index \in Nat /\ h[2] \in Nat
  <2> PICK s \in placed : s.file \in Indexes /\ h[1] = s /\ h[2] \in 1 .. Len(Debug(s))
    BY DEF LineHits
  <2>1. WellFormedFile(Img(s.file)) /\ Of(s, files[s.file].name) /\ SectionFits(Img(s.file), Section(s))
    BY PlacedFits DEF Shape
  <2>2. Len(Debug(s)) \in Nat
    BY <2>1 DEF SectionFits, Debug
  <2>3. s.index \in Nat
    BY PlacedFits DEF Shape
  <2>4. s.file \in Nat
    BY FilesLen DEF Indexes, Shape
  <2> QED  BY <2>2, <2>3, <2>4
<1> PICK f \in {h[1].file : h \in S} : \A g \in {h[1].file : h \in S} : f <= g
  <2>1. {h[1].file : h \in S} \in SUBSET Nat /\ {h[1].file : h \in S} # {}
    BY <1>1
  <2> QED  BY <2>1, LeastNat
<1> PICK i \in {h[1].index : h \in {h \in S : h[1].file = f}} :
      \A j \in {h[1].index : h \in {h \in S : h[1].file = f}} : i <= j
  <2>1. /\ {h[1].index : h \in {h \in S : h[1].file = f}} \in SUBSET Nat
        /\ {h[1].index : h \in {h \in S : h[1].file = f}} # {}
    BY <1>1
  <2> QED  BY <2>1, LeastNat
<1> PICK d \in {h[2] : h \in {h \in S : h[1].file = f /\ h[1].index = i}} :
      \A e \in {h[2] : h \in {h \in S : h[1].file = f /\ h[1].index = i}} : d <= e
  <2>1. /\ {h[2] : h \in {h \in S : h[1].file = f /\ h[1].index = i}} \in SUBSET Nat
        /\ {h[2] : h \in {h \in S : h[1].file = f /\ h[1].index = i}} # {}
    BY <1>1
  <2> QED  BY <2>1, LeastNat
<1>2. PICK h \in S : h[1].file = f /\ h[1].index = i /\ h[2] = d
  OBVIOUS
<1>3. ASSUME NEW g \in S PROVE Sooner(h, g)
  <2>1. f <= g[1].file /\ (g[1].file = f => i <= g[1].index)
    OBVIOUS
  <2>2. g[1].file = f /\ g[1].index = i => d <= g[2]
    OBVIOUS
  <2>3. g[1].file \in Nat /\ g[1].index \in Nat /\ f \in Nat /\ i \in Nat
    BY <1>1, <1>2
  <2> QED  BY <1>2, <2>1, <2>2, <2>3 DEF Sooner
<1> QED  BY <1>3 DEF LineAnswer, Sooner

LEMMA RoundTrip == Shape => LineRoundTrip
<1> SUFFICES ASSUME Shape, AllCurrent, NEW source \in Sources, NEW line \in Lines,
                    LineHits(source, line) # {}, Exports(LineAnswer(source, line)[1].file) # {}
             PROVE  LET s == LineAnswer(source, line)[1]
                        pc == m68k_resolve_pc_line_file(source, line)
                    IN /\ m68k_resolve_file_line(pc).source = source
                       /\ m68k_resolve_file_line(pc).line = 0
                            \/ \E d \in 1 .. Len(Debug(s)) :
                                 /\ DebugPC(s, d) = pc
                                 /\ m68k_resolve_file_line(pc).line = Debug(s)[d].startLine
  BY DEF LineRoundTrip
<1> PICK s, e, pc : /\ s = LineAnswer(source, line)[1] /\ e = LineAnswer(source, line)[2]
                    /\ pc = m68k_resolve_pc_line_file(source, line)
  OBVIOUS
<1>1. /\ s \in placed /\ s.file \in Indexes /\ Source(s.file) = source
      /\ e \in 1 .. Len(Debug(s)) /\ pc = DebugPC(s, e)
  BY LineAnswerIs DEF LineHits, m68k_resolve_pc_line_file
<1>2. ASSUME NEW t \in placed, t.file \in Indexes
      PROVE  /\ t \in Current /\ t.start \in Nat /\ t.size \in Nat /\ t.total \in Nat /\ t.size <= t.total
             /\ t.offset = t.start - memStart /\ memStart <= t.start /\ t.start + t.total <= memEnd
             /\ t.index \in Nat /\ t.file \in Nat
  <2>1. t \in Current /\ InBudget /\ t.base = memStart
    BY <1>2 DEF AllCurrent, Current
  <2>2. /\ Of(t, files[t.file].name) /\ WellFormedFile(Img(t.file))
        /\ t.size \in Nat /\ t.total \in Nat /\ t.size <= t.total
    BY <1>2, PlacedFits DEF Shape
  <2>3. memStart <= t.start /\ t.start + t.total <= memEnd
    BY <2>1 DEF Shape, SectionsDisjoint
  <2>4. t.start \in Nat /\ t.offset = (t.start - memStart) % Word
    BY <2>1, <2>2 DEF Of
  <2>5. t.total > 0
    <3> PICK v \in Nat : v = t.size + Page
      BY <2>2, SizeAssumption
    <3>1. v > 0 /\ (Page - (v % Page)) % Page \in Nat
      BY <2>2, SizeAssumption
    <3>2. t.total = v + ((Page - (v % Page)) % Page)
      BY <2>2 DEF Of, TotalSize, alignUp
    <3> QED  BY <3>1, <3>2
  <2>6. memStart \in Nat /\ memEnd = memStart + codeSize + dataSize + bssSize
    BY SizeAssumption DEF Shape, Inv, Numbers, memEnd, bssStart, dataStart
  <2>7. t.start - memStart \in 0 .. Word - 1
    BY <2>2, <2>3, <2>4, <2>5, <2>6, SizeAssumption
  <2>8. t.offset = t.start - memStart
    BY <2>4, <2>7, SizeAssumption
  <2>9. t.index \in Nat
    BY <1>2, PlacedFits DEF Shape
  <2>10. t.file \in Nat
    BY <1>2, FilesLen DEF Indexes, Shape
  <2> QED  BY <2>1, <2>2, <2>3, <2>4, <2>8, <2>9, <2>10
<1>3. s \in Covering(s.file, pc) /\ pc \in Nat
  <2> PICK x : x = Debug(s)[e].pc
    OBVIOUS
  <2>1. SectionFits(Img(s.file), Section(s)) /\ Of(s, files[s.file].name)
    BY <1>1, PlacedFits DEF Shape
  <2>2. Section(s).type = "PROGBITS" /\ x \in 0 .. Section(s).size - 1
    BY <1>1, <2>1 DEF SectionFits, LineFits, Debug
  <2>3. s.region # "bss" /\ s.size = Section(s).size
    BY <2>1, <2>2 DEF Of, Section, SectionsOf, Img, Region
  <2>4. pc = (x + s.offset) % Word
    BY <1>1, <2>3 DEF DebugPC
  <2>5. /\ s.start \in Nat /\ s.size \in Nat /\ s.total \in Nat /\ s.size <= s.total
        /\ s.offset = s.start - memStart /\ memStart <= s.start /\ s.start + s.total <= memEnd
    BY <1>1, <1>2
  <2>6. memStart \in Nat /\ memEnd = memStart + codeSize + dataSize + bssSize
    BY SizeAssumption DEF Shape, Inv, Numbers, memEnd, bssStart, dataStart
  <2>7. x + s.offset \in 0 .. Word - 1
    BY <2>2, <2>3, <2>5, <2>6, SizeAssumption
  <2>8. pc = x + s.offset
    BY <2>4, <2>7, SizeAssumption
  <2>9. pc >= s.offset /\ pc < s.offset + s.size /\ pc \in Nat
    BY <2>2, <2>3, <2>5, <2>6, <2>8
  <2> QED  BY <1>1, <2>9 DEF Covering
<1>4. ASSUME NEW k \in Indexes, NEW t \in Covering(k, pc) PROVE t = s /\ k = s.file
  <2>1. /\ t \in placed /\ t.file = k /\ pc >= t.offset /\ pc < t.offset + t.size
        /\ pc >= s.offset /\ pc < s.offset + s.size
    BY <1>3 DEF Covering
  <2>2. /\ t.start \in Nat /\ t.size \in Nat /\ t.total \in Nat /\ t.size <= t.total
        /\ t.offset = t.start - memStart /\ t \in Current
        /\ s.start \in Nat /\ s.size \in Nat /\ s.total \in Nat /\ s.size <= s.total
        /\ s.offset = s.start - memStart /\ s \in Current
    BY <1>1, <1>2, <2>1
  <2>3. t # s => s.start + s.total <= t.start \/ t.start + t.total <= s.start
    BY <2>2 DEF Shape, SectionsDisjoint, AllCurrent
  <2>4. memStart \in Nat
    BY DEF Shape, Inv, Numbers
  <2> QED  BY <1>3, <2>1, <2>2, <2>3, <2>4
<1> PICK hits : hits = {k \in Indexes : Exports(k) # {} /\ Covering(k, pc) # {}}
  OBVIOUS
<1>5. hits = {s.file}
  BY <1>1, <1>3, <1>4
<1>6. s.file \in Nat /\ s.index \in Nat
  BY <1>1, <1>2
<1>7. (CHOOSE k \in hits : \A j \in hits : k <= j) = s.file
  BY <1>5, <1>6
<1>8. Covering(s.file, pc) = {s}
  BY <1>1, <1>3, <1>4
<1>9. (CHOOSE t \in Covering(s.file, pc) : \A u \in Covering(s.file, pc) : t.index <= u.index) = s
  BY <1>6, <1>8
<1>10. m68k_resolve_file_line(pc) = [source |-> Source(s.file), line |-> getLine(s, pc)]
  BY <1>5, <1>7, <1>9 DEF m68k_resolve_file_line
<1>11. getLine(s, pc) = 0
         \/ \E d \in 1 .. Len(Debug(s)) : DebugPC(s, d) = pc /\ getLine(s, pc) = Debug(s)[d].startLine
  <2> PICK these : these = {d \in 1 .. Len(Debug(s)) : DebugPC(s, d) = pc /\ Debug(s)[d].type = 2}
    OBVIOUS
  <2>1. CASE these = {}
    BY <2>1 DEF getLine
  <2>2. CASE these # {}
    <3>1. Len(Debug(s)) \in Nat
      BY <1>1, PlacedFits DEF SectionFits, Debug, Shape
    <3>2. these \in SUBSET Nat
      BY <3>1
    <3> PICK d \in these : \A e2 \in these : d <= e2
      BY <2>2, <3>2, LeastNat
    <3> PICK c : c = CHOOSE x \in these : \A e2 \in these : x <= e2
      OBVIOUS
    <3>3. c \in these
      OBVIOUS
    <3>4. getLine(s, pc) = Debug(s)[c].startLine
      BY <2>2 DEF getLine
    <3>5. c \in 1 .. Len(Debug(s)) /\ DebugPC(s, c) = pc
      BY <3>3
    <3> QED  BY <3>4, <3>5
  <2> QED  BY <2>1, <2>2
<1> QED  BY <1>1, <1>10, <1>11
-----------------------------------------------------------------------------
(* All of it together. *)
Strong == Inv /\ PathInv /\ Located /\ Home

LEMMA InitStrong == Init => Strong /\ Linked /\ Typed
<1> SUFFICES ASSUME Init PROVE Strong /\ Linked /\ Typed
  OBVIOUS
<1>1. Home /\ Linked
  BY DEF Init, Home, Linked
<1> QED  BY <1>1, InitInv, InitPath, InitLocated, InitTyped DEF Strong

LEMMA StrongNext == Strong /\ [Next]_vars => Strong'
  BY NextInv, PathNext, LocatedNext, HomeNext DEF Strong, PathInv

LEMMA StrongShape == Strong => Shape
  BY InvDisjoint, SharePlace DEF Strong, Shape, PathInv

LEMMA LoaderInvariant == Spec => [](Strong /\ Shape /\ Linked /\ Typed)
<1>1. Strong /\ Shape /\ Strong' /\ Shape' /\ Linked /\ Typed /\ [Next]_vars => Linked' /\ Typed'
  BY LinkedNext, TypedNext
<1> QED  BY <1>1, InitStrong, StrongNext, StrongShape, PTL DEF Spec

(* Every variable of the loader has its type, whatever object files are    *)
(* loaded, linked and looked up, and in whichever order.                   *)
THEOREM LoaderTyped == Spec => []TypeOK
  BY LoaderInvariant, TypedIs, PTL

(* While all sections are in the current memory and inside their regions,  *)
(* every word m68k_elf_link wrote is the address of a definition of the    *)
(* symbol its relocation names; no later load or link spoils it.           *)
THEOREM LinkIsSound == Spec => []LinkSound
  BY LoaderInvariant, LinkedSound, PTL

(* m68k_elf_link, run again, writes the words it wrote before.             *)
THEOREM LinkIsStable == Spec => LinkStable
<1>1. Shape /\ Linked =>
        [m68k_elf_link /\ AllCurrent => \A a \in DOMAIN mem : mem'[a] = mem[a]]_vars
  BY LinkStableStep
<1> QED  BY <1>1, LoaderInvariant, PTL DEF LinkStable

(* Of the definitions of a name, the linker and m68k_find_symbol choose    *)
(* the same, although one compares hashes and skips the file that asks.    *)
THEOREM LinkerAgrees == Spec => []LinkerAgreesWithFindSymbol
  BY LoaderInvariant, AgreesWithFindSymbol, PTL

(* A source line's address leads back to its source, and to a line entry   *)
(* at that address.                                                        *)
THEOREM LinesRoundTrip == Spec => []LineRoundTrip
  BY LoaderInvariant, RoundTrip, PTL

-----------------------------------------------------------------------------
(* The linear allocator. *)

(* Nothing handed out, and no rewind point, lies past the cursor.          *)
BlocksInv ==
  /\ AllocatorTypeOK
  /\ start <= current
  /\ \A p \in points : start <= p /\ p <= current
  /\ \A b \in blocks :
       /\ start <= b.at /\ b.at + b.size <= current
       /\ b.at % b.alignment = 0
       /\ \A c \in blocks \ {b} : Disjoint(b, c)

(* The adjustment takes a pointer to the next multiple of the alignment.   *)
LEMMA AdjustAligns ==
  ASSUME NEW ptr \in Nat, NEW alignment \in {1, 2, 4, 8, 16}
  PROVE  /\ Adjust(ptr, alignment) \in Nat
         /\ (ptr + Adjust(ptr, alignment)) % alignment = 0
<1>1. CASE alignment = 1
  BY <1>1, SMT DEF Adjust
<1>2. CASE alignment = 2
  BY <1>2, SMT DEF Adjust
<1>3. CASE alignment = 4
  BY <1>3, SMT DEF Adjust
<1>4. CASE alignment = 8
  BY <1>4, SMT DEF Adjust
<1>5. CASE alignment = 16
  BY <1>5, SMT DEF Adjust
<1>6. QED
  BY <1>1, <1>2, <1>3, <1>4, <1>5

LEMMA AllocatorInitInv == AllocatorInit => BlocksInv
BY SMT DEF AllocatorInit, BlocksInv, AllocatorTypeOK

LEMMA CreateKeepsBlocks ==
  ASSUME BlocksInv, NEW chunk \in Chunks, create(chunk)
  PROVE  BlocksInv'
BY AllocatorAssumption, SMT DEF create, BlocksInv, AllocatorTypeOK

(* Going back to the start or to a good point keeps what lies before it.   *)
LEMMA GoBackKeepsBlocks ==
  ASSUME BlocksInv, NEW p \in Nat, start <= p, GoBack(p)
  PROVE  BlocksInv'
<1>1. blocks' \subseteq blocks /\ points' \subseteq points
  BY DEF GoBack
<1>2. AllocatorTypeOK'
  <2>1. start' \in Nat /\ current' \in Nat
    BY DEF GoBack, BlocksInv, AllocatorTypeOK
  <2>2. blocks' \subseteq Block /\ points' \subseteq Nat
    BY <1>1, Zenon DEF BlocksInv, AllocatorTypeOK
  <2>3. QED
    BY <2>1, <2>2 DEF AllocatorTypeOK
<1>3. \A q \in points' : start' <= q /\ q <= current'
  BY <1>1 DEF GoBack, BlocksInv
<1>4. ASSUME NEW b \in blocks'
      PROVE  /\ start' <= b.at /\ b.at + b.size <= current'
             /\ b.at % b.alignment = 0
             /\ \A c \in blocks' \ {b} : Disjoint(b, c)
  BY <1>1, <1>4 DEF GoBack, BlocksInv
<1>5. QED
  BY <1>2, <1>3, <1>4 DEF GoBack, BlocksInv, AllocatorTypeOK

LEMMA AllocKeepsBlocks ==
  ASSUME BlocksInv, NEW size \in Sizes, NEW alignment \in Alignments,
         allocAligned(size, alignment)
  PROVE  BlocksInv'
<1> DEFINE at == current + Adjust(current, alignment)
           new == [at |-> at, size |-> size, alignment |-> alignment]
<1>1. /\ current \in Nat /\ start \in Nat /\ size \in Nat
      /\ Adjust(current, alignment) \in Nat
      /\ at % alignment = 0
  <2>1. current \in Nat /\ start \in Nat
    BY DEF BlocksInv, AllocatorTypeOK
  <2>2. size \in Nat /\ alignment \in {1, 2, 4, 8, 16}
    BY AllocatorAssumption, Zenon
  <2>3. QED
    BY <2>1, <2>2, AdjustAligns
<1>2. at \in Nat /\ current <= at
  BY <1>1, SMT
<1> HIDE DEF at
<1>3. /\ current' = at + size /\ start' = start /\ points' = points
      /\ blocks' = blocks \cup {new}
  BY DEF allocAligned, at
<1>4. new \in Block
  BY <1>1, <1>2 DEF Block
<1>5. AllocatorTypeOK'
  BY <1>1, <1>2, <1>3, <1>4, SMT DEF BlocksInv, AllocatorTypeOK
<1>6. start' <= current' /\ \A p \in points' : start' <= p /\ p <= current'
  BY <1>1, <1>2, <1>3, SMT DEF BlocksInv, AllocatorTypeOK
<1>7. ASSUME NEW b \in blocks
      PROVE  /\ b \in Block
             /\ start <= b.at /\ b.at + b.size <= at
             /\ b.at + b.size <= current'
  <2>1. b \in Block /\ start <= b.at /\ b.at + b.size <= current
    BY <1>7 DEF BlocksInv, AllocatorTypeOK
  <2>2. QED
    BY <1>1, <1>2, <1>3, <2>1, SMT DEF Block
<1>8. ASSUME NEW b \in blocks'
      PROVE  /\ start' <= b.at /\ b.at + b.size <= current'
             /\ b.at % b.alignment = 0
  <2>1. CASE b = new
    BY <1>1, <1>2, <1>3, <2>1, SMT DEF BlocksInv
  <2>2. CASE b \in blocks
    BY <1>3, <1>7, <2>2 DEF BlocksInv
  <2>3. QED
    BY <1>3, <2>1, <2>2
<1>9. ASSUME NEW b \in blocks', NEW c \in blocks' \ {b}
      PROVE  Disjoint(b, c)
  <2>1. CASE b \in blocks /\ c \in blocks
    BY <2>1 DEF BlocksInv
  <2>2. CASE b = new /\ c \in blocks
    BY <1>7, <2>2 DEF Disjoint
  <2>3. CASE c = new /\ b \in blocks
    BY <1>7, <2>3 DEF Disjoint
  <2>4. QED
    BY <1>3, <2>1, <2>2, <2>3
<1>10. QED
  BY <1>5, <1>6, <1>8, <1>9 DEF BlocksInv

LEMMA AllocatorNextInv == BlocksInv /\ [AllocatorNext]_allocatorVars => BlocksInv'
<1> SUFFICES ASSUME BlocksInv, [AllocatorNext]_allocatorVars PROVE BlocksInv'
  OBVIOUS
<1>1. CASE \E chunk \in Chunks : create(chunk)
  BY <1>1, CreateKeepsBlocks
<1>2. CASE reset
  BY <1>2, GoBackKeepsBlocks DEF reset, BlocksInv, AllocatorTypeOK
<1>3. CASE getRewindPoint
  BY <1>3, SMT DEF getRewindPoint, BlocksInv, AllocatorTypeOK, Disjoint
<1>4. CASE rewind
  BY <1>4, GoBackKeepsBlocks DEF rewind, BlocksInv, AllocatorTypeOK
<1>5. CASE \E size \in Sizes, alignment \in Alignments : allocAligned(size, alignment)
  BY <1>5, AllocKeepsBlocks
<1>6. CASE UNCHANGED allocatorVars
  BY <1>6 DEF allocatorVars, BlocksInv, AllocatorTypeOK, Disjoint
<1>7. QED
  BY <1>1, <1>2, <1>3, <1>4, <1>5, <1>6 DEF AllocatorNext

LEMMA BlocksInvSound == BlocksInv => BlocksSound
<1> SUFFICES ASSUME BlocksInv, current <= start + maxSize, NEW b \in blocks
             PROVE  /\ start <= b.at /\ b.at + b.size <= start + maxSize
                    /\ b.at % b.alignment = 0
                    /\ \A c \in blocks \ {b} : Disjoint(b, c)
  BY DEF BlocksSound
<1>1. b \in Block /\ start \in Nat /\ current \in Nat
  BY DEF BlocksInv, AllocatorTypeOK
<1>2. b.at + b.size <= start + maxSize
  BY <1>1, AllocatorAssumption, SMT DEF BlocksInv, Block
<1>3. QED
  BY <1>2 DEF BlocksInv

(* The cursor, the blocks and the rewind points are of their types.        *)
THEOREM AllocatorTypes == AllocatorSpec => []AllocatorTypeOK
<1>1. BlocksInv => AllocatorTypeOK
  BY DEF BlocksInv
<1>2. QED
  BY AllocatorInitInv, AllocatorNextInv, <1>1, PTL DEF AllocatorSpec

(* Blocks are aligned, inside the memory and disjoint as long as they fit. *)
THEOREM AllocatorSound == AllocatorSpec => []BlocksSound
<1>1. QED
  BY AllocatorInitInv, AllocatorNextInv, BlocksInvSound, PTL DEF AllocatorSpec
=============================================================================
