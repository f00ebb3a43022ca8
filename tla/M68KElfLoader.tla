--------------------------- MODULE M68KElfLoader ---------------------------
(***************************************************************************)
(* musashi_addon/src/m68k_elf_loader.c: object files are read, their       *)
(* sections placed in the code, data and bss regions of the 68k memory,    *)
(* and their relocations written there by m68k_elf_link; addresses are     *)
(* mapped to source lines and back for the debugger.                       *)
(*                                                                         *)
(* An object file is the record its parsed headers amount to, byte order   *)
(* and layout aside.  Pointers into 68k memory are numbers; an address the *)
(* 68k sees is the distance from memStart, modulo Word.                    *)
(***************************************************************************)
EXTENDS Integers, Sequences, FiniteSets

CONSTANTS
  FileNames, Images, \* Images[f]: what is found under the name f
  Hash,              \* quickHash, as a function on symbol names
  NoPath, NoSource,  \* a path, a source file name, that is a null pointer
  Arenas,            \* addresses malloc may return for the 68k memory
  codeSize, dataSize, bssSize,
  Page,              \* 4096: sections are padded to a multiple of it
  Word, Half,        \* 2^32 and 2^16
  MaxFiles           \* length of progInfo.files (512)

ASSUME SizeAssumption ==
  /\ Page \in Nat \ {0} /\ Word \in Nat \ {0} /\ Half \in Nat \ {0} /\ Word % Half = 0
  /\ codeSize \in Nat /\ dataSize \in Nat /\ bssSize \in Nat
  /\ codeSize + dataSize + bssSize <= Word
  /\ Arenas \subseteq Nat \ {0}
  /\ MaxFiles \in Nat

(***************************************************************************)
(* Section headers are numbered from 1, so that shndx 0 is an undefined    *)
(* symbol.  A section of another type than PROGBITS and NOBITS is not      *)
(* placed.  dataName: its name is part of the word "data" (strstr is given *)
(* the two the wrong way round, so ".data" is not).  rel, rela, dbg: the   *)
(* contents of the section's .rel, .rela and .dbg companions.              *)
(***************************************************************************)
Placeable(section) == section.type \in {"PROGBITS", "NOBITS"}
Exported(symbol) == symbol.global /\ symbol.shndx > 0

(* What an ELF file promises.  Relocations and line entries stay inside    *)
(* their section; sections without contents have no lines; a symbol that   *)
(* is global or relocated against is undefined or in a section with        *)
(* contents or room; no two global symbols have one name.                  *)
RelocationFits(image, section, rela) ==
  /\ rela.offset \in 0 .. section.size - 1 /\ rela.addend \in Int
  /\ rela.symbol \in 1 .. Len(image.symbols)

LineFits(section, line) ==
  /\ section.type = "PROGBITS"
  /\ line.pc \in 0 .. section.size - 1 /\ line.startLine \in Nat /\ line.endLine \in Nat

SectionFits(image, section) ==
  /\ section.size \in Nat /\ Len(section.rela) \in Nat /\ Len(section.dbg) \in Nat
  /\ \A n \in 1 .. Len(section.rela) : RelocationFits(image, section, section.rela[n])
  /\ \A d \in 1 .. Len(section.dbg) : LineFits(section, section.dbg[d])

Relocated(image, j) ==
  \E i \in 1 .. Len(image.sections) : \E n \in 1 .. Len(image.sections[i].rela) :
    image.sections[i].rela[n].symbol = j

SymbolFits(image, symbol) ==
  /\ symbol.shndx \in 0 .. Len(image.sections) /\ symbol.value \in Nat
  /\ symbol.name \in DOMAIN Hash
  /\ symbol.shndx > 0 => Placeable(image.sections[symbol.shndx])

WellFormedFile(image) ==
  /\ Len(image.sections) \in Nat /\ Len(image.symbols) \in Nat
  /\ \A i \in 1 .. Len(image.sections) : SectionFits(image, image.sections[i])
  /\ \A j \in 1 .. Len(image.symbols) :
       image.symbols[j].global \/ Relocated(image, j) => SymbolFits(image, image.symbols[j])
  /\ \A i, j \in 1 .. Len(image.symbols) :
       image.symbols[i].global /\ image.symbols[j].global
         /\ image.symbols[i].name = image.symbols[j].name => i = j

ASSUME ImageAssumption ==
  /\ NoPath \notin FileNames
  /\ \A f \in FileNames : Images[f].kind \in {"elf", "missing", "other machine"}
  /\ \A f \in FileNames : Images[f].kind = "elf" => WellFormedFile(Images[f])

VARIABLES
  code, data, bss, \* g_prog: where the next section of each region goes
  memStart,        \* g_prog.memStart; 0 before m68k_code_init
  used,            \* arenas handed out; none is ever freed
  files,           \* g_progInfo.files[0 .. fileCount - 1]
  placed,          \* the sections that have a target
  mem,             \* the words relocation has written, by address
  phase,           \* "idle", inside a load, or how the program ended
  loading, next,   \* inside a load: the file, and its next section
  ret              \* what m68k_elf_load returned last

region == <<code, data, bss>>
vars == <<region, memStart, used, files, placed, mem, phase, loading, next, ret>>

Init ==
  /\ code = 0 /\ data = 0 /\ bss = 0 /\ memStart = 0 /\ used = {}
  /\ files = <<>> /\ placed = {} /\ mem = <<>>
  /\ phase = "idle" /\ loading = NoPath /\ next = 1 /\ ret = 0

-----------------------------------------------------------------------------
Img(k) == Images[files[k].name]
Path(k) == IF files[k].valid THEN files[k].name ELSE NoPath
Source(k) == IF files[k].valid THEN Img(k).source ELSE NoSource
Indexes == 1 .. Len(files)

(* The first pair, of files first. *)
First(S) == CHOOSE p \in S : \A q \in S : p[1] < q[1] \/ (p[1] = q[1] /\ p[2] <= q[2])

alignUp(value) == value + ((Page - (value % Page)) % Page)

(* Slips: the two pointers swapped; the start forgotten. *)
getOffset_swapped(address) == memStart - address
getOffset_absolute(address) == address % Word
getOffset(address) == (address - memStart) % Word

(***************************************************************************)
(* m68k_code_init: new memory and empty regions; what is known of the      *)
(* files stays.                                                            *)
(***************************************************************************)
m68k_code_init(memory) ==
  /\ phase = "idle"
  /\ memory \notin used
  /\ used' = used \cup {memory}
  /\ memStart' = memory
  /\ code' = memory
  /\ data' = memory + codeSize
  /\ bss' = memory + codeSize + dataSize
  /\ UNCHANGED <<files, placed, mem, phase, loading, next, ret>>

-----------------------------------------------------------------------------
(* m68k_elf_load compares the name with the path of each file in turn.  A  *)
(* file whose loading failed has none, and comparing with it crashes.      *)
Same_lastOnly(f) == {k \in Indexes : k = Len(files) /\ Path(k) = f}
Same(f) == {k \in Indexes : Path(k) = f}
Pathless == {k \in Indexes : Path(k) = NoPath}
Crashes(f) == \E k \in Pathless : \A j \in Same(f) : k < j

LoadCrashes(f) ==
  /\ Crashes(f)
  /\ phase' = "crashed"
  /\ UNCHANGED <<region, memStart, used, files, placed, mem, loading, next, ret>>

AlreadyLoaded(f) ==
  /\ ~Crashes(f)
  /\ Same(f) # {}
  /\ ret' = -1
  /\ UNCHANGED <<region, memStart, used, files, placed, mem, phase, loading, next>>

(* The end of m68k_elf_load.  The entry is stored before the count is      *)
(* compared with the length of the array: one too many overwrites what     *)
(* follows it, fileCount itself.                                           *)
Register(f, valid) ==
  IF Len(files) < MaxFiles
  THEN files' = Append(files, [name |-> f, valid |-> valid]) /\ phase' = "idle" /\ ret' = 0
  ELSE phase' = "corrupted" /\ UNCHANGED <<files, ret>>

(* load_file returns 0 for a file it cannot open and for one of another    *)
(* machine too, and the empty M68KFile is kept like any other.             *)
LoadFails(f) ==
  /\ ~Crashes(f) /\ Same(f) = {}
  /\ Images[f].kind # "elf"
  /\ Register(f, FALSE)
  /\ UNCHANGED <<region, memStart, used, placed, mem, loading, next>>

StartLoad(f) ==
  /\ ~Crashes(f) /\ Same(f) = {}
  /\ Images[f].kind = "elf"
  /\ phase' = "allocating"
  /\ loading' = f
  /\ next' = 1
  /\ UNCHANGED <<region, memStart, used, files, placed, mem, ret>>

m68k_elf_load(f) ==
  /\ phase = "idle"
  /\ memStart # 0
  /\ LoadCrashes(f) \/ AlreadyLoaded(f) \/ LoadFails(f) \/ StartLoad(f)

(* One iteration of the loop in allocateSections: the section is placed at *)
(* the cursor of its region, which moves past it unchecked; copying the    *)
(* contents and clearing the padding wipes what had been written there.    *)
TotalSize(size) == alignUp(size + Page)

Region(s) == IF s.type = "NOBITS" THEN "bss"
             ELSE IF s.dataName THEN "data" ELSE "code"

Cursor(r) == CASE r = "code" -> code [] r = "data" -> data [] r = "bss" -> bss

(* Slips: the bss cursor stays; the padding is not counted. *)
Advance_notBss(r, size) ==
  /\ code' = IF r = "code" THEN code + size ELSE code
  /\ data' = IF r = "data" THEN data + size ELSE data
  /\ UNCHANGED bss

Advance_unpadded(r, size) ==
  /\ code' = IF r = "code" THEN code + size - Page ELSE code
  /\ data' = IF r = "data" THEN data + size - Page ELSE data
  /\ bss' = IF r = "bss" THEN bss + size - Page ELSE bss

Advance(r, size) ==
  /\ code' = IF r = "code" THEN code + size ELSE code
  /\ data' = IF r = "data" THEN data + size ELSE data
  /\ bss' = IF r = "bss" THEN bss + size ELSE bss

AllocateSection ==
  LET s == Images[loading].sections[next]
      start == Cursor(Region(s))
      total == TotalSize(s.size)
  IN /\ phase = "allocating"
     /\ next <= Len(Images[loading].sections)
     /\ Placeable(s)
     /\ placed' = placed \cup
          {[file |-> Len(files) + 1, index |-> next, region |-> Region(s), base |-> memStart,
            start |-> start, offset |-> getOffset(start), size |-> s.size, total |-> total]}
     /\ mem' = [a \in {x \in DOMAIN mem : x \notin start .. start + total - 1} |-> mem[a]]
     /\ Advance(Region(s), total)
     /\ next' = next + 1
     /\ UNCHANGED <<memStart, used, files, phase, loading, ret>>

SkipSection ==
  /\ phase = "allocating"
  /\ next <= Len(Images[loading].sections)
  /\ ~Placeable(Images[loading].sections[next])
  /\ next' = next + 1
  /\ UNCHANGED <<region, memStart, used, files, placed, mem, phase, loading, ret>>

FinishLoad ==
  /\ phase = "allocating"
  /\ next > Len(Images[loading].sections)
  /\ Register(loading, TRUE)
  /\ loading' = NoPath
  /\ next' = 1
  /\ UNCHANGED <<region, memStart, used, placed, mem>>

-----------------------------------------------------------------------------
(* setupExportNames: the global symbols the file defines, by their places  *)
(* in its symbol table, whose order they keep.                             *)
Exports(k) ==
  IF files[k].valid THEN {j \in 1 .. Len(Img(k).symbols) : Exported(Img(k).symbols[j])} ELSE {}

Place(k, i) == CHOOSE s \in placed : s.file = k /\ s.index = i
Target(k, symbol) == Place(k, symbol.shndx).start + symbol.value

(* resolveSymbolAddress: names are compared by their hashes alone, and the *)
(* first file that is not the symbol's own decides.                        *)
AllExports == UNION {{k} \X Exports(k) : k \in Indexes}
Export(p) == Img(p[1]).symbols[p[2]]
ExportTarget(p) == Target(p[1], Export(p))

Matching(k, symbol) ==
  {p \in AllExports : p[1] # k /\ Hash[Export(p).name] = Hash[symbol.name]}

Unresolved == -1

(* Slip: the last file decides. *)
resolveSymbolAddress_last(k, symbol) ==
  IF symbol.shndx > 0 THEN Target(k, symbol)
  ELSE IF symbol.shndx = 0 /\ symbol.global /\ Matching(k, symbol) # {}
  THEN ExportTarget(CHOOSE p \in Matching(k, symbol) :
                      \A q \in Matching(k, symbol) : q[1] <= p[1])
  ELSE Unresolved

resolveSymbolAddress(k, symbol) ==
  IF symbol.shndx > 0 THEN Target(k, symbol)
  ELSE IF symbol.shndx = 0 /\ symbol.global /\ Matching(k, symbol) # {}
  THEN ExportTarget(First(Matching(k, symbol)))
  ELSE Unresolved

(* The relocations m68k_elf_link applies: those of every placed section    *)
(* but one that has a .rel companion, which it passes over.                *)
Section(s) == Img(s.file).sections[s.index]
Relocations ==
  UNION {{[section |-> s, rela |-> Section(s).rela[n], n |-> n] : n \in 1 .. Len(Section(s).rela)} :
           s \in {t \in placed : t.file \in Indexes /\ ~Section(t).rel}}

(* Where a relocation is applied.  Slip: in the memory the 68k has now.     *)
Where_now(r) == memStart + r.section.offset + r.rela.offset
Where(r) == r.section.start + r.rela.offset
Symbol(r) == Img(r.section.file).symbols[r.rela.symbol]
Fails(r) ==
  \/ r.rela.type \notin {"R_68K_32", "R_68K_16"}
  \/ resolveSymbolAddress(r.section.file, Symbol(r)) = Unresolved

Width(r) == IF r.rela.type = "R_68K_32" THEN Word ELSE Half
Written(r) ==
  (getOffset(resolveSymbolAddress(r.section.file, Symbol(r))) + r.rela.addend) % Width(r)

(* Of relocations of one place, the one applied last. *)
After(r, q) ==
  LET f == r.section.file    g == q.section.file
      i == r.section.index   j == q.section.index
  IN f > g \/ (f = g /\ i > j) \/ (f = g /\ i = j /\ r.n >= q.n)

m68k_elf_link ==
  /\ phase = "idle"
  /\ IF \E r \in Relocations : Fails(r)
     THEN phase' = "exited" /\ UNCHANGED mem
     ELSE /\ mem' = [a \in DOMAIN mem \cup {Where(r) : r \in Relocations} |->
                       LET at == {r \in Relocations : Where(r) = a}
                       IN IF at = {} THEN mem[a]
                          ELSE Written(CHOOSE r \in at : \A q \in at : After(r, q))]
          /\ UNCHANGED phase
  /\ UNCHANGED <<region, memStart, used, files, placed, loading, next, ret>>

-----------------------------------------------------------------------------
(* m68k_find_symbol: the first export with the hash and the name; the      *)
(* pointer itself is returned.                                             *)
m68k_find_symbol(name) ==
  LET found == {p \in AllExports : Export(p).name = name}
  IN IF found = {} THEN -1 ELSE ExportTarget(First(found)) % Word

(* The entries of a section's debug information; allocateSections has made *)
(* their pcs addresses, but not those of a bss section.                    *)
Debug(s) == Section(s).dbg

(* Slip: the pcs are left relative to the section. *)
DebugPC_relative(s, d) == Debug(s)[d].pc
DebugPC(s, d) ==
  IF s.region = "bss" THEN Debug(s)[d].pc ELSE (Debug(s)[d].pc + s.offset) % Word

(* findSectionForPC.                                                       *)
Covering(k, pc) ==
  {s \in placed : s.file = k /\ pc >= s.offset /\ pc < s.offset + s.size}

NotFound == [source |-> NoSource, line |-> -1]

getLine(s, pc) ==
  LET hits == {d \in 1 .. Len(Debug(s)) : DebugPC(s, d) = pc /\ Debug(s)[d].type = 2}
  IN IF hits = {} THEN 0
     ELSE Debug(s)[CHOOSE d \in hits : \A e \in hits : d <= e].startLine

(* m68k_resolve_file_line: the first file with an export and a section     *)
(* around pc.                                                              *)
m68k_resolve_file_line(pc) ==
  LET hits == {k \in Indexes : Exports(k) # {} /\ Covering(k, pc) # {}}
      k == CHOOSE k \in hits : \A j \in hits : k <= j
      s == CHOOSE s \in Covering(k, pc) : \A t \in Covering(k, pc) : s.index <= t.index
  IN IF hits = {} THEN NotFound ELSE [source |-> Source(k), line |-> getLine(s, pc)]

(* m68k_resolve_pc_line_file compares source names in file order: a file   *)
(* without one, before the one that answers, crashes it.                   *)
LineHits(source, line) ==
  UNION {{s} \X {d \in 1 .. Len(Debug(s)) :
                   Debug(s)[d].startLine <= line /\ line < Debug(s)[d].endLine} :
           s \in {t \in placed : t.file \in Indexes /\ Source(t.file) = source}}

LineCrashes(source, line) ==
  \E k \in Indexes : Source(k) = NoSource /\ \A h \in LineHits(source, line) : k < h[1].file

LineAnswer(source, line) ==
  CHOOSE h \in LineHits(source, line) : \A g \in LineHits(source, line) :
    \/ h[1].file < g[1].file
    \/ h[1].file = g[1].file /\ h[1].index < g[1].index
    \/ h[1].file = g[1].file /\ h[1].index = g[1].index /\ h[2] <= g[2]

m68k_resolve_pc_line_file(source, line) ==
  LET h == LineAnswer(source, line)
  IN IF LineHits(source, line) = {} THEN -1 ELSE DebugPC(h[1], h[2])

Lines == UNION {UNION {{Images[f].sections[i].dbg[d].startLine :
                          d \in 1 .. Len(Images[f].sections[i].dbg)} :
                       i \in 1 .. Len(Images[f].sections)} :
                 f \in {g \in FileNames : Images[g].kind = "elf"}}
Sources == {Images[f].source : f \in {g \in FileNames : Images[g].kind = "elf"}} \ {NoSource}

(* Looking a line up changes nothing, unless it ends the program. *)
LookupCrashes(source, line) ==
  /\ phase = "idle"
  /\ LineCrashes(source, line)
  /\ phase' = "crashed"
  /\ UNCHANGED <<region, memStart, used, files, placed, mem, loading, next, ret>>

Next ==
  \/ \E m \in Arenas : m68k_code_init(m)
  \/ \E f \in FileNames : m68k_elf_load(f)
  \/ AllocateSection \/ SkipSection \/ FinishLoad
  \/ m68k_elf_link
  \/ \E source \in Sources, line \in Lines : LookupCrashes(source, line)

Spec == Init /\ [][Next]_vars

-----------------------------------------------------------------------------
SectionRecord ==
  [file : Nat \ {0}, index : Nat \ {0}, region : {"code", "data", "bss"},
   base : Arenas, start : Nat, offset : 0 .. Word - 1, size : Nat, total : Nat]

TypeOK ==
  /\ code \in Nat /\ data \in Nat /\ bss \in Nat
  /\ memStart \in Arenas \cup {0}
  /\ used \subseteq Arenas
  /\ \A k \in Indexes : files[k] \in [name : FileNames, valid : BOOLEAN]
  /\ placed \subseteq SectionRecord
  /\ \A a \in DOMAIN mem : mem[a] \in Nat
  /\ phase \in {"idle", "allocating", "exited", "crashed", "corrupted"}
  /\ ret \in {0, -1}

dataStart == memStart + codeSize
bssStart == dataStart + dataSize
memEnd == bssStart + bssSize

(* "todo: verify so we don't run of of space here": nothing does, and what *)
(* follows is promised only while no cursor has left its region.           *)
InBudget == code <= dataStart /\ data <= bssStart /\ bss <= memEnd

Current == {s \in placed : s.base = memStart}

(* Sections placed in the current memory lie inside it and never overlap,  *)
(* of whichever files and in whichever order the files were loaded.        *)
SectionsDisjoint ==
  InBudget =>
    \A s \in Current :
      /\ memStart <= s.start /\ s.start + s.total <= memEnd
      /\ \A t \in Current \ {s} :
           s.start + s.total <= t.start \/ t.start + t.total <= s.start

(* No file is registered under a path already taken.                       *)
UniquePaths ==
  \A j, k \in Indexes : Path(j) # NoPath /\ Path(j) = Path(k) => j = k

NoCollision == \A m, n \in DOMAIN Hash : Hash[m] = Hash[n] => m = n
AllCurrent == InBudget /\ placed = Current

(* Where the definitions of a relocation's symbol are, by name.            *)
Definitions(r) ==
  IF Symbol(r).shndx > 0 THEN {Target(r.section.file, Symbol(r))}
  ELSE {ExportTarget(p) : p \in {q \in AllExports : Export(q).name = Symbol(r).name}}

(* Every word relocation has written in the current memory is, to its      *)
(* width, the 68k address of a definition of the symbol it is for; loading *)
(* further files never spoils it.                                          *)
LinkSound ==
  NoCollision /\ AllCurrent =>
    \A a \in DOMAIN mem :
      \E r \in Relocations :
        /\ Where(r) = a
        /\ \E t \in Definitions(r) : mem[a] = (t - memStart + r.rela.addend) % Width(r)

(* Linking again, after more files were loaded or not, changes no word     *)
(* written before, even if a later file defines a name once more.          *)
LinkStable ==
  [][ m68k_elf_link /\ AllCurrent => \A a \in DOMAIN mem : mem'[a] = mem[a] ]_vars

(* The linker, which compares hashes and skips the file that asks, and     *)
(* m68k_find_symbol find the same definition of an undefined symbol.       *)
LinkerAgreesWithFindSymbol ==
  NoCollision /\ phase = "idle" =>
    \A r \in Relocations :
      Symbol(r).shndx = 0 /\ ~Fails(r) =>
        m68k_find_symbol(Symbol(r).name)
          = resolveSymbolAddress(r.section.file, Symbol(r)) % Word

(* The address a source line resolves to resolves back to its source file, *)
(* and to a line that begins at that address (or to none), if the file     *)
(* that answered exports anything.                                         *)
LineRoundTrip ==
  AllCurrent /\ phase = "idle" =>
    \A source \in Sources, line \in Lines :
      LET s == LineAnswer(source, line)[1]
          pc == m68k_resolve_pc_line_file(source, line)
      IN LineHits(source, line) # {} /\ Exports(s.file) # {} =>
           /\ m68k_resolve_file_line(pc).source = source
           /\ m68k_resolve_file_line(pc).line = 0
                \/ \E d \in 1 .. Len(Debug(s)) :
                     /\ DebugPC(s, d) = pc
                     /\ m68k_resolve_file_line(pc).line = Debug(s)[d].startLine

-----------------------------------------------------------------------------
(* m68k_elf_loader.h: a file that has already been loaded is replaced.     *)
ReloadReplaces ==
  [][ \A f \in FileNames : m68k_elf_load(f) /\ Same(f) # {} => ret' # -1 ]_vars

(* m68k_elf_loader.h: m68k_find_symbol finds the pc for a function.        *)
FindSymbolIsPC ==
  \A p \in AllExports :
    \E q \in AllExports :
      /\ Export(q).name = Export(p).name
      /\ m68k_find_symbol(Export(p).name) = getOffset(ExportTarget(q))

(* m68k_elf_load: loading one file too many is reported, nothing worse.    *)
LimitReported == phase # "corrupted"
=============================================================================
