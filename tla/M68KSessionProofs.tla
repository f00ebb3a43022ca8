------------------------- MODULE M68KSessionProofs -------------------------
(***************************************************************************)
(* Proofs about createInstance and the breakpoints set from it, for any    *)
(* programs and memories that do not overlap.  Every step of a session is  *)
(* a step of the loader or leaves it alone, so what M68KElfLoaderProofs    *)
(* shows of the loader holds in a session.                                 *)
(***************************************************************************)
EXTENDS M68KSession, M68KElfLoaderProofs

LEMMA SessionStep == [SessionNext]_sessionVars /\ program \in FileNames => [Next]_vars
<1> SUFFICES ASSUME [SessionNext]_sessionVars, program \in FileNames PROVE [Next]_vars
  OBVIOUS
<1>1. CASE m68k_debugger_init
  BY <1>1
  DEF m68k_debugger_init, CodeInit, PushReturnAddress, LoadTestElf, CopySection, PassSection,
      LoadingDone, Link, Next
<1>2. CASE destroyInstance
  BY <1>2 DEF destroyInstance
<1>3. CASE SetBreakpoint
  BY <1>3 DEF SetBreakpoint, setBreakpoint
<1>4. CASE UNCHANGED sessionVars
  BY <1>4 DEF sessionVars
<1> QED  BY <1>1, <1>2, <1>3, <1>4 DEF SessionNext

Known == program \in Programs

LEMMA LoaderInSession ==
  SessionSpec => [](Strong /\ Shape /\ Linked /\ Typed /\ Known)
<1>1. SessionInit => Init /\ Known
  BY DEF SessionInit, Known
<1>2. Known /\ [SessionNext]_sessionVars => Known'
  BY DEF SessionNext, sessionVars, Known
<1>3. Known /\ [SessionNext]_sessionVars => [Next]_vars
  BY SessionStep, SessionAssumption DEF Known
<1>4. Strong /\ Shape /\ Strong' /\ Shape' /\ Linked /\ Typed /\ [Next]_vars => Linked' /\ Typed'
  BY LinkedNext, TypedNext
<1> QED  BY <1>1, <1>2, <1>3, <1>4, InitStrong, StrongNext, StrongShape, PTL DEF SessionSpec

(* Linking writes into the sections of the programs and nowhere else.      *)
THEOREM RelocationsAreHome == SessionSpec => []RelocationsStayHome
<1>1. Strong => RelocationsStayHome
  BY DEF Strong, Home, RelocationsStayHome
<1> QED  BY <1>1, LoaderInSession, PTL
-----------------------------------------------------------------------------
(* The return address. *)
Below == StayedInside /\ code <= memStart + StackTop - 4

ReturnInv ==
  /\ stage # "none" => memStart # 0
  /\ stage \in {"load", "loading", "link", "ready"} /\ Below => returnSlot = "zero"

(* Nothing is placed, and nothing written, where the return address is. *)
StackFree == \A s \in placed : \A a \in s.start .. s.start + s.total - 1 : a \notin ReturnBytes

HasMemory == memStart # 0

LEMMA StackUntouched == Strong /\ HasMemory /\ Below => StackFree
<1> SUFFICES ASSUME Strong, memStart # 0, Below, NEW s \in placed,
                    NEW a \in s.start .. s.start + s.total - 1
             PROVE  a \notin ReturnBytes
  BY DEF StackFree, HasMemory
<1>1. /\ memStart \in Nat /\ memStart \in Arenas /\ StackTop \in 4 .. codeSize
      /\ codeSize \in Nat /\ dataSize \in Nat /\ bssSize \in Nat /\ code \in Nat
      /\ dataStart = memStart + codeSize /\ bssStart = dataStart + dataSize
  BY SizeAssumption, SessionAssumption DEF Strong, Inv, Numbers, dataStart, bssStart
<1>2. /\ s.base \in Arenas /\ s.region \in {"code", "data", "bss"}
      /\ s.start \in Nat /\ s.total \in Nat /\ s.base <= s.start
  BY DEF Strong, Inv, Placed
<1>3. s.base \in Nat
  BY <1>2, SizeAssumption
<1>4. CASE s.base = memStart
  <2>1. Low(s.region) <= s.start /\ s.start + s.total <= Cursor(s.region)
    BY <1>4 DEF Strong, Inv, Placed
  <2>2. CASE s.region = "code"
    BY <1>1, <1>2, <2>1, <2>2 DEF Below, Cursor, ReturnBytes
  <2>3. CASE s.region # "code"
    <3>1. memStart + codeSize <= s.start
      BY <1>1, <1>2, <2>1, <2>3 DEF Low
    <3> QED  BY <1>1, <1>2, <3>1 DEF ReturnBytes
  <2> QED  BY <2>2, <2>3
<1>5. CASE s.base # memStart
  <2>1. s.start + s.total <= s.base + codeSize + dataSize + bssSize
    BY <1>5 DEF Below, StayedInside, Current
  <2>2. \/ s.base + codeSize + dataSize + bssSize <= memStart
        \/ memStart + codeSize + dataSize + bssSize <= s.base
    BY <1>1, <1>2, <1>3, <1>5, SessionAssumption
  <2> QED  BY <1>1, <1>2, <1>3, <2>1, <2>2 DEF ReturnBytes
<1> QED  BY <1>4, <1>5

LEMMA ReturnNext ==
  ASSUME Strong, Strong', ReturnInv, [SessionNext]_sessionVars
  PROVE  ReturnInv'
<1>1. ASSUME NEW m \in Arenas, CodeInit(m) PROVE ReturnInv'
  BY <1>1, SizeAssumption DEF CodeInit, m68k_code_init, ReturnInv
<1>2. CASE PushReturnAddress
  BY <1>2 DEF PushReturnAddress, vars, ReturnInv
<1>3. CASE LoadTestElf
  <2>1. UNCHANGED <<region, memStart, placed, returnSlot>>
    BY <1>3 DEF LoadTestElf, m68k_elf_load, LoadCrashes, AlreadyLoaded, LoadFails, StartLoad
  <2>2. Below' => Below
    BY <2>1 DEF Below, StayedInside, Current, region
  <2> QED  BY <1>3, <2>1, <2>2 DEF LoadTestElf, ReturnInv
<1>4. CASE CopySection
  <2>1. AllocateSection /\ stage = "loading" /\ UNCHANGED <<stage, memStart>>
    BY <1>4 DEF CopySection, AllocateSection
  <2>2. Below' => Below
    <3> PICK r, total : Advance(r, total) /\ \E s \in placed' : s.total = total
      BY <2>1 DEF AllocateSection
    <3>1. total \in Nat /\ code \in Nat /\ memStart \in Nat /\ StackTop \in Nat
      BY SessionAssumption, SizeAssumption DEF Strong, Inv, Placed, Numbers
    <3>2. code <= code' /\ code' \in Nat
      BY <3>1 DEF Advance
    <3>3. placed \subseteq placed'
      BY <2>1 DEF AllocateSection
    <3> QED  BY <2>1, <3>1, <3>2, <3>3 DEF Below, StayedInside, Current
  <2> SUFFICES ASSUME Below' PROVE returnSlot' = "zero"
    BY <2>1 DEF ReturnInv
  <2>3. returnSlot = "zero" /\ memStart # 0
    BY <2>1, <2>2 DEF ReturnInv
  <2>4. ASSUME NEW s \in placed' PROVE s.start .. s.start + s.total - 1 \cap ReturnBytes = {}
    <3>1. HasMemory'
      BY <2>1, <2>3 DEF HasMemory
    <3>2. StackFree'
      BY <3>1, StackUntouched, PTL
    <3> QED  BY <2>1, <3>2 DEF StackFree, ReturnBytes
  <2> QED  BY <1>4, <2>3, <2>4 DEF CopySection
<1>5. CASE PassSection \/ LoadingDone
  <2>1. UNCHANGED <<region, memStart, placed, returnSlot>> /\ stage = "loading"
    BY <1>5 DEF PassSection, LoadingDone, SkipSection, FinishLoad
  <2>2. Below' => Below
    BY <2>1 DEF Below, StayedInside, Current, region
  <2> QED  BY <2>1, <2>2 DEF ReturnInv
<1>6. CASE Link
  <2>1. m68k_elf_link /\ stage = "link" /\ UNCHANGED <<region, memStart, placed>>
    BY <1>6 DEF Link, m68k_elf_link
  <2>2. Below' => Below
    BY <2>1 DEF Below, StayedInside, Current, region
  <2> SUFFICES ASSUME Below' PROVE returnSlot' = "zero"
    BY <2>1 DEF ReturnInv
  <2>3. returnSlot = "zero" /\ memStart # 0
    BY <2>1, <2>2 DEF ReturnInv
  <2>4. DOMAIN mem' \cap ReturnBytes = {}
    <3>1. StackFree
      BY <2>2, <2>3, StackUntouched DEF HasMemory
    <3> QED  BY <2>1, <3>1 DEF Strong, Home, StackFree
  <2> QED  BY <1>6, <2>3, <2>4 DEF Link
<1>7. CASE destroyInstance
  BY <1>7 DEF destroyInstance, ReturnInv
<1>8. CASE SetBreakpoint \/ UNCHANGED sessionVars
  <2>1. UNCHANGED <<region, memStart, placed, returnSlot, stage>>
    BY <1>8 DEF SetBreakpoint, setBreakpoint, sessionVars, vars
  <2>2. Below' => Below
    BY <2>1 DEF Below, StayedInside, Current, region
  <2> QED  BY <2>1, <2>2 DEF ReturnInv
<1> QED  BY <1>1, <1>2, <1>3, <1>4, <1>5, <1>6, <1>7, <1>8 DEF SessionNext, m68k_debugger_init

(* When the program starts, the return address m68k_debugger_init pushed   *)
(* is still there, if the program ends below the stack.                    *)
THEOREM ReturnAddressSurvives == SessionSpec => []ReturnAddressKept
<1>1. SessionInit => ReturnInv
  BY DEF SessionInit, ReturnInv
<1>2. ReturnInv => ReturnAddressKept
  BY DEF ReturnInv, ReturnAddressKept, Below
<1> QED  BY <1>1, <1>2, ReturnNext, LoaderInSession, PTL DEF SessionSpec
-----------------------------------------------------------------------------
(* Breakpoints.  Files and sections only grow, so a breakpoint that is in  *)
(* a program stays there.                                                  *)
LEMMA GrownNext ==
  ASSUME Inv, FilesTyped, [Next]_vars
  PROVE  Grown
<1>1. CASE UNCHANGED files /\ placed \subseteq placed'
  BY <1>1, FilesLen DEF Grown
<1>2. ASSUME NEW f \in FileNames, NEW valid \in BOOLEAN, Register(f, valid), UNCHANGED placed PROVE Grown
  BY <1>2, RegisterGrows
<1>3. ASSUME NEW f \in FileNames, m68k_elf_load(f) PROVE Grown
  BY <1>1, <1>2, <1>3 DEF m68k_elf_load, LoadCrashes, AlreadyLoaded, LoadFails, StartLoad
<1>4. CASE FinishLoad
  <2>1. loading \in FileNames
    BY <1>4 DEF Inv, Loading, FinishLoad
  <2> QED  BY <1>2, <1>4, <2>1 DEF FinishLoad
<1>5. CASE AllocateSection
  BY <1>1, <1>5 DEF AllocateSection
<1> QED
  BY <1>1, <1>3, <1>4, <1>5 DEF Next, m68k_code_init, SkipSection, m68k_elf_link, LookupCrashes, vars

InProgram(b) ==
  \E s \in placed :
    /\ s.file \in Indexes /\ Source(s.file) = b.loc[1]
    /\ (b.pc - s.offset) % Word < s.total
    /\ \E d \in 1 .. Len(Debug(s)) :
         Debug(s)[d].startLine <= b.loc[2] /\ b.loc[2] < Debug(s)[d].endLine

BreakpointInv ==
  /\ DOMAIN s_breakpoints = Table!Slots
  /\ s_breakpointCount \in Nat
  /\ \A i \in 0 .. s_breakpointCount - 1 : InProgram(s_breakpoints[i])

LEMMA InProgramStays ==
  ASSUME Grown, NEW b, InProgram(b)
  PROVE  InProgram(b)'
<1> PICK s \in placed :
      /\ s.file \in Indexes /\ Source(s.file) = b.loc[1]
      /\ (b.pc - s.offset) % Word < s.total
      /\ \E d \in 1 .. Len(Debug(s)) :
           Debug(s)[d].startLine <= b.loc[2] /\ b.loc[2] < Debug(s)[d].endLine
  BY DEF InProgram
<1>1. s \in placed' /\ s.file \in Indexes' /\ files'[s.file] = files[s.file]
  BY DEF Grown, Indexes
<1>2. Source(s.file)' = Source(s.file) /\ Debug(s)' = Debug(s)
  BY <1>1 DEF Source, Img, Debug, Section
<1> QED  BY <1>1, <1>2 DEF InProgram

LEMMA FoundInProgram ==
  ASSUME Shape, NEW source, NEW line, LineHits(source, line) # {}, NEW b,
         b.loc = <<source, line>>, b.pc = m68k_resolve_pc_line_file(source, line)
  PROVE  InProgram(b)
<1> PICK s, d : s = LineAnswer(source, line)[1] /\ d = LineAnswer(source, line)[2]
  OBVIOUS
<1>1. /\ s \in placed /\ s.file \in Indexes /\ Source(s.file) = source
      /\ d \in 1 .. Len(Debug(s)) /\ Debug(s)[d].startLine <= line /\ line < Debug(s)[d].endLine
      /\ b.pc = DebugPC(s, d)
  BY LineAnswerIs DEF LineHits, m68k_resolve_pc_line_file
<1> PICK x : x = Debug(s)[d].pc
  OBVIOUS
<1>2. /\ SectionFits(Img(s.file), Section(s)) /\ Of(s, files[s.file].name)
      /\ s.size \in Nat /\ s.total \in Nat /\ s.size <= s.total
  BY <1>1, PlacedFits DEF Shape
<1>3. Section(s).type = "PROGBITS" /\ x \in 0 .. Section(s).size - 1
  BY <1>1, <1>2 DEF SectionFits, LineFits, Debug
<1>4. s.region # "bss" /\ s.size = Section(s).size
  BY <1>2, <1>3 DEF Of, Section, SectionsOf, Img, Region
<1>5. b.pc = (x + s.offset) % Word
  BY <1>1, <1>4 DEF DebugPC
<1> PICK o : o = s.offset
  OBVIOUS
<1>6. o \in Int /\ 0 - o \in Int /\ x \in Nat
  <2>1. s.start \in Nat /\ s.base \in Nat /\ o = (s.start - s.base) % Word
    BY <1>2 DEF Of
  <2>2. x \in Nat
    BY <1>2, <1>3, <1>4
  <2> QED  BY <2>1, <2>2, SizeAssumption
<1>7. (((x + o) % Word) + (0 - o)) % Word = ((x + o) + (0 - o)) % Word
  <2>1. x + o \in Int
    BY <1>6
  <2> QED  BY <1>6, <2>1, ModTwice
<1>8. (b.pc - s.offset) % Word = x % Word
  <2> PICK p \in Int : p = b.pc
    BY <1>5, <1>6, SizeAssumption
  <2>1. p + (0 - o) = p - o /\ (x + o) + (0 - o) = x
    BY <1>6
  <2> QED  BY <1>5, <1>7, <2>1
<1>9. x % Word <= x
  BY <1>6, SizeAssumption
<1>10. x % Word < s.total
  BY <1>2, <1>3, <1>4, <1>6, <1>9, SizeAssumption
<1> QED  BY <1>1, <1>8, <1>10 DEF InProgram

LEMMA BreakpointNext ==
  ASSUME BreakpointInv, Strong, Shape, Known, [SessionNext]_sessionVars
  PROVE  BreakpointInv'
<1>1. Grown
  BY SessionStep, SessionAssumption, GrownNext DEF Strong, PathInv, Known
<1>2. CASE UNCHANGED <<s_breakpoints, s_breakpointCount>>
  BY <1>1, <1>2, InProgramStays DEF BreakpointInv, Table!Slots
<1>3. ASSUME NEW source, NEW line, setBreakpoint(source, line) PROVE BreakpointInv'
  <2> PICK found : found = m68k_resolve_pc_line_file(source, line)
    OBVIOUS
  <2>1. Table!m68k_add_breakpoint(<<source, line>>, IF found = -1 THEN NoPC ELSE found)
        /\ UNCHANGED vars
    BY <1>3 DEF setBreakpoint
  <2>2. CASE found \in 0 .. Word - 1 /\ found # -1 /\ Table!AddResolved(<<source, line>>, found)
    <3> PICK b : b = [loc |-> <<source, line>>, pc |-> found, id |-> s_breakpointId]
      OBVIOUS
    <3>1. /\ s_breakpointCount < Capacity /\ s_breakpointCount' = s_breakpointCount + 1
          /\ s_breakpoints' = [s_breakpoints EXCEPT ![s_breakpointCount] = b]
      BY <2>2 DEF Table!AddResolved
    <3>2. LineHits(source, line) # {}
      BY <2>2 DEF m68k_resolve_pc_line_file
    <3>3. InProgram(b)
      <4>1. b.loc = <<source, line>> /\ b.pc = found
        OBVIOUS
      <4> QED  BY <3>2, <4>1, FoundInProgram
    <3>4. s_breakpointCount \in Table!Slots
      BY <3>1, SessionAssumption DEF BreakpointInv, Table!Slots
    <3>5. \A i \in 0 .. s_breakpointCount : InProgram(s_breakpoints'[i])
      <4> TAKE i \in 0 .. s_breakpointCount
      <4>1. CASE i = s_breakpointCount
        BY <3>1, <3>3, <3>4, <4>1 DEF BreakpointInv
      <4>2. CASE i # s_breakpointCount
        <5>1. i \in 0 .. s_breakpointCount - 1 /\ i \in Table!Slots
          BY <3>1, <4>2, SessionAssumption DEF BreakpointInv, Table!Slots
        <5> QED  BY <3>1, <4>2, <5>1 DEF BreakpointInv
      <4> QED  BY <4>1, <4>2
    <3>6. \A i \in 0 .. s_breakpointCount' - 1 : InProgram(s_breakpoints[i])'
      <4> TAKE i \in 0 .. s_breakpointCount' - 1
      <4> PICK c : c = s_breakpoints'[i]
        OBVIOUS
      <4>1. InProgram(c)
        BY <3>1, <3>5 DEF BreakpointInv
      <4>2. InProgram(c)'
        BY <1>1, <4>1, InProgramStays
      <4> QED  BY <4>2 DEF InProgram
    <3> QED  BY <3>1, <3>6 DEF BreakpointInv, Table!Slots
  <2> QED
    BY <1>2, <2>1, <2>2, SessionAssumption DEF Table!m68k_add_breakpoint, Table!AddPastEnd, Table!AddUnresolved,
       Table!tableVars
<1>4. CASE destroyInstance \/ m68k_debugger_init \/ UNCHANGED sessionVars
  BY <1>2, <1>4
  DEF m68k_debugger_init, CodeInit, PushReturnAddress, LoadTestElf, CopySection, PassSection,
      LoadingDone, Link, destroyInstance, tableVars, sessionVars
<1> QED  BY <1>3, <1>4 DEF SessionNext, SetBreakpoint

(* A breakpoint, of whichever instance, is in code compiled from the       *)
(* source it names, at an entry for its line.                              *)
THEOREM BreakpointsStayInPrograms == SessionSpec => []BreakpointsInProgram
<1>1. SessionInit => BreakpointInv
  BY DEF SessionInit, Table!Init, BreakpointInv, Table!Slots
<1>2. BreakpointInv => BreakpointsInProgram
  BY DEF BreakpointInv, BreakpointsInProgram, InProgram, Table!m68k_get_breakpoints
<1> QED  BY <1>1, <1>2, BreakpointNext, LoaderInSession, PTL DEF SessionSpec
=============================================================================
