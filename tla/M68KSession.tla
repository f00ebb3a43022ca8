----------------------------- MODULE M68KSession -----------------------------
(***************************************************************************)
(* What createInstance of the ProDBG plugin sets up (m68k_debugger_init),  *)
(* with the loader and the breakpoint table it shares between instances:   *)
(* 68k memory, a stack inside its code region, and one program, loaded and *)
(* linked.  Each instance is given new memory; the loader's files and the  *)
(* breakpoints are never forgotten, and a file is loaded once.             *)
(***************************************************************************)
EXTENDS M68KElfLoader

CONSTANTS
  Programs,  \* what may be found under the path m68k_debugger_init loads
  StackTop,  \* 0x10000: where it puts the stack pointer
  NoPC, ZeroSlot, Capacity, MaxId \* of the breakpoint table

(* No two memories overlap: malloc gives them out, and none is freed.      *)
ASSUME SessionAssumption ==
  /\ Programs \subseteq FileNames
  /\ StackTop \in 4 .. codeSize
  /\ \A m, n \in Arenas : m < n => m + codeSize + dataSize + bssSize <= n
  /\ Capacity \in Nat \ {0} /\ NoPC \notin 0 .. Word - 1

VARIABLES
  program,    \* which of the Programs is there
  stage,      \* how far m68k_debugger_init has come; "none" without an instance
  returnSlot, \* the return address pushed last: "none", "zero", "overwritten"
  s_breakpoints, s_breakpointCount, s_breakpointId, overrun, added

Locations == Sources \X Lines
Table == INSTANCE M68KBreakpoints WITH PCs <- 0 .. Word - 1, ret <- added

tableVars == <<s_breakpoints, s_breakpointCount, s_breakpointId, overrun, added>>
sessionVars == <<vars, program, stage, returnSlot, tableVars>>

SessionInit ==
  /\ Init
  /\ program \in Programs
  /\ stage = "none" /\ returnSlot = "none"
  /\ Table!Init

(* Where the four bytes of the return address are. *)
ReturnBytes == memStart + StackTop - 4 .. memStart + StackTop - 1

CodeInit(m) ==
  /\ stage = "none"
  /\ m68k_code_init(m)
  /\ stage' = "push"
  /\ UNCHANGED <<returnSlot, tableVars>>

(* m68ki_set_sp and m68ki_push_32(0). *)
PushReturnAddress ==
  /\ stage = "push"
  /\ stage' = "load"
  /\ returnSlot' = "zero"
  /\ UNCHANGED <<vars, tableVars>>

LoadTestElf ==
  /\ stage = "load"
  /\ m68k_elf_load(program)
  /\ stage' = IF phase' = "allocating" THEN "loading" ELSE "link"
  /\ UNCHANGED <<returnSlot, tableVars>>

(* A section that is copied to where the stack is overwrites it. *)
CopySection ==
  /\ stage = "loading"
  /\ AllocateSection
  /\ returnSlot' = IF \E s \in placed' \ placed :
                        s.start .. s.start + s.total - 1 \cap ReturnBytes # {}
                   THEN "overwritten" ELSE returnSlot
  /\ UNCHANGED <<stage, tableVars>>

PassSection ==
  /\ stage = "loading"
  /\ SkipSection
  /\ UNCHANGED <<stage, returnSlot, tableVars>>

LoadingDone ==
  /\ stage = "loading"
  /\ FinishLoad
  /\ stage' = "link"
  /\ UNCHANGED <<returnSlot, tableVars>>

Link ==
  /\ stage = "link"
  /\ m68k_elf_link
  /\ stage' = "ready"
  /\ returnSlot' = IF DOMAIN mem' \cap ReturnBytes # {} THEN "overwritten" ELSE returnSlot
  /\ UNCHANGED tableVars

m68k_debugger_init ==
  \/ \E m \in Arenas : CodeInit(m)
  \/ PushReturnAddress \/ LoadTestElf \/ CopySection \/ PassSection \/ LoadingDone \/ Link

destroyInstance ==
  /\ stage = "ready" /\ phase = "idle"
  /\ stage' = "none"
  /\ UNCHANGED <<vars, returnSlot, tableVars>>

setBreakpoint(source, line) ==
  LET found == m68k_resolve_pc_line_file(source, line)
  IN /\ stage = "ready" /\ phase = "idle"
     /\ ~LineCrashes(source, line)
     /\ Table!m68k_add_breakpoint(<<source, line>>, IF found = -1 THEN NoPC ELSE found)
     /\ UNCHANGED <<vars, stage, returnSlot>>

SetBreakpoint == \E source \in Sources, line \in Lines : setBreakpoint(source, line)

SessionNext ==
  /\ m68k_debugger_init \/ destroyInstance \/ SetBreakpoint
  /\ UNCHANGED program

SessionSpec == SessionInit /\ [][SessionNext]_sessionVars

-----------------------------------------------------------------------------
(* No earlier program has run over the end of its memory.                  *)
StayedInside ==
  \A s \in placed \ Current : s.start + s.total <= s.base + codeSize + dataSize + bssSize

(* The 68k finds the return address when it starts, unless the program and *)
(* its padding reach up to the stack, which the code region holds as well: *)
(* not even the sections of earlier instances, linked again, are there.    *)
ReturnAddressKept ==
  stage = "ready" /\ StayedInside /\ code <= memStart + StackTop - 4 => returnSlot = "zero"

(* Linking writes into the sections of the program and nowhere else, even  *)
(* for a later instance, whose memory is not where they were placed.       *)
RelocationsStayHome ==
  \A a \in DOMAIN mem : \E s \in placed : a \in s.start .. s.start + s.total - 1

(* A breakpoint, set for whichever instance, is in a section of a file     *)
(* compiled from the source it names, one whose code has its line.         *)
BreakpointsInProgram ==
  \A b \in Table!m68k_get_breakpoints :
    \E s \in placed :
      /\ Source(s.file) = b.loc[1]
      /\ (b.pc - s.offset) % Word < s.total
      /\ \E d \in 1 .. Len(Debug(s)) :
           Debug(s)[d].startLine <= b.loc[2] /\ b.loc[2] < Debug(s)[d].endLine
=============================================================================
