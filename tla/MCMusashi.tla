------------------------------ MODULE MCMusashi ------------------------------
(* Three parts of the Musashi add-on that share no state, one at a time:   *)
(* part is the one that moves.                                             *)
(*                                                                         *)
(* The cpu: every type, two levels of interrupts and the NMI, status       *)
(* registers for both supervisor stacks, masked and not.  The session: a   *)
(* program that fits below the stack, one that does not, and none, for two *)
(* instances.  The allocator: blocks of odd and even sizes in two chunks.  *)
EXTENDS M68KCpu, M68KSession, M68KLinearAllocator

CONSTANTS small, large, missing, main, helper, ac

VARIABLE part
mcVars == <<part, cpuVars, sessionVars, allocatorVars>>

MCVectorTable == [v \in Vectors |-> IF v = 24 + 3 THEN 0 ELSE 1]
MCSRs == {[S |-> FALSE, M |-> TRUE, mask |-> 0],
          [S |-> TRUE, M |-> TRUE, mask |-> 0], [S |-> TRUE, M |-> FALSE, mask |-> 7]}

MCHash == [n \in {main, helper} |-> IF n = main THEN 1 ELSE 2]
Text(size, line) ==
  [type |-> "PROGBITS", dataName |-> FALSE, size |-> size, rel |-> FALSE,
   rela |-> <<[type |-> "R_68K_32", offset |-> 0, symbol |-> 2, addend |-> 0]>>,
   dbg |-> <<[type |-> 2, startLine |-> line, endLine |-> line + 2, pc |-> 0],
             [type |-> 2, startLine |-> line + 2, endLine |-> line + 3, pc |-> 2]>>]
Bss == [type |-> "NOBITS", dataName |-> FALSE, size |-> 3, rel |-> FALSE,
        rela |-> <<>>, dbg |-> <<>>]
Strings == [type |-> "OTHER", dataName |-> FALSE, size |-> 3, rel |-> FALSE,
            rela |-> <<>>, dbg |-> <<>>]
Program(size) ==
  [kind |-> "elf", source |-> ac, sections |-> <<Strings, Text(size, 1), Bss, Text(4, 5)>>,
   symbols |-> <<[name |-> main, global |-> TRUE, shndx |-> 2, value |-> 0],
                 [name |-> helper, global |-> TRUE, shndx |-> 4, value |-> 1]>>]
MCImages == [f \in {small, large, missing} |->
               CASE f = small -> Program(6) [] f = large -> Program(22)
                 [] f = missing -> [kind |-> "missing"]]

MCInit ==
  /\ part \in {"cpu", "session", "allocator"}
  /\ CpuInit /\ SessionInit /\ AllocatorInit
  /\ part # "cpu" => cpu.type = "000"
  /\ part # "session" => program = small

MCNext ==
  /\ UNCHANGED part
  /\ \/ part = "cpu" /\ CpuNext /\ UNCHANGED <<sessionVars, allocatorVars>>
     \/ part = "session" /\ SessionNext /\ UNCHANGED <<cpuVars, allocatorVars>>
     \/ part = "allocator" /\ AllocatorNext /\ UNCHANGED <<cpuVars, sessionVars>>

MCSpec == MCInit /\ [][MCNext]_mcVars

(* Every variable of the three parts has its type.                         *)
MusashiTypes == CpuTypeOK /\ TypeOK /\ AllocatorTypeOK
=============================================================================
