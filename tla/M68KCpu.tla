------------------------------- MODULE M68KCpu -------------------------------
(***************************************************************************)
(* The control of the Musashi core (musashi_addon/src/core/m68kcpu.c and   *)
(* .h, rte and stop of m68k_in.c_): the three stack pointers, exception    *)
(* frames, interrupt requests, STOP and HALT, as built by m68kconf.h: no   *)
(* trace, no address errors, interrupts autovectored and cleared when they *)
(* are taken.  cpu is the struct m68ki_cpu.                                *)
(*                                                                         *)
(* Instructions are those that touch this state; all others are Plain.     *)
(* Code addresses are numbers, stack addresses count 16-bit words, and a   *)
(* status register is its S and M bits and its interrupt mask.             *)
(***************************************************************************)
EXTENDS Integers, Sequences

CONSTANTS
  CpuTypes,    \* subset of {"000", "010", "020"}
  CodeSize,    \* the code is 0 .. CodeSize - 1, and runs on from its end
  VectorTable,       \* the vector table: VectorTable[v], an address, for v \in Vectors
  Levels,      \* interrupt levels the host may request, with 0 for none
  SRs,         \* status registers a program may load
  UserTop, InterruptTop, MasterTop \* where the stacks begin, one below the other

Vectors == {4, 8, 15, 32, 6} \cup {24 + l : l \in Levels \ {0}}
StatusRegisters == [S : BOOLEAN, M : BOOLEAN, mask : 0 .. 7]

ASSUME CpuAssumption ==
  /\ CpuTypes \subseteq {"000", "010", "020"}
  /\ CodeSize \in Nat \ {0}
  /\ Levels \subseteq 0 .. 7 /\ 0 \in Levels
  /\ SRs \subseteq StatusRegisters
  /\ {UserTop, InterruptTop, MasterTop} \subseteq Nat
  /\ UserTop <= InterruptTop /\ InterruptTop <= MasterTop
  /\ VectorTable \in [Vectors -> 0 .. CodeSize - 1]
  /\ \A v \in Vectors \ {24 + l : l \in Levels} : VectorTable[v] # 0

VARIABLES
  cpu,    \* m68ki_cpu, with the memory of the stacks
  frames, \* history: what each pending exception interrupted, oldest first
  masterBase \* history: the master stack pointer at the last reset

cpuVars == <<cpu, frames, masterBase>>

(* The bank a mode's stack pointer is kept in: REG_SP_BASE, whose index is *)
(* FLAG_S | ((FLAG_S >> 1) & FLAG_M).                                      *)
Bank(sr) == IF ~sr.S THEN "usp" ELSE IF sr.M THEN "msp" ELSE "isp"

(* m68ki_set_sm_flag; m68ki_set_s_flag is the case of M unchanged.         *)
set_sm_flag(c, S, M) ==
  LET sr == [c.sr EXCEPT !.S = S, !.M = M]
      saved == [c.bank EXCEPT ![Bank(c.sr)] = c.sp]
  IN [c EXCEPT !.sr = sr, !.bank = saved, !.sp = saved[Bank(sr)]]

(* m68k_get_reg of the three stack pointers.  Slip: M is not looked at.    *)
get_reg_ignoreM(c, reg) ==
  IF reg = (IF c.sr.S THEN "isp" ELSE "usp") THEN c.sp ELSE c.bank[reg]

get_reg(c, reg) == IF Bank(c.sr) = reg THEN c.sp ELSE c.bank[reg]

(* A pull forgets what it reads: nothing looks below the stack pointer.    *)
push_16(c, value) == [c EXCEPT !.sp = @ - 1, !.mem[c.sp - 1] = value]
push_32(c, value) == [c EXCEPT !.sp = @ - 2, !.mem[c.sp - 2] = value, !.mem[c.sp - 1] = "low"]
drop(c, words) ==
  [c EXCEPT !.sp = @ + words,
            !.mem = [a \in DOMAIN c.mem |-> IF a \in c.sp .. c.sp + words - 1 THEN "junk"
                                            ELSE c.mem[a]]]

(* m68ki_set_sr_noint: CPU_SR_MASK has no M bit before the 68020.          *)
set_sr_noint(c, sr) ==
  LET masked == [sr EXCEPT !.M = sr.M /\ c.type = "020"]
      kept == [c EXCEPT !.sr.mask = masked.mask]
  IN set_sm_flag(kept, masked.S, masked.M)

-----------------------------------------------------------------------------
(* m68ki_init_exception, and the frames by their format.                   *)
init_exception(c) == set_sm_flag(c, TRUE, c.sr.M)

stack_frame_0000(c, pc, sr) ==
  IF c.type = "000" THEN push_16(push_32(c, pc), sr)
  ELSE push_16(push_32(push_16(c, [format |-> 0]), pc), sr)

stack_frame_0001(c, pc, sr) == push_16(push_32(push_16(c, [format |-> 1]), pc), sr)

stack_frame_0010(c, sr) ==
  push_16(push_32(push_16(push_32(c, c.ppc), [format |-> 2]), c.pc), sr)

jump_vector(c, vector) == [c EXCEPT !.pc = VectorTable[vector]]

exception_trap(c, vector) ==
  LET e == init_exception(c)
  IN jump_vector(IF c.type = "020" THEN stack_frame_0010(e, c.sr)
                 ELSE stack_frame_0000(e, e.pc, c.sr), vector)

exception_trapN(c, vector) ==
  jump_vector(stack_frame_0000(init_exception(c), c.pc, c.sr), vector)

(* Illegal instructions, the A and F lines and privilege violations return *)
(* to the instruction itself.                                              *)
exception_again(c, vector) ==
  jump_vector(stack_frame_0000(init_exception(c), c.ppc, c.sr), vector)

(***************************************************************************)
(* m68ki_exception_interrupt.  With the master stack in use the frame goes *)
(* there and a throwaway frame to the interrupt stack.                     *)
(***************************************************************************)
exception_interrupt(c, level) ==
  LET awake == [c EXCEPT !.stopped = @ \ {"STOP"}]
      e == [init_exception(awake) EXCEPT !.sr.mask = level]
      framed == stack_frame_0000(e, c.pc, c.sr)
      thrown == stack_frame_0001(set_sm_flag(framed, TRUE, FALSE), c.pc, [c.sr EXCEPT !.S = TRUE])
      new_pc == IF VectorTable[24 + level] = 0 THEN VectorTable[15] ELSE VectorTable[24 + level]
      stacked == IF e.sr.M /\ c.type = "020" THEN thrown ELSE framed
  IN IF awake.stopped # {} THEN awake
     ELSE [stacked EXCEPT !.pc = new_pc, !.intLevel = 0]

Taken(c, level) == c.stopped \ {"STOP"} = {}

check_interrupts(c) ==
  IF c.intLevel > c.sr.mask THEN exception_interrupt(c, c.intLevel) ELSE c
Interrupted(c) == c.intLevel > c.sr.mask /\ Taken(c, c.intLevel)

(* m68ki_set_sr, and without its check. *)
set_sr_nocheck(c, sr) == set_sr_noint(c, sr)
set_sr(c, sr) == check_interrupts(set_sr_noint(c, sr))

-----------------------------------------------------------------------------
(* What an exception in c interrupts, and what it leaves on the stacks.    *)
Context(c, pc) ==
  [sr |-> c.sr, pc |-> pc, sps |-> [reg \in {"usp", "isp", "msp"} |-> get_reg(c, reg)]]
Entered(c, pc, after) == Append(frames, [saved |-> Context(c, pc), mode |-> Bank(after.sr),
                                         sp |-> after.sp])

Fetch(c) == [c EXCEPT !.ppc = c.pc, !.pc = (c.pc + 1) % CodeSize]

(* Bound: exceptions happen while the stacks have room for their frames.   *)
StackRoom == get_reg(cpu, "isp") - 6 >= UserTop /\ get_reg(cpu, "msp") - 6 >= InterruptTop

Plain ==
  /\ cpu' = Fetch(cpu)
  /\ UNCHANGED <<frames, masterBase>>

Raise(c, pc, after) ==
  /\ StackRoom
  /\ cpu' = after
  /\ frames' = Entered(c, pc, after)
  /\ UNCHANGED masterBase

Trap == LET c == Fetch(cpu) IN Raise(c, c.pc, exception_trapN(c, 32))
Check == LET c == Fetch(cpu) IN Raise(c, c.pc, exception_trap(c, 6))
Illegal == LET c == Fetch(cpu) IN Raise(c, c.ppc, exception_again(c, 4))
Violation == LET c == Fetch(cpu) IN ~c.sr.S /\ Raise(c, c.ppc, exception_again(c, 8))

(* Slip: not a privileged one. *)
LoadSR_unprivileged(c, sr) ==
  /\ cpu' = set_sr(c, sr)
  /\ UNCHANGED <<frames, masterBase>>

(* An instruction that loads sr into c: move to sr, andi, ori, eori and    *)
(* stop; the interrupt it lets in is taken at once.                        *)
LoadSR(c, sr) ==
  LET before == set_sr_noint(c, sr)
  IN /\ c.sr.S
     /\ Interrupted(before) => StackRoom
     /\ cpu' = set_sr(c, sr)
     /\ frames' = IF Interrupted(before) THEN Entered(before, before.pc, cpu') ELSE frames
     /\ UNCHANGED masterBase

MoveToSR(sr) == LoadSR(Fetch(cpu), sr)
Stop(sr) == LoadSR([Fetch(cpu) EXCEPT !.stopped = @ \cup {"STOP"}], sr)

(* rte: a throwaway frame is dropped, and the frame it stands for is on    *)
(* the stack its status register selects.                                  *)
Format(c) == IF c.type = "000" THEN 0 ELSE c.mem[c.sp + 3].format
FrameWords_longest(c) == 6
FrameWords(c) == IF c.type = "000" THEN 3 ELSE IF Format(c) = 2 THEN 6 ELSE 4
Throw_sameStack(c) == IF c.type = "020" /\ Format(c) = 1 THEN drop(c, 4) ELSE c
Throw(c) ==
  IF c.type = "020" /\ Format(c) = 1 THEN set_sr_noint(drop(c, 4), c.mem[c.sp]) ELSE c

Restore(c) ==
  LET t == Throw(c)
  IN [drop(t, FrameWords(t)) EXCEPT !.pc = t.mem[t.sp + 1]]
SavedSR(c) == Throw(c).mem[Throw(c).sp]

(* A handler returns with the stack as it found it.                        *)
Balanced(c) ==
  /\ frames # <<>>
  /\ Bank(c.sr) = frames[Len(frames)].mode
  /\ c.sp = frames[Len(frames)].sp

Rte ==
  LET c == Fetch(cpu)
      back == set_sr_noint(Restore(c), SavedSR(c))
      popped == SubSeq(frames, 1, Len(frames) - 1)
  IN /\ c.sr.S
     /\ Balanced(c)
     /\ cpu' = set_sr(Restore(c), SavedSR(c))
     /\ frames' = IF ~Interrupted(back) THEN popped
                  ELSE Append(popped, [saved |-> Context(back, back.pc),
                                       mode |-> Bank(cpu'.sr), sp |-> cpu'.sp])
     /\ UNCHANGED masterBase

Instruction ==
  \/ Plain \/ Trap \/ Check \/ Illegal \/ Violation \/ Rte
  \/ \E sr \in SRs : MoveToSR(sr) \/ Stop(sr)

(* m68k_execute looks at the stop levels; the single step does not.        *)
m68k_execute == cpu.stopped = {} /\ Instruction
m68k_execute_single_instruction == Instruction

(* m68k_set_irq: a level above the mask, or a change to 7, interrupts.     *)
m68k_set_irq(level) ==
  LET c == [cpu EXCEPT !.intLevel = level]
      nmi == level = 7 /\ cpu.intLevel # 7
      taken == (nmi \/ level > c.sr.mask) /\ Taken(c, level)
  IN /\ taken => StackRoom
     /\ cpu' = IF nmi THEN exception_interrupt(c, 7) ELSE check_interrupts(c)
     /\ frames' = IF taken THEN Entered(c, c.pc, cpu') ELSE frames
     /\ UNCHANGED masterBase

m68k_pulse_halt ==
  /\ cpu' = [cpu EXCEPT !.stopped = @ \cup {"HALT"}]
  /\ UNCHANGED <<frames, masterBase>>

(* m68k_pulse_reset: the interrupt stack pointer and the pc come from      *)
(* address 0; the master stack pointer stays, and so does a request.       *)
m68k_pulse_reset ==
  LET c == set_sm_flag([cpu EXCEPT !.stopped = {}, !.sr.mask = 7], TRUE, FALSE)
  IN /\ cpu' = [c EXCEPT !.sp = InterruptTop, !.pc = 0,
                         !.mem = [a \in DOMAIN @ |-> IF a < InterruptTop THEN "junk" ELSE @[a]]]
     /\ frames' = <<>>
     /\ masterBase' = c.bank.msp

CpuInit ==
  /\ \E type \in CpuTypes :
       cpu = [type |-> type, pc |-> 0, ppc |-> 0, sp |-> UserTop,
              sr |-> [S |-> FALSE, M |-> FALSE, mask |-> 0],
              bank |-> [usp |-> UserTop, isp |-> InterruptTop, msp |-> MasterTop],
              mem |-> [a \in 0 .. MasterTop |-> "junk"],
              stopped |-> {}, intLevel |-> 0]
  /\ frames = <<>>
  /\ masterBase = MasterTop

CpuNext ==
  \/ m68k_execute \/ m68k_execute_single_instruction
  \/ \E l \in Levels : m68k_set_irq(l)
  \/ m68k_pulse_halt \/ m68k_pulse_reset

CpuSpec == CpuInit /\ [][CpuNext]_cpuVars

-----------------------------------------------------------------------------
CpuTypeOK ==
  /\ cpu.type \in CpuTypes
  /\ cpu.pc \in 0 .. CodeSize - 1 /\ cpu.ppc \in 0 .. CodeSize - 1
  /\ cpu.sr \in StatusRegisters
  /\ cpu.sp \in 0 .. MasterTop
  /\ cpu.bank \in [{"usp", "isp", "msp"} -> 0 .. MasterTop]
  /\ cpu.stopped \subseteq {"STOP", "HALT"}
  /\ cpu.intLevel \in Levels

(* However exceptions nest and modes change, none of the three stack       *)
(* pointers drifts: user mode finds its own where it left it, and once     *)
(* every exception has returned the other two are where they began.        *)
StacksBalanced ==
  /\ get_reg(cpu, "usp") = UserTop
  /\ frames = <<>> => get_reg(cpu, "isp") = InterruptTop /\ get_reg(cpu, "msp") = masterBase

(* A request above the mask never waits, whichever of the mask and the     *)
(* request changed last, unless the cpu is halted.                         *)
NoPendingUnmasked == cpu.intLevel > cpu.sr.mask => "HALT" \in cpu.stopped

(* rte resumes exactly what its exception interrupted: pc, status register *)
(* and all three stack pointers.  If the status register lets an interrupt *)
(* in, that one has interrupted just this.                                 *)
RteResumes ==
  [][ Rte => LET saved == frames[Len(frames)].saved
             IN IF Len(frames') < Len(frames) THEN Context(cpu', cpu'.pc) = saved
                ELSE frames'[Len(frames)].saved = saved ]_cpuVars

(* User mode is left by an exception or a reset only.                      *)
NoEscalation ==
  [][ ~cpu.sr.S /\ cpu'.sr.S => Len(frames') > Len(frames) \/ m68k_pulse_reset ]_cpuVars
=============================================================================
