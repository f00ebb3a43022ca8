---------------------------- MODULE M68KCpuProofs ----------------------------
(* Theorems about M68KCpu, for every program, vector table, interrupt      *)
(* level and size of the stacks.  Two invariants:                          *)
(*                                                                         *)
(*   IInv, of the mask, the request and the stop levels only: no request   *)
(*   above the mask waits.  What a program leaves on its stacks may be     *)
(*   anything here: check_interrupts looks at whatever mask results.       *)
(*                                                                         *)
(*   SInv, of the stacks: the frames of the pending exceptions lie one     *)
(*   below the other in memory, each one complete between the stack        *)
(*   pointers it was pushed from and those of the next exception.          *)
EXTENDS M68KCpu, SequenceTheorems, TLAPS

Fields == {"type", "pc", "ppc", "sp", "sr", "bank", "mem", "stopped", "intLevel"}

(* The fields interrupts depend on. *)
IsCpu(c) ==
  /\ c = [f \in Fields |-> c[f]]
  /\ c.sr = [f \in {"S", "M", "mask"} |-> c.sr[f]]
  /\ c.intLevel \in 0 .. 7
  /\ c.stopped \subseteq {"STOP", "HALT"}

(* No request above the mask waits in c, unless the cpu is halted. *)
Settled(c) == c.intLevel > c.sr.mask => "HALT" \in c.stopped

IInv == IsCpu(cpu) /\ Settled(cpu)

(* d may differ from c in what interrupts do not depend on. *)
Kept(c, d) ==
  /\ IsCpu(d)
  /\ d.sr.mask = c.sr.mask /\ d.intLevel = c.intLevel /\ d.stopped = c.stopped

-----------------------------------------------------------------------------
LEMMA KeptTransitive ==
  ASSUME NEW c, NEW d, NEW e, Kept(c, d), Kept(d, e)
  PROVE  Kept(c, e)
  BY DEF Kept

LEMMA KeptSettled ==
  ASSUME NEW c, NEW d, Kept(c, d), Settled(c)
  PROVE  IsCpu(d) /\ Settled(d)
  BY DEF Kept, Settled

(* Changes of mode, of the stacks and of the pc. *)
LEMMA SmFlagKept ==
  ASSUME NEW c, IsCpu(c), NEW S, NEW M
  PROVE  Kept(c, set_sm_flag(c, S, M))
<1> DEFINE sr == [c.sr EXCEPT !.S = S, !.M = M]
           bank == [c.bank EXCEPT ![Bank(c.sr)] = c.sp]
           sp == bank[Bank(sr)]
<1>1. sr = [f \in {"S", "M", "mask"} |-> sr[f]] /\ sr.mask = c.sr.mask
  BY DEF IsCpu
<1>2. set_sm_flag(c, S, M) = [c EXCEPT !.sr = sr, !.bank = bank, !.sp = sp]
  BY DEF set_sm_flag
<1> HIDE DEF sr, bank, sp
<1>3. Kept(c, [c EXCEPT !.sr = sr, !.bank = bank, !.sp = sp])
  BY <1>1 DEF IsCpu, Kept, Fields
<1> QED  BY <1>2, <1>3

LEMMA PushKept ==
  ASSUME NEW c, IsCpu(c), NEW value
  PROVE  Kept(c, push_16(c, value)) /\ Kept(c, push_32(c, value))
  BY DEF IsCpu, Kept, push_16, push_32, Fields

LEMMA DropKept ==
  ASSUME NEW c, IsCpu(c), NEW words
  PROVE  Kept(c, drop(c, words))
  BY DEF IsCpu, Kept, drop, Fields

LEMMA FetchKept ==
  ASSUME NEW c, IsCpu(c)
  PROVE  Kept(c, Fetch(c))
  BY DEF IsCpu, Kept, Fetch, Fields

LEMMA PcKept ==
  ASSUME NEW c, IsCpu(c), NEW pc
  PROVE  Kept(c, [c EXCEPT !.pc = pc])
  BY DEF IsCpu, Kept, Fields

LEMMA FramesKept ==
  ASSUME NEW c, IsCpu(c), NEW pc, NEW sr
  PROVE  /\ Kept(c, stack_frame_0000(c, pc, sr))
         /\ Kept(c, stack_frame_0001(c, pc, sr))
         /\ Kept(c, stack_frame_0010(c, sr))
<1>1. ASSUME NEW d, IsCpu(d), NEW v
      PROVE  IsCpu(push_16(d, v)) /\ IsCpu(push_32(d, v))
  BY <1>1, PushKept DEF Kept
<1>2. Kept(c, push_16(push_32(c, pc), sr))
  <2>1. Kept(c, push_32(c, pc)) /\ Kept(push_32(c, pc), push_16(push_32(c, pc), sr))
    BY <1>1, PushKept
  <2> QED  BY <2>1, KeptTransitive
<1>3. ASSUME NEW v PROVE Kept(c, push_16(push_32(push_16(c, v), pc), sr))
  <2> DEFINE d == push_16(c, v)
             e == push_32(d, pc)
  <2>1. Kept(c, d) /\ Kept(d, e) /\ Kept(e, push_16(e, sr))
    BY <1>1, PushKept
  <2> HIDE DEF d, e
  <2>2. Kept(c, push_16(e, sr))
    BY <2>1, KeptTransitive
  <2> QED  BY <2>2 DEF d, e
<1>4. Kept(c, stack_frame_0010(c, sr))
  <2> DEFINE d == push_32(c, c.ppc)
             e == push_16(d, [format |-> 2])
             f == push_32(e, c.pc)
  <2>1. Kept(c, d) /\ Kept(d, e) /\ Kept(e, f) /\ Kept(f, push_16(f, sr))
    BY <1>1, PushKept
  <2>2. stack_frame_0010(c, sr) = push_16(push_32(push_16(push_32(c, c.ppc), [format |-> 2]), c.pc), sr)
    BY DEF stack_frame_0010
  <2> HIDE DEF d, e, f
  <2>3. Kept(c, push_16(f, sr))
    BY <2>1, KeptTransitive
  <2> QED  BY <2>2, <2>3 DEF d, e, f
<1> QED  BY <1>2, <1>3, <1>4 DEF stack_frame_0000, stack_frame_0001

-----------------------------------------------------------------------------
(* Traps and faults. *)
LEMMA ExceptionsKept ==
  ASSUME NEW c, IsCpu(c), NEW vector
  PROVE  /\ Kept(c, exception_trap(c, vector))
         /\ Kept(c, exception_trapN(c, vector))
         /\ Kept(c, exception_again(c, vector))
<1> DEFINE e == init_exception(c)
<1>1. Kept(c, e) /\ IsCpu(e)
  BY ZenonT(60), SmFlagKept DEF init_exception, Kept
<1> HIDE DEF e
<1>2. ASSUME NEW d, Kept(e, d) PROVE Kept(c, jump_vector(d, vector))
  BY <1>1, <1>2, PcKept, KeptTransitive DEF jump_vector, Kept
<1>3. /\ Kept(c, jump_vector(stack_frame_0010(e, c.sr), vector))
      /\ \A pc : Kept(c, jump_vector(stack_frame_0000(e, pc, c.sr), vector))
  BY <1>1, <1>2, FramesKept
<1> QED  BY <1>3 DEF exception_trap, exception_trapN, exception_again, e

(* An interrupt that is taken is no longer requested; one that is not      *)
(* finds the cpu halted.                                                   *)
LEMMA InterruptSettles ==
  ASSUME NEW c, IsCpu(c), NEW level \in 0 .. 7
  PROVE  IsCpu(exception_interrupt(c, level)) /\ Settled(exception_interrupt(c, level))
<1> DEFINE awake == [c EXCEPT !.stopped = @ \ {"STOP"}]
           e == [init_exception(awake) EXCEPT !.sr.mask = level]
           framed == stack_frame_0000(e, c.pc, c.sr)
           thrown == stack_frame_0001(set_sm_flag(framed, TRUE, FALSE), c.pc, [c.sr EXCEPT !.S = TRUE])
           new_pc == IF VectorTable[24 + level] = 0 THEN VectorTable[15] ELSE VectorTable[24 + level]
           stacked == IF e.sr.M /\ c.type = "020" THEN thrown ELSE framed
<1>1. IsCpu(awake) /\ awake.stopped = c.stopped \ {"STOP"}
  BY DEF IsCpu, Fields
<1>2. awake.stopped # {} => "HALT" \in awake.stopped
  BY <1>1 DEF IsCpu
<1>3. IsCpu(e) /\ e.sr.mask = level
  <2> HIDE DEF awake
  <2>1. IsCpu(init_exception(awake))
    BY <1>1, SmFlagKept DEF init_exception, Kept
  <2> QED  BY <2>1 DEF IsCpu, Fields
<1>4. Kept(e, stacked)
  <2> HIDE DEF e
  <2>1. Kept(e, framed) /\ IsCpu(framed)
    BY <1>3, FramesKept DEF Kept
  <2> HIDE DEF framed
  <2>2. Kept(framed, set_sm_flag(framed, TRUE, FALSE)) /\ IsCpu(set_sm_flag(framed, TRUE, FALSE))
    <3>1. Kept(framed, set_sm_flag(framed, TRUE, FALSE))
      BY <2>1, SmFlagKept
    <3> QED  BY <3>1 DEF Kept
  <2>3. Kept(set_sm_flag(framed, TRUE, FALSE), thrown)
    BY <2>2, FramesKept
  <2>4. Kept(e, thrown)
    BY <2>1, <2>2, <2>3, KeptTransitive
  <2> QED  BY <2>1, <2>4
<1>5. exception_interrupt(c, level) =
        IF awake.stopped # {} THEN awake ELSE [stacked EXCEPT !.pc = new_pc, !.intLevel = 0]
  BY DEF exception_interrupt
<1> HIDE DEF awake, e, stacked, new_pc
<1>6. IsCpu(stacked) /\ stacked.sr.mask = level
  BY <1>3, <1>4 DEF Kept
<1> DEFINE taken == [stacked EXCEPT !.pc = new_pc, !.intLevel = 0]
<1>7. IsCpu(taken) /\ taken.intLevel = 0 /\ taken.sr.mask = level
  <2> HIDE DEF new_pc, stacked
  <2>1. stacked = [f \in Fields |-> stacked[f]] /\ stacked.stopped \subseteq {"STOP", "HALT"}
        /\ stacked.sr = [f \in {"S", "M", "mask"} |-> stacked.sr[f]]
    BY <1>6 DEF IsCpu
  <2>2. /\ taken = [f \in Fields |-> taken[f]] /\ taken.sr = stacked.sr
        /\ taken.stopped = stacked.stopped /\ taken.intLevel = 0
    BY <2>1 DEF Fields
  <2> HIDE DEF taken
  <2> QED  BY <1>6, <2>1, <2>2 DEF IsCpu
<1> HIDE DEF taken
<1>8. Settled(taken)
  BY <1>7 DEF Settled
<1>9. Settled(awake) \/ awake.stopped = {}
  BY <1>2 DEF Settled
<1> QED  BY <1>1, <1>5, <1>7, <1>8, <1>9 DEF taken

LEMMA CheckSettles ==
  ASSUME NEW c, IsCpu(c)
  PROVE  IsCpu(check_interrupts(c)) /\ Settled(check_interrupts(c))
<1>1. c.intLevel \in 0 .. 7
  BY DEF IsCpu
<1>2. CASE c.intLevel > c.sr.mask
  BY <1>1, <1>2, InterruptSettles DEF check_interrupts
<1>3. CASE ~(c.intLevel > c.sr.mask)
  BY <1>3 DEF check_interrupts, Settled
<1> QED  BY <1>2, <1>3

(* Whatever is loaded. *)
LEMMA NointIsCpu ==
  ASSUME NEW c, IsCpu(c), NEW sr
  PROVE  IsCpu(set_sr_noint(c, sr))
<1> DEFINE masked == [sr EXCEPT !.M = sr.M /\ c.type = "020"]
           kept == [c EXCEPT !.sr.mask = masked.mask]
<1>1. set_sr_noint(c, sr) = set_sm_flag(kept, masked.S, masked.M)
  BY DEF set_sr_noint
<1> HIDE DEF masked
<1>2. IsCpu(kept)
  BY DEF IsCpu, Fields
<1> HIDE DEF kept
<1> QED  BY <1>1, <1>2, SmFlagKept DEF Kept

LEMMA SetSrSettles ==
  ASSUME NEW c, IsCpu(c), NEW sr
  PROVE  IsCpu(set_sr(c, sr)) /\ Settled(set_sr(c, sr))
  BY NointIsCpu, CheckSettles DEF set_sr

LEMMA RestoreIsCpu ==
  ASSUME NEW c, IsCpu(c)
  PROVE  IsCpu(Restore(c))
<1>1. IsCpu(Throw(c))
  <2>1. IsCpu(drop(c, 4))
    BY DropKept DEF Kept
  <2> QED  BY <2>1, NointIsCpu DEF Throw
<1>2. \A words : IsCpu(drop(Throw(c), words))
  BY <1>1, DropKept DEF Kept
<1> QED  BY <1>2, PcKept DEF Restore, Kept

-----------------------------------------------------------------------------
LEMMA InstructionIInv ==
  ASSUME IInv, Instruction
  PROVE  IInv'
<1> DEFINE c == Fetch(cpu)
<1>1. Kept(cpu, c) /\ IsCpu(c) /\ Settled(c)
  BY FetchKept, KeptSettled DEF IInv, Kept
<1>2. CASE Plain
  BY <1>1, <1>2 DEF Plain, IInv
<1>3. CASE Trap \/ Check \/ Illegal \/ Violation
  <2> HIDE DEF c
  <2>1. PICK vector : cpu' \in {exception_trap(c, vector), exception_trapN(c, vector),
                                exception_again(c, vector)}
    BY <1>3 DEF Trap, Check, Illegal, Violation, Raise, c
  <2>2. Kept(c, cpu')
    BY <1>1, <2>1, ExceptionsKept
  <2> QED  BY <1>1, <2>2, KeptSettled DEF IInv
<1>4. CASE Rte
  <2>1. cpu' = set_sr(Restore(c), SavedSR(c))
    BY <1>4 DEF Rte
  <2> HIDE DEF c
  <2> QED  BY <1>1, <2>1, RestoreIsCpu, SetSrSettles DEF IInv
<1>5. ASSUME NEW sr \in SRs, MoveToSR(sr) PROVE IInv'
  <2>1. cpu' = set_sr(c, sr)
    BY <1>5 DEF MoveToSR, LoadSR
  <2> QED  BY <1>1, <2>1, SetSrSettles DEF IInv
<1>6. ASSUME NEW sr \in SRs, Stop(sr) PROVE IInv'
  <2>1. cpu' = set_sr([c EXCEPT !.stopped = @ \cup {"STOP"}], sr)
    BY <1>6 DEF Stop, LoadSR
  <2> HIDE DEF c
  <2>2. IsCpu([c EXCEPT !.stopped = @ \cup {"STOP"}])
    BY <1>1 DEF IsCpu, Fields
  <2> QED  BY <2>1, <2>2, SetSrSettles DEF IInv
<1> QED  BY <1>2, <1>3, <1>4, <1>5, <1>6 DEF Instruction

LEMMA SetIrqIInv ==
  ASSUME IInv, NEW level \in Levels, m68k_set_irq(level)
  PROVE  IInv'
<1> DEFINE c == [cpu EXCEPT !.intLevel = level]
<1>1. IsCpu(c)
  BY CpuAssumption DEF IInv, IsCpu, Fields
<1>2. cpu' = exception_interrupt(c, 7) \/ cpu' = check_interrupts(c)
  BY DEF m68k_set_irq
<1> HIDE DEF c
<1> QED  BY <1>1, <1>2, InterruptSettles, CheckSettles DEF IInv

LEMMA HaltIInv ==
  ASSUME IInv, m68k_pulse_halt
  PROVE  IInv'
<1>1. cpu' = [cpu EXCEPT !.stopped = @ \cup {"HALT"}]
  BY DEF m68k_pulse_halt
<1>2. IsCpu(cpu') /\ "HALT" \in cpu'.stopped
  BY <1>1 DEF IInv, IsCpu, Fields
<1> QED  BY <1>2 DEF IInv, Settled

LEMMA ResetIInv ==
  ASSUME IInv, m68k_pulse_reset
  PROVE  IInv'
<1> DEFINE r == [cpu EXCEPT !.stopped = {}, !.sr.mask = 7]
           c == set_sm_flag(r, TRUE, FALSE)
           mem == [a \in DOMAIN c.mem |-> IF a < InterruptTop THEN "junk" ELSE c.mem[a]]
<1>1. cpu' = [c EXCEPT !.sp = InterruptTop, !.pc = 0, !.mem = mem]
  BY DEF m68k_pulse_reset
<1>2. IsCpu(r) /\ r.sr.mask = 7
  BY DEF IInv, IsCpu, Fields
<1> HIDE DEF r
<1>3. IsCpu(c) /\ c.sr.mask = 7
  BY <1>2, SmFlagKept DEF Kept
<1> HIDE DEF c, mem
<1>4. IsCpu(cpu') /\ cpu'.sr.mask = 7
  BY <1>1, <1>3 DEF IsCpu, Fields
<1> QED  BY <1>4 DEF IInv, IsCpu, Settled

LEMMA InitIInv == CpuInit => IInv
<1> SUFFICES ASSUME CpuInit PROVE IInv
  OBVIOUS
<1>1. PICK type \in CpuTypes :
        cpu = [type |-> type, pc |-> 0, ppc |-> 0, sp |-> UserTop,
               sr |-> [S |-> FALSE, M |-> FALSE, mask |-> 0],
               bank |-> [usp |-> UserTop, isp |-> InterruptTop, msp |-> MasterTop],
               mem |-> [a \in 0 .. MasterTop |-> "junk"],
               stopped |-> {}, intLevel |-> 0]
  BY DEF CpuInit
<1>2. cpu = [f \in Fields |-> cpu[f]]
  BY <1>1 DEF Fields
<1>3. cpu.sr = [f \in {"S", "M", "mask"} |-> cpu.sr[f]] /\ cpu.sr.mask = 0
  BY <1>1
<1>4. cpu.intLevel = 0 /\ cpu.stopped = {}
  BY <1>1
<1> QED  BY <1>2, <1>3, <1>4 DEF IInv, IsCpu, Settled

LEMMA NextIInv == IInv /\ [CpuNext]_cpuVars => IInv'
<1> SUFFICES ASSUME IInv, [CpuNext]_cpuVars PROVE IInv'
  OBVIOUS
<1>1. CASE UNCHANGED cpuVars
  BY <1>1 DEF cpuVars, IInv, Settled, IsCpu
<1>2. CASE CpuNext
  BY <1>2, InstructionIInv, SetIrqIInv, HaltIInv, ResetIInv
     DEF CpuNext, m68k_execute, m68k_execute_single_instruction
<1> QED  BY <1>1, <1>2

(* Whatever the program does and whichever of the mask and the request     *)
(* changes last, no request above the mask is left waiting by a cpu that   *)
(* is not halted (m68ki_set_sr, m68k_set_irq, rte and stop).               *)
THEOREM RequestsAreTaken == CpuSpec => []NoPendingUnmasked
<1>1. IInv => NoPendingUnmasked
  BY DEF IInv, Settled, NoPendingUnmasked
<1> QED  BY InitIInv, NextIInv, <1>1, PTL DEF CpuSpec

-----------------------------------------------------------------------------
(* The history of pending exceptions is a sequence. *)
Recorded == \E S : frames \in Seq(S)

LEMMA AppendRecorded ==
  ASSUME NEW s, NEW S, s \in Seq(S), NEW e
  PROVE  Append(s, e) \in Seq(S \cup {e}) /\ Len(Append(s, e)) = Len(s) + 1
<1>1. s \in Seq(S \cup {e})
  OBVIOUS
<1> QED  BY <1>1

LEMMA EnteredRecorded ==
  ASSUME Recorded, NEW c, NEW pc, NEW after
  PROVE  /\ \E S : Entered(c, pc, after) \in Seq(S)
         /\ Len(Entered(c, pc, after)) = Len(frames) + 1 /\ Len(frames) \in Nat
<1>1. PICK S : frames \in Seq(S)
  BY DEF Recorded
<1>2. PICK e : Entered(c, pc, after) = Append(frames, e)
  BY DEF Entered
<1>3. Append(frames, e) \in Seq(S \cup {e}) /\ Len(Append(frames, e)) = Len(frames) + 1
  BY <1>1, AppendRecorded
<1>4. Len(frames) \in Nat
  BY <1>1
<1> QED  BY <1>2, <1>3, <1>4

LEMMA NextRecorded == Recorded /\ [CpuNext]_cpuVars => Recorded'
<1> SUFFICES ASSUME Recorded, [CpuNext]_cpuVars PROVE Recorded'
  OBVIOUS
<1>1. CASE frames' = frames
  BY <1>1 DEF Recorded
<1>2. ASSUME NEW c, NEW pc, NEW after, frames' = Entered(c, pc, after) PROVE Recorded'
  BY <1>2, EnteredRecorded DEF Recorded
<1>3. CASE Rte
  <2>1. PICK S : frames \in Seq(S)
    BY DEF Recorded
  <2> DEFINE popped == SubSeq(frames, 1, Len(frames) - 1)
  <2>2. popped \in Seq(S)
    BY <2>1, <1>3 DEF Rte, Balanced
  <2>3. frames' = popped \/ \E e : frames' = Append(popped, e)
    BY <1>3 DEF Rte
  <2> HIDE DEF popped
  <2>4. CASE frames' = popped
    BY <2>2, <2>4 DEF Recorded
  <2>5. ASSUME NEW e, frames' = Append(popped, e) PROVE Recorded'
    <3>1. Append(popped, e) \in Seq(S \cup {e})
      BY <2>2, AppendRecorded
    <3> QED  BY <2>5, <3>1 DEF Recorded
  <2> QED  BY <2>3, <2>4, <2>5
<1>4. CASE Instruction /\ ~Rte
  <2>1. frames' = frames \/ \E c, pc, after : frames' = Entered(c, pc, after)
    BY <1>4 DEF Instruction, Plain, Trap, Check, Illegal, Violation, Raise, MoveToSR, Stop, LoadSR
  <2> QED  BY <2>1, <1>1, <1>2
<1>5. ASSUME NEW level \in Levels, m68k_set_irq(level) PROVE Recorded'
  <2>1. frames' = frames \/ \E c, pc, after : frames' = Entered(c, pc, after)
    BY <1>5 DEF m68k_set_irq
  <2> QED  BY <2>1, <1>1, <1>2
<1>6. CASE m68k_pulse_reset
  <2>1. frames' = <<>>
    BY <1>6 DEF m68k_pulse_reset
  <2> QED  BY <2>1 DEF Recorded
<1> QED  BY <1>1, <1>3, <1>4, <1>5, <1>6
     DEF CpuNext, m68k_execute, m68k_execute_single_instruction, m68k_pulse_halt, cpuVars

(* In user mode an instruction that records no exception keeps the mode,   *)
(* and so does a request that is not taken.                                *)
LEMMA UserInstruction ==
  ASSUME IInv, Recorded, Instruction, ~cpu.sr.S, cpu'.sr.S
  PROVE  Len(frames') > Len(frames)
<1>1. Fetch(cpu).sr = cpu.sr
  BY DEF Fetch, IInv, IsCpu, Fields
<1>2. [Fetch(cpu) EXCEPT !.stopped = @ \cup {"STOP"}].sr = cpu.sr
  BY DEF Fetch, IInv, IsCpu, Fields
<1>3. ~Plain /\ ~Rte /\ \A sr \in SRs : ~MoveToSR(sr) /\ ~Stop(sr)
  BY <1>1, <1>2 DEF Plain, Rte, MoveToSR, Stop, LoadSR
<1>4. \E c, pc, after : frames' = Entered(c, pc, after)
  BY <1>3 DEF Instruction, Trap, Check, Illegal, Violation, Raise
<1> QED  BY <1>4, EnteredRecorded

LEMMA UserRequest ==
  ASSUME IInv, Recorded, NEW level \in Levels, m68k_set_irq(level), ~cpu.sr.S, cpu'.sr.S
  PROVE  Len(frames') > Len(frames)
<1> DEFINE c == [cpu EXCEPT !.intLevel = level]
           nmi == level = 7 /\ cpu.intLevel # 7
<1>1. c.sr = cpu.sr /\ c.intLevel = level /\ c = [f \in Fields |-> c[f]]
  BY DEF IInv, IsCpu, Fields
<1>2. cpu' = IF nmi THEN exception_interrupt(c, 7) ELSE check_interrupts(c)
  BY DEF m68k_set_irq
<1>3. (nmi \/ level > c.sr.mask) /\ Taken(c, level) => \E e, pc, after : frames' = Entered(e, pc, after)
  BY DEF m68k_set_irq
<1> HIDE DEF c, nmi
<1>4. ASSUME ~Taken(c, level), NEW l PROVE exception_interrupt(c, l).sr = c.sr
  <2>1. c.stopped \ {"STOP"} # {}
    BY <1>4 DEF Taken
  <2>2. [c EXCEPT !.stopped = @ \ {"STOP"}].stopped = c.stopped \ {"STOP"}
        /\ [c EXCEPT !.stopped = @ \ {"STOP"}].sr = c.sr
    BY <1>1 DEF Fields
  <2> QED  BY <2>1, <2>2 DEF exception_interrupt
<1>5. ~nmi /\ ~(level > c.sr.mask) => cpu' = c
  BY <1>1, <1>2 DEF check_interrupts
<1>6. ~Taken(c, level) => cpu'.sr = c.sr
  BY <1>2, <1>4, <1>5 DEF check_interrupts
<1> QED  BY <1>1, <1>3, <1>5, <1>6, EnteredRecorded

(* User mode is left by an exception or a reset only, whatever status      *)
(* registers a program loads or finds on its stacks (the tests of FLAG_S   *)
(* in m68k_in.c_).                                                         *)
THEOREM UserModeStays == CpuSpec => NoEscalation
<1>1. CpuInit => Recorded
  <2>1. <<>> \in Seq({})
    OBVIOUS
  <2> QED  BY <2>1 DEF CpuInit, Recorded
<1>2. ASSUME IInv, Recorded, [CpuNext]_cpuVars, ~cpu.sr.S, cpu'.sr.S
      PROVE  Len(frames') > Len(frames) \/ m68k_pulse_reset
  <2>1. cpu' # cpu
    BY <1>2
  <2>2. CASE m68k_pulse_halt
    BY <1>2, <2>2 DEF m68k_pulse_halt, IInv, IsCpu, Fields
  <2> QED  BY <1>2, <2>1, <2>2, UserInstruction, UserRequest
       DEF CpuNext, m68k_execute, m68k_execute_single_instruction, cpuVars
<1>3. IInv /\ Recorded /\ [CpuNext]_cpuVars =>
        [~cpu.sr.S /\ cpu'.sr.S => Len(frames') > Len(frames) \/ m68k_pulse_reset]_cpuVars
  BY <1>2
<1> QED  BY InitIInv, NextIInv, NextRecorded, <1>1, <1>3, PTL DEF CpuSpec, NoEscalation

-----------------------------------------------------------------------------
Regs == {"usp", "isp", "msp"}
Sps(c) == [reg \in Regs |-> get_reg(c, reg)]

Memory(mem) == mem = [a \in 0 .. MasterTop |-> mem[a]]

WellFormed(c) ==
  /\ c = [f \in Fields |-> c[f]]
  /\ c.type \in CpuTypes
  /\ c.pc \in 0 .. CodeSize - 1 /\ c.ppc \in 0 .. CodeSize - 1
  /\ c.sr \in StatusRegisters /\ (c.sr.M => c.type = "020")
  /\ c.sp \in Int /\ c.bank \in [Regs -> Int]
  /\ Memory(c.mem)
  /\ c.stopped \subseteq {"STOP", "HALT"}
  /\ c.intLevel \in Levels


(* What neither the stacks nor the modes touch.                            *)
Rest(c) == <<c.type, c.pc, c.ppc, c.stopped, c.intLevel>>

LEMMA SpsType ==
  ASSUME NEW c, WellFormed(c)
  PROVE  Sps(c) \in [Regs -> Int] /\ Sps(c)[Bank(c.sr)] = c.sp /\ Bank(c.sr) \in Regs
<1>1. Bank(c.sr) \in Regs
  BY DEF Bank, Regs
<1>2. \A reg \in Regs : get_reg(c, reg) \in Int
  BY DEF get_reg, WellFormed
<1>3. get_reg(c, Bank(c.sr)) = c.sp
  BY DEF get_reg
<1> QED  BY <1>1, <1>2, <1>3 DEF Sps

(* A change of mode moves the stack pointers between their places only.    *)
LEMMA ModeSet ==
  ASSUME NEW old \in StatusRegisters, NEW S \in BOOLEAN, NEW M \in BOOLEAN
  PROVE  /\ [old EXCEPT !.S = S, !.M = M] = [S |-> S, M |-> M, mask |-> old.mask]
         /\ [old EXCEPT !.S = S, !.M = M] \in StatusRegisters
<1> PICK new : new = [old EXCEPT !.S = S, !.M = M]
  OBVIOUS
<1>1. new = [S |-> S, M |-> M, mask |-> old.mask]
  BY Zenon DEF StatusRegisters
<1>2. new \in StatusRegisters
  BY DEF StatusRegisters
<1> QED  BY <1>1, <1>2

LEMMA SmFlagStacks ==
  ASSUME NEW c, WellFormed(c), NEW S \in BOOLEAN, NEW M \in BOOLEAN, M => c.type = "020"
  PROVE  LET d == set_sm_flag(c, S, M)
         IN /\ WellFormed(d) /\ Rest(d) = Rest(c) /\ d.mem = c.mem
            /\ d.sr = [S |-> S, M |-> M, mask |-> c.sr.mask]
            /\ d.sr.S = S /\ d.sr.M = M
            /\ Sps(d) = Sps(c)
<1> DEFINE sr == [c.sr EXCEPT !.S = S, !.M = M]
           saved == [c.bank EXCEPT ![Bank(c.sr)] = c.sp]
           d == [c EXCEPT !.sr = sr, !.bank = saved, !.sp = saved[Bank(sr)]]
<1>1. set_sm_flag(c, S, M) = d
  BY DEF set_sm_flag
<1>2. sr = [S |-> S, M |-> M, mask |-> c.sr.mask] /\ sr \in StatusRegisters
  <2>1. c.sr \in StatusRegisters
    BY DEF WellFormed
  <2> QED  BY <2>1, ModeSet
<1>3. saved \in [Regs -> Int] /\ \A reg \in Regs : saved[reg] = get_reg(c, reg)
  BY SpsType DEF WellFormed, get_reg
<1>4. Bank(sr) \in Regs
  BY DEF Bank, Regs
<1> HIDE DEF sr, saved
<1>5. /\ d = [f \in Fields |-> d[f]] /\ d.sr = sr /\ d.bank = saved /\ d.sp = saved[Bank(sr)]
      /\ d.type = c.type /\ d.pc = c.pc /\ d.ppc = c.ppc /\ d.mem = c.mem
      /\ d.stopped = c.stopped /\ d.intLevel = c.intLevel
  BY DEF WellFormed, Fields
<1> HIDE DEF d
<1>0. sr.M = M /\ sr.S = S
  BY <1>2
<1>6. WellFormed(d)
  BY <1>0, <1>2, <1>3, <1>4, <1>5 DEF WellFormed
<1>7. Sps(d) = Sps(c)
  BY <1>3, <1>5 DEF Sps, get_reg
<1> QED  BY <1>0, <1>1, <1>2, <1>5, <1>6, <1>7 DEF Rest

(* Pushes and drops, on the stack in use.                                  *)
Moves(c, d, sp) ==
  /\ WellFormed(d) /\ Rest(d) = Rest(c) /\ d.sr = c.sr /\ d.sp = sp
  /\ Sps(d) = [Sps(c) EXCEPT ![Bank(c.sr)] = sp]
Moved(c, sp, mem) == [c EXCEPT !.sp = sp, !.mem = mem]

LEMMA MoveStack ==
  ASSUME NEW c, WellFormed(c), NEW sp \in Int, NEW mem, Memory(mem),
         NEW d, d = Moved(c, sp, mem)
  PROVE  Moves(c, d, sp) /\ d.mem = mem
<1>1. /\ d = [f \in Fields |-> d[f]] /\ d.sr = c.sr /\ d.bank = c.bank /\ d.sp = sp
      /\ d.type = c.type /\ d.pc = c.pc /\ d.ppc = c.ppc /\ d.mem = mem
      /\ d.stopped = c.stopped /\ d.intLevel = c.intLevel
  BY DEF WellFormed, Fields, Moved
<1>2. WellFormed(d)
  BY <1>1 DEF WellFormed
<1>3. Sps(d) = [Sps(c) EXCEPT ![Bank(c.sr)] = sp]
  <2>1. Sps(c) = [reg \in Regs |-> get_reg(c, reg)] /\ Sps(d) = [reg \in Regs |-> get_reg(d, reg)]
    BY DEF Sps
  <2>2. \A reg \in Regs : get_reg(d, reg) = IF reg = Bank(c.sr) THEN sp ELSE get_reg(c, reg)
    BY <1>1 DEF get_reg
  <2> QED  BY <2>1, <2>2, SpsType
<1> QED  BY <1>1, <1>2, <1>3 DEF Rest, Moves

Stored(old, at, value, new) ==
  Memory(new) /\ \A a \in 0 .. MasterTop : new[a] = IF a = at THEN value ELSE old[a]

Stored32(old, at, value, low, new) ==
  \E half : Stored(old, at, value, half) /\ Stored(half, low, "low", new)

LEMMA StoreMemory ==
  ASSUME NEW mem, Memory(mem), NEW at, NEW value
  PROVE  Stored(mem, at, value, [mem EXCEPT ![at] = value])
  BY DEF Memory, Stored

LEMMA Push16Stacks ==
  ASSUME NEW c, WellFormed(c), NEW value, NEW d, d = push_16(c, value)
  PROVE  Moves(c, d, c.sp - 1) /\ Stored(c.mem, c.sp - 1, value, d.mem)
<1> PICK mem : mem = [c.mem EXCEPT ![c.sp - 1] = value]
  OBVIOUS
<1>1. Stored(c.mem, c.sp - 1, value, mem)
  BY StoreMemory DEF WellFormed
<1>2. Memory(mem) /\ c.sp - 1 \in Int
  BY <1>1 DEF WellFormed, Stored
<1>3. d = Moved(c, c.sp - 1, mem)
  BY DEF push_16, WellFormed, Fields, Moved
<1>4. Moves(c, d, c.sp - 1) /\ d.mem = mem
  BY <1>2, <1>3, MoveStack
<1> QED  BY <1>1, <1>4

LEMMA Push32Stacks ==
  ASSUME NEW c, WellFormed(c), NEW value, NEW d, d = push_32(c, value)
  PROVE  Moves(c, d, c.sp - 2) /\ Stored32(c.mem, c.sp - 2, value, c.sp - 1, d.mem)
<1> PICK half : half = [c.mem EXCEPT ![c.sp - 2] = value]
  OBVIOUS
<1> PICK mem : mem = [half EXCEPT ![c.sp - 1] = "low"]
  OBVIOUS
<1>1. Stored(c.mem, c.sp - 2, value, half)
  BY StoreMemory DEF WellFormed
<1>2. Stored(half, c.sp - 1, "low", mem)
  <2>1. Memory(half)
    BY <1>1 DEF Stored
  <2> QED  BY <2>1, StoreMemory
<1>3. Memory(mem) /\ c.sp - 2 \in Int
  BY <1>2 DEF WellFormed, Stored
<1>4. d = Moved(c, c.sp - 2, mem)
  BY DEF push_32, WellFormed, Fields, Moved
<1>5. Moves(c, d, c.sp - 2) /\ d.mem = mem
  BY <1>3, <1>4, MoveStack
<1>6. Stored32(c.mem, c.sp - 2, value, c.sp - 1, mem)
  BY <1>1, <1>2 DEF Stored32
<1> QED  BY <1>5, <1>6

LEMMA DropStacks ==
  ASSUME NEW c, WellFormed(c), NEW words \in Nat, NEW d, d = drop(c, words)
  PROVE  /\ Moves(c, d, c.sp + words)
         /\ \A a \in 0 .. MasterTop : a \notin c.sp .. c.sp + words - 1 => d.mem[a] = c.mem[a]
<1> PICK mem : mem = [a \in DOMAIN c.mem |-> IF a \in c.sp .. c.sp + words - 1 THEN "junk"
                                             ELSE c.mem[a]]
  OBVIOUS
<1>1. /\ Memory(mem) /\ c.sp + words \in Int
      /\ \A a \in 0 .. MasterTop : a \notin c.sp .. c.sp + words - 1 => mem[a] = c.mem[a]
  <2>1. DOMAIN c.mem = 0 .. MasterTop
    BY DEF WellFormed, Memory
  <2> QED  BY <2>1 DEF WellFormed, Memory
<1>2. d = Moved(c, c.sp + words, mem)
  BY DEF drop, WellFormed, Fields, Moved
<1> QED  BY <1>1, <1>2, MoveStack

-----------------------------------------------------------------------------
(* A status register loaded.                                               *)
LEMMA NointStacks ==
  ASSUME NEW c, WellFormed(c), NEW sr \in StatusRegisters, NEW d, d = set_sr_noint(c, sr)
  PROVE  /\ WellFormed(d) /\ Rest(d) = Rest(c) /\ d.mem = c.mem /\ Sps(d) = Sps(c)
         /\ d.sr.S = sr.S
         /\ (sr.M => c.type = "020") => d.sr = sr
<1> DEFINE masked == [sr EXCEPT !.M = sr.M /\ c.type = "020"]
           kept == [c EXCEPT !.sr.mask = masked.mask]
<1>1. /\ masked.S = sr.S /\ masked.M = (sr.M /\ c.type = "020") /\ masked.mask = sr.mask
      /\ sr.S \in BOOLEAN /\ sr.M \in BOOLEAN /\ sr.mask \in 0 .. 7
  BY DEF StatusRegisters
<1>2. d = set_sm_flag(kept, masked.S, masked.M)
  BY DEF set_sr_noint
<1> HIDE DEF masked
<1>3. /\ WellFormed(kept) /\ Rest(kept) = Rest(c) /\ kept.mem = c.mem
      /\ kept.sr.mask = sr.mask /\ kept.type = c.type
      /\ Sps(kept) = Sps(c)
  <2>1. c.sr \in StatusRegisters
    BY DEF WellFormed
  <2>2. /\ kept = [f \in Fields |-> kept[f]] /\ kept.sr = [c.sr EXCEPT !.mask = masked.mask]
        /\ kept.bank = c.bank /\ kept.sp = c.sp
        /\ kept.type = c.type /\ kept.pc = c.pc /\ kept.ppc = c.ppc /\ kept.mem = c.mem
        /\ kept.stopped = c.stopped /\ kept.intLevel = c.intLevel
    BY DEF WellFormed, Fields
  <2> HIDE DEF kept
  <2>3. /\ kept.sr \in StatusRegisters /\ kept.sr.M = c.sr.M /\ kept.sr.S = c.sr.S
        /\ kept.sr.mask = sr.mask
    BY <1>1, <2>1, <2>2 DEF StatusRegisters
  <2>4. WellFormed(kept)
    BY <2>2, <2>3 DEF WellFormed
  <2>5. Bank(kept.sr) = Bank(c.sr)
    BY <2>3 DEF Bank
  <2>6. Sps(kept) = Sps(c)
    BY <2>2, <2>5 DEF Sps, get_reg
  <2> QED  BY <2>2, <2>3, <2>4, <2>6 DEF Rest
<1> HIDE DEF kept
<1> PICK S \in BOOLEAN, M \in BOOLEAN : S = masked.S /\ M = masked.M
  BY <1>1
<1>4. M => kept.type = "020"
  BY <1>1, <1>3
<1>5. /\ WellFormed(d) /\ Rest(d) = Rest(kept) /\ d.mem = kept.mem /\ Sps(d) = Sps(kept)
      /\ d.sr = [S |-> S, M |-> M, mask |-> kept.sr.mask]
  BY <1>2, <1>3, <1>4, SmFlagStacks
<1>6. d.sr.S = sr.S
  BY <1>1, <1>5
<1>7. ASSUME sr.M => c.type = "020" PROVE d.sr = sr
  <2>1. d.sr = [S |-> sr.S, M |-> sr.M, mask |-> sr.mask]
    BY <1>1, <1>3, <1>5, <1>7
  <2> QED  BY <2>1 DEF StatusRegisters
<1> QED  BY <1>3, <1>5, <1>6, <1>7

-----------------------------------------------------------------------------
(* d is c with a frame of some words on the stack in use.                  *)
Pushed(c, d, words, sr, pc, format) ==
  /\ Moves(c, d, c.sp - words)
  /\ d.mem[c.sp - words] = sr /\ d.mem[c.sp - words + 1] = pc
  /\ words > 3 => d.mem[c.sp - words + 3] = [format |-> format]
  /\ \A a \in 0 .. MasterTop : a \notin c.sp - words .. c.sp - 1 => d.mem[a] = c.mem[a]

LEMMA TwoPushes ==
  ASSUME NEW c, WellFormed(c), c.sp - 6 >= 0, c.sp <= MasterTop, NEW words \in {0, 1, 3},
         NEW pc, NEW sr, NEW b, NEW format,
         Moves(c, b, c.sp - words),
         words > 0 => b.mem[c.sp - words] = [format |-> format],
         \A a \in 0 .. MasterTop : a \notin c.sp - words .. c.sp - 1 => b.mem[a] = c.mem[a]
  PROVE  Pushed(c, push_16(push_32(b, pc), sr), words + 3, sr, pc, format)
<1> PICK sp, top, bank, sps :
      /\ sp \in Int /\ top \in Nat
      /\ sp = c.sp /\ top = MasterTop /\ bank = Bank(c.sr) /\ sps = Sps(c)
  BY CpuAssumption DEF WellFormed
<1>0. sps \in [Regs -> Int] /\ bank \in Regs /\ sp - 6 >= 0 /\ sp <= top
  BY SpsType
<1> PICK d : d = push_32(b, pc)
  OBVIOUS
<1> PICK e : e = push_16(d, sr)
  OBVIOUS
<1>1. Moves(b, d, b.sp - 2) /\ Stored32(b.mem, b.sp - 2, pc, b.sp - 1, d.mem)
  <2>1. WellFormed(b)
    BY DEF Moves
  <2> QED  BY <2>1, Push32Stacks
<1>2. Moves(d, e, d.sp - 1) /\ Stored(d.mem, d.sp - 1, sr, e.mem)
  <2>1. WellFormed(d)
    BY <1>1 DEF Moves
  <2> QED  BY <2>1, Push16Stacks
<1>3. /\ b.sp = sp - words /\ d.sp = sp - words - 2 /\ e.sp = sp - (words + 3)
      /\ Bank(b.sr) = bank /\ Bank(d.sr) = bank
  BY <1>1, <1>2 DEF Moves
<1>4. Sps(e) = [sps EXCEPT ![bank] = sp - (words + 3)]
  BY <1>0, <1>1, <1>2, <1>3 DEF Moves
<1> PICK half : Stored(b.mem, b.sp - 2, pc, half) /\ Stored(half, b.sp - 1, "low", d.mem)
  BY <1>1 DEF Stored32
<1>5. /\ \A a \in 0 .. top : half[a] = IF a = sp - words - 2 THEN pc ELSE b.mem[a]
      /\ \A a \in 0 .. top : d.mem[a] = IF a = sp - words - 1 THEN "low" ELSE half[a]
      /\ \A a \in 0 .. top : e.mem[a] = IF a = sp - words - 3 THEN sr ELSE d.mem[a]
  BY <1>2, <1>3 DEF Stored
<1>6. e.mem[sp - words - 3] = sr /\ e.mem[sp - words - 2] = pc
  <2>1. sp - words - 3 \in 0 .. top /\ sp - words - 2 \in 0 .. top
    BY <1>0
  <2> QED  BY <1>5, <2>1
<1>7. words > 0 => e.mem[sp - words] = [format |-> format]
  <2>1. sp - words \in 0 .. top
    BY <1>0
  <2> QED  BY <1>5, <2>1
<1>8. ASSUME NEW a \in 0 .. top, a \notin sp - (words + 3) .. sp - 1 PROVE e.mem[a] = c.mem[a]
  <2>1. a \notin sp - words .. sp - 1 /\ a \notin {sp - words - 1, sp - words - 2, sp - words - 3}
    BY <1>0, <1>8
  <2> QED  BY <1>5, <2>1
<1>9. /\ sp - (words + 3) = sp - words - 3 /\ sp - (words + 3) + 1 = sp - words - 2
      /\ sp - (words + 3) + 3 = sp - words /\ (words + 3 > 3 <=> words > 0)
  OBVIOUS
<1>10. Moves(c, e, sp - (words + 3))
  BY <1>1, <1>2, <1>3, <1>4 DEF Moves
<1> QED  BY <1>6, <1>7, <1>8, <1>9, <1>10 DEF Pushed

LEMMA FramePushed ==
  ASSUME NEW c, WellFormed(c), c.sp - 6 >= 0, c.sp <= MasterTop, NEW pc, NEW sr
  PROVE  /\ Pushed(c, stack_frame_0000(c, pc, sr), IF c.type = "000" THEN 3 ELSE 4, sr, pc, 0)
         /\ Pushed(c, stack_frame_0001(c, pc, sr), 4, sr, pc, 1)
         /\ Pushed(c, stack_frame_0010(c, sr), 6, sr, c.pc, 2)
<1> PICK sp, top, bank, sps :
      /\ sp \in Int /\ top \in Nat
      /\ sp = c.sp /\ top = MasterTop /\ bank = Bank(c.sr) /\ sps = Sps(c)
  BY CpuAssumption DEF WellFormed
<1>0. sps \in [Regs -> Int] /\ bank \in Regs /\ sps[bank] = sp /\ sp - 6 >= 0 /\ sp <= top
  BY SpsType
<1>1. Pushed(c, push_16(push_32(c, pc), sr), 3, sr, pc, 0)
  <2>1. sps = [sps EXCEPT ![bank] = sp - 0] /\ sp = sp - 0
    BY <1>0
  <2>2. Moves(c, c, c.sp - 0)
    BY <2>1 DEF Moves
  <2> QED  BY <2>2, TwoPushes
<1>2. ASSUME NEW format
      PROVE  Pushed(c, push_16(push_32(push_16(c, [format |-> format]), pc), sr), 4, sr, pc, format)
  <2> PICK b : b = push_16(c, [format |-> format])
    OBVIOUS
  <2>1. Moves(c, b, c.sp - 1) /\ Stored(c.mem, c.sp - 1, [format |-> format], b.mem)
    BY Push16Stacks
  <2>2. /\ b.mem[c.sp - 1] = [format |-> format]
        /\ \A a \in 0 .. MasterTop : a \notin c.sp - 1 .. c.sp - 1 => b.mem[a] = c.mem[a]
    BY <1>0, <2>1 DEF Stored
  <2> QED  BY <2>1, <2>2, TwoPushes
<1>3. Pushed(c, push_16(push_32(push_16(push_32(c, c.ppc), [format |-> 2]), c.pc), sr), 6, sr, c.pc, 2)
  <2> PICK d : d = push_32(c, c.ppc)
    OBVIOUS
  <2> PICK b : b = push_16(d, [format |-> 2])
    OBVIOUS
  <2>1. Moves(c, d, c.sp - 2) /\ Stored32(c.mem, c.sp - 2, c.ppc, c.sp - 1, d.mem)
    BY Push32Stacks
  <2>2. Moves(d, b, d.sp - 1) /\ Stored(d.mem, d.sp - 1, [format |-> 2], b.mem)
    <3>1. WellFormed(d)
      BY <2>1 DEF Moves
    <3> QED  BY <3>1, Push16Stacks
  <2> PICK half : Stored(c.mem, c.sp - 2, c.ppc, half) /\ Stored(half, c.sp - 1, "low", d.mem)
    BY <2>1 DEF Stored32
  <2>3. /\ b.mem[sp - 3] = [format |-> 2]
        /\ \A a \in 0 .. top : a \notin sp - 3 .. sp - 1 => b.mem[a] = c.mem[a]
    <3>1. d.sp = sp - 2
      BY <2>1 DEF Moves
    <3> QED  BY <1>0, <2>2, <3>1 DEF Stored
  <2>4. Moves(c, b, c.sp - 3)
    BY <1>0, <2>1, <2>2 DEF Moves
  <2> QED  BY <2>3, <2>4, TwoPushes
<1> QED  BY <1>1, <1>2, <1>3 DEF stack_frame_0000, stack_frame_0001, stack_frame_0010

(* A pending exception f in memory: the words rte finds between bottom and *)
(* top, by the format it will read there.                                  *)
Holds(mem, type, f, bottom, top) ==
  /\ mem[bottom] = f.saved.sr /\ mem[bottom + 1] = f.saved.pc
  /\ \/ type = "000" /\ top - bottom = 3
     \/ type # "000" /\ top - bottom = 4 /\ mem[bottom + 3] = [format |-> 0]
     \/ type = "020" /\ top - bottom = 6 /\ mem[bottom + 3] = [format |-> 2]

FrameBank(f) == IF f.saved.sr.M THEN "msp" ELSE "isp"

(* f on its stack, or on the master stack with a throwaway frame on the    *)
(* interrupt stack; after are the stack pointers it left.                  *)
FrameOn(mem, type, f, after) ==
  \/ /\ f.mode = FrameBank(f)
     /\ after = [f.saved.sps EXCEPT ![FrameBank(f)] = f.sp]
     /\ Holds(mem, type, f, f.sp, f.saved.sps[FrameBank(f)])
  \/ /\ f.saved.sr.M /\ f.mode = "isp" /\ type = "020"
     /\ after = [f.saved.sps EXCEPT !.isp = f.sp, !.msp = @ - 4]
     /\ Holds(mem, type, f, f.saved.sps.msp - 4, f.saved.sps.msp)
     /\ f.sp = f.saved.sps.isp - 4
     /\ mem[f.sp] = [f.saved.sr EXCEPT !.S = TRUE] /\ mem[f.sp + 3] = [format |-> 1]

(* StackRoom, and the part of memory of each stack.                        *)
Room(sps) == sps.isp - 6 >= UserTop /\ sps.msp - 6 >= InterruptTop

Within(sps) ==
  sps.usp = UserTop /\ sps.isp \in UserTop .. InterruptTop /\ sps.msp \in InterruptTop .. MasterTop

Saved == [sr : StatusRegisters, pc : 0 .. CodeSize - 1, sps : [Regs -> Int]]
Frame == [saved : Saved, mode : Regs, sp : Int]

-----------------------------------------------------------------------------
(* Entering an exception: what it records of c, and what holds of d then.  *)
Record(c, pc, d) == [saved |-> Context(c, pc), mode |-> Bank(d.sr), sp |-> d.sp]

Untouched(c, d) ==
  \A a \in 0 .. MasterTop :
    a \notin Sps(d).isp .. Sps(c).isp - 1 /\ a \notin Sps(d).msp .. Sps(c).msp - 1 => d.mem[a] = c.mem[a]

Enters(c, pc, d) ==
  /\ WellFormed(d) /\ d.type = c.type
  /\ Within(Sps(d)) /\ Sps(d).isp <= Sps(c).isp /\ Sps(d).msp <= Sps(c).msp
  /\ Untouched(c, d)
  /\ FrameOn(d.mem, d.type, Record(c, pc, d), Sps(d))

Shape(type, words, format) ==
  \/ type = "000" /\ words = 3
  \/ type # "000" /\ words = 4 /\ format = 0
  \/ type = "020" /\ words = 6 /\ format = 2

(* e is c in supervisor mode. *)
Supervisor(c, e) ==
  /\ WellFormed(e) /\ e.type = c.type /\ e.mem = c.mem /\ Sps(e) = Sps(c)
  /\ e.sr.S /\ e.sr.M = c.sr.M

LEMMA BaseBounds ==
  /\ UserTop \in Nat /\ InterruptTop \in Nat /\ MasterTop \in Nat
  /\ UserTop <= InterruptTop /\ InterruptTop <= MasterTop
  BY CpuAssumption

LEMMA WithinBounds ==
  ASSUME NEW c, WellFormed(c), Within(Sps(c)), Room(Sps(c))
  PROVE  Sps(c).isp - 6 >= 0 /\ Sps(c).isp <= MasterTop
<1> PICK isp \in Int : isp = Sps(c).isp
  BY SpsType DEF Regs
<1>1. isp \in UserTop .. InterruptTop /\ isp - 6 >= UserTop
  BY DEF Within, Room
<1>2. isp - 6 >= 0 /\ isp <= MasterTop
  BY <1>1, BaseBounds
<1> QED  BY <1>2

LEMMA RecordFields ==
  ASSUME NEW c, NEW pc, NEW d
  PROVE  /\ Record(c, pc, d).saved.sr = c.sr /\ Record(c, pc, d).saved.pc = pc
         /\ Record(c, pc, d).saved.sps = Sps(c)
         /\ Record(c, pc, d).mode = Bank(d.sr) /\ Record(c, pc, d).sp = d.sp
  BY DEF Record, Context, Sps, Regs

(* t is d with the interrupt stack in use. *)
ToInterruptStack(d, t) ==
  /\ WellFormed(t) /\ t.type = d.type /\ t.mem = d.mem /\ Sps(t) = Sps(d)
  /\ t.sr.S /\ ~t.sr.M

LEMMA InitSupervisor ==
  ASSUME NEW c, WellFormed(c)
  PROVE  Supervisor(c, init_exception(c)) /\ Rest(init_exception(c)) = Rest(c)
<1> PICK e : e = init_exception(c)
  OBVIOUS
<1> PICK M \in BOOLEAN : M = c.sr.M /\ (M => c.type = "020")
  BY DEF WellFormed, StatusRegisters
<1>1. /\ WellFormed(e) /\ Rest(e) = Rest(c) /\ e.mem = c.mem /\ Sps(e) = Sps(c)
      /\ e.sr = [S |-> TRUE, M |-> M, mask |-> c.sr.mask]
  BY ZenonT(60), SmFlagStacks DEF init_exception
<1> QED  BY <1>1 DEF Supervisor, Rest

LEMMA MaskSupervisor ==
  ASSUME NEW c, NEW i, Supervisor(c, i), NEW level \in 0 .. 7
  PROVE  Supervisor(c, [i EXCEPT !.sr.mask = level])
<1> PICK e : e = [i EXCEPT !.sr.mask = level]
  OBVIOUS
<1> PICK old, sr : old \in StatusRegisters /\ old = i.sr /\ sr = [old EXCEPT !.mask = level]
  BY DEF Supervisor, WellFormed
<1>1. /\ e = [f \in Fields |-> e[f]] /\ e.sr = sr
      /\ e.type = i.type /\ e.sp = i.sp /\ e.bank = i.bank /\ e.mem = i.mem
      /\ e.pc = i.pc /\ e.ppc = i.ppc /\ e.stopped = i.stopped /\ e.intLevel = i.intLevel
  BY DEF Supervisor, WellFormed, Fields
<1>2. sr \in StatusRegisters /\ sr.S = old.S /\ sr.M = old.M
  BY DEF StatusRegisters
<1>3. WellFormed(e)
  BY <1>1, <1>2 DEF Supervisor, WellFormed
<1>4. Bank(e.sr) = Bank(i.sr)
  BY <1>1, <1>2 DEF Bank
<1>5. Sps(e) = Sps(i)
  BY <1>1, <1>4 DEF Sps, get_reg
<1> QED  BY <1>1, <1>2, <1>3, <1>5 DEF Supervisor

LEMMA InterruptStackUsed ==
  ASSUME NEW d, WellFormed(d)
  PROVE  ToInterruptStack(d, set_sm_flag(d, TRUE, FALSE))
<1> PICK t : t = set_sm_flag(d, TRUE, FALSE)
  OBVIOUS
<1>1. /\ WellFormed(t) /\ Rest(t) = Rest(d) /\ t.mem = d.mem /\ Sps(t) = Sps(d)
      /\ t.sr.S = TRUE /\ t.sr.M = FALSE
  BY SmFlagStacks
<1> QED  BY <1>1 DEF ToInterruptStack, Rest

LEMMA SupervisorRoom ==
  ASSUME NEW c, WellFormed(c), Within(Sps(c)), Room(Sps(c)), NEW e, Supervisor(c, e)
  PROVE  e.sp - 6 >= 0 /\ e.sp <= MasterTop
<1>1. Bank(e.sr) \in {"isp", "msp"} /\ Sps(c)[Bank(e.sr)] = e.sp
  BY SpsType DEF Supervisor, Bank
<1> PICK isp \in Int, msp \in Int : isp = Sps(c).isp /\ msp = Sps(c).msp
  BY SpsType DEF Regs
<1>2. e.sp \in {isp, msp}
  BY <1>1
<1> QED  BY <1>2, BaseBounds DEF Within, Room

LEMMA FrameEnters ==
  ASSUME NEW c, WellFormed(c), Within(Sps(c)), Room(Sps(c)), NEW pc,
         NEW e, Supervisor(c, e), NEW words, NEW format, Shape(c.type, words, format),
         NEW d, Pushed(e, d, words, c.sr, pc, format)
  PROVE  Enters(c, pc, d)
<1> PICK sps, f : sps \in [Regs -> Int] /\ sps = Sps(c) /\ f = Record(c, pc, d)
  BY SpsType
<1>1. /\ f.saved.sr = c.sr /\ f.saved.pc = pc /\ f.saved.sps = sps
      /\ f.mode = Bank(d.sr) /\ f.sp = d.sp
  BY RecordFields
<1> PICK bank \in {"isp", "msp"} : bank = FrameBank(f)
  BY DEF FrameBank
<1>2. words \in {3, 4, 6}
  BY DEF Shape
<1>3. Bank(e.sr) = bank /\ e.sp = sps[bank] /\ c.type = e.type /\ e.mem = c.mem
  <2>1. Bank(e.sr) = bank
    BY <1>1 DEF Supervisor, Bank, FrameBank
  <2> QED  BY <2>1, SpsType DEF Supervisor
<1>4. /\ WellFormed(d) /\ d.type = c.type /\ d.sr = e.sr /\ d.sp = sps[bank] - words
      /\ Sps(d) = [sps EXCEPT ![bank] = sps[bank] - words]
  BY <1>3 DEF Pushed, Moves, Rest, Supervisor
<1>5. /\ sps.usp = UserTop /\ sps.isp \in UserTop + 6 .. InterruptTop
      /\ sps.msp \in InterruptTop + 6 .. MasterTop
  BY BaseBounds DEF Within, Room, Regs
<1>6. Within(Sps(d)) /\ Sps(d).isp <= sps.isp /\ Sps(d).msp <= sps.msp
  BY <1>2, <1>4, <1>5, BaseBounds DEF Within, Regs
<1>7. Untouched(c, d)
  <2>1. \A a \in 0 .. MasterTop : a \notin sps[bank] - words .. sps[bank] - 1 => d.mem[a] = c.mem[a]
    BY <1>3 DEF Pushed
  <2>2. Sps(d)[bank] = sps[bank] - words
    BY <1>4 DEF Regs
  <2> QED  BY <2>1, <2>2 DEF Untouched
<1>8. FrameOn(d.mem, d.type, f, Sps(d))
  <2>1. f.mode = FrameBank(f) /\ f.sp = sps[bank] - words
    BY <1>1, <1>3, <1>4
  <2>2. Sps(d) = [f.saved.sps EXCEPT ![FrameBank(f)] = f.sp]
    BY <1>1, <1>4
  <2>3. Holds(d.mem, d.type, f, f.sp, sps[bank])
    <3>1. d.mem[f.sp] = c.sr /\ d.mem[f.sp + 1] = pc
      BY <1>3, <2>1 DEF Pushed
    <3>2. words > 3 => d.mem[f.sp + 3] = [format |-> format]
      BY <1>3, <2>1 DEF Pushed
    <3>3. sps[bank] - f.sp = words
      BY <1>2, <2>1 DEF Regs
    <3> QED  BY <1>1, <1>4, <3>1, <3>2, <3>3 DEF Holds, Shape
  <2> QED  BY <1>1, <2>1, <2>2, <2>3 DEF FrameOn
<1> QED  BY <1>4, <1>6, <1>7, <1>8 DEF Enters

(* With the master stack in use: its frame, then the throwaway one.        *)
LEMMA ThrownEnters ==
  ASSUME NEW c, WellFormed(c), Within(Sps(c)), Room(Sps(c)), c.type = "020", c.sr.M, NEW pc,
         NEW e, Supervisor(c, e), NEW d, Pushed(e, d, 4, c.sr, pc, 0),
         NEW t, ToInterruptStack(d, t),
         NEW g, Pushed(t, g, 4, [c.sr EXCEPT !.S = TRUE], pc, 1)
  PROVE  Enters(c, pc, g)
<1> PICK sps, f : sps \in [Regs -> Int] /\ sps = Sps(c) /\ f = Record(c, pc, g)
  BY SpsType
<1>1. /\ f.saved.sr = c.sr /\ f.saved.pc = pc /\ f.saved.sps = sps
      /\ f.mode = Bank(g.sr) /\ f.sp = g.sp
  BY RecordFields
<1> PICK isp \in Int, msp \in Int : isp = sps.isp /\ msp = sps.msp
  BY DEF Regs
<1>2. Bank(e.sr) = "msp" /\ e.sp = msp /\ c.type = e.type /\ e.mem = c.mem
  <2>1. Bank(e.sr) = "msp"
    BY DEF Supervisor, Bank
  <2> QED  BY <2>1, SpsType DEF Supervisor
<1>3. /\ WellFormed(d) /\ d.type = c.type /\ Sps(d) = [sps EXCEPT !.msp = msp - 4]
      /\ d.mem[msp - 4] = c.sr /\ d.mem[msp - 4 + 1] = pc /\ d.mem[msp - 4 + 3] = [format |-> 0]
      /\ \A a \in 0 .. MasterTop : a \notin msp - 4 .. msp - 1 => d.mem[a] = c.mem[a]
  <2>1. WellFormed(d) /\ d.type = c.type /\ Sps(d) = [sps EXCEPT !.msp = msp - 4]
    BY <1>2 DEF Pushed, Moves, Rest, Supervisor
  <2>2. d.mem[msp - 4] = c.sr /\ d.mem[msp - 4 + 1] = pc /\ d.mem[msp - 4 + 3] = [format |-> 0]
    BY <1>2 DEF Pushed
  <2>3. \A a \in 0 .. MasterTop : a \notin msp - 4 .. msp - 1 => d.mem[a] = c.mem[a]
    BY <1>2 DEF Pushed
  <2> QED  BY <2>1, <2>2, <2>3
<1>4. Bank(t.sr) = "isp" /\ t.sp = isp
  <2>1. Bank(t.sr) = "isp"
    BY DEF Bank, ToInterruptStack
  <2> QED  BY <1>3, <2>1, SpsType DEF Regs, ToInterruptStack
<1>5. /\ WellFormed(g) /\ g.type = c.type /\ g.sr = t.sr /\ g.sp = isp - 4
      /\ Sps(g) = [sps EXCEPT !.isp = isp - 4, !.msp = msp - 4]
      /\ g.mem[isp - 4] = [c.sr EXCEPT !.S = TRUE] /\ g.mem[isp - 4 + 3] = [format |-> 1]
      /\ \A a \in 0 .. MasterTop : a \notin isp - 4 .. isp - 1 => g.mem[a] = d.mem[a]
  <2>1. WellFormed(g) /\ g.type = c.type /\ g.sr = t.sr /\ g.sp = isp - 4
    BY <1>3, <1>4 DEF Pushed, Moves, Rest, ToInterruptStack
  <2>2. Sps(g) = [sps EXCEPT !.isp = isp - 4, !.msp = msp - 4]
    <3>1. Sps(g) = [Sps(t) EXCEPT !["isp"] = isp - 4]
      BY <1>4 DEF Pushed, Moves
    <3>2. [Sps(t) EXCEPT !["isp"] = isp - 4] = [[sps EXCEPT !["msp"] = msp - 4] EXCEPT !["isp"] = isp - 4]
      BY <1>3 DEF ToInterruptStack
    <3> QED  BY <3>1, <3>2 DEF Regs
  <2>3. g.mem[isp - 4] = [c.sr EXCEPT !.S = TRUE] /\ g.mem[isp - 4 + 3] = [format |-> 1]
    BY <1>4 DEF Pushed
  <2>4. \A a \in 0 .. MasterTop : a \notin isp - 4 .. isp - 1 => g.mem[a] = d.mem[a]
    BY <1>4 DEF Pushed, ToInterruptStack
  <2> QED  BY <2>1, <2>2, <2>3, <2>4
<1>6. /\ sps.usp = UserTop /\ isp \in UserTop + 6 .. InterruptTop
      /\ msp \in InterruptTop + 6 .. MasterTop
  BY BaseBounds DEF Within, Room, Regs
<1>7. Within(Sps(g)) /\ Sps(g).isp = isp - 4 /\ Sps(g).msp = msp - 4
  BY <1>5, <1>6, BaseBounds DEF Within, Regs
<1>8. Untouched(c, g)
  BY <1>3, <1>5, <1>7 DEF Untouched
<1>9. FrameOn(g.mem, g.type, f, Sps(g))
  <2>1. f.mode = "isp" /\ f.sp = isp - 4
    BY <1>1, <1>4, <1>5
  <2>2. g.mem[msp - 4] = c.sr /\ g.mem[msp - 4 + 1] = pc /\ g.mem[msp - 4 + 3] = [format |-> 0]
    <3>1. \A a \in msp - 4 .. msp - 1 : a \in 0 .. MasterTop /\ a \notin isp - 4 .. isp - 1
      BY <1>6, BaseBounds
    <3> QED  BY <1>3, <1>5, <3>1
  <2>3. Holds(g.mem, g.type, f, msp - 4, msp)
    BY <1>1, <1>5, <2>2 DEF Holds
  <2> QED  BY <1>1, <1>5, <2>1, <2>3 DEF FrameOn
<1> QED  BY <1>5, <1>6, <1>7, <1>8, <1>9 DEF Enters

(* Changes to the pc, the stop levels and the request.                     *)
Alike(c, d) ==
  /\ WellFormed(d) /\ d.type = c.type /\ d.mem = c.mem /\ d.sr = c.sr /\ d.sp = c.sp
  /\ Sps(d) = Sps(c)

LEMMA EntersAlike ==
  ASSUME NEW c, NEW pc, NEW d, Enters(c, pc, d), NEW e, Alike(d, e)
  PROVE  Enters(c, pc, e)
<1>1. Record(c, pc, e) = Record(c, pc, d)
  BY DEF Record, Alike
<1> QED  BY <1>1 DEF Enters, Alike, Untouched

LEMMA PatchAlike ==
  ASSUME NEW c, WellFormed(c)
  PROVE  /\ \A pc \in 0 .. CodeSize - 1 : Alike(c, [c EXCEPT !.pc = pc])
         /\ \A pc \in 0 .. CodeSize - 1 : Alike(c, [c EXCEPT !.pc = pc, !.intLevel = 0])
         /\ \A pc, ppc \in 0 .. CodeSize - 1 : Alike(c, [c EXCEPT !.ppc = ppc, !.pc = pc])
         /\ \A level \in Levels : Alike(c, [c EXCEPT !.intLevel = level])
         /\ \A stopped \in SUBSET {"STOP", "HALT"} : Alike(c, [c EXCEPT !.stopped = stopped])
<1>1. ASSUME NEW d, d = [f \in Fields |-> d[f]],
             \A f \in {"type", "sp", "sr", "bank", "mem"} : d[f] = c[f],
             d.pc \in 0 .. CodeSize - 1, d.ppc \in 0 .. CodeSize - 1,
             d.intLevel \in Levels, d.stopped \subseteq {"STOP", "HALT"}
      PROVE  Alike(c, d)
  <2>1. d.type = c.type /\ d.mem = c.mem /\ d.sr = c.sr /\ d.sp = c.sp /\ d.bank = c.bank
    BY <1>1
  <2>2. WellFormed(d)
    BY <1>1, <2>1 DEF WellFormed
  <2>3. Sps(d) = Sps(c)
    BY <2>1 DEF Sps, get_reg
  <2> QED  BY <2>1, <2>2, <2>3 DEF Alike
<1>2. 0 \in Levels
  BY CpuAssumption
<1>3. \A pc \in 0 .. CodeSize - 1 : Alike(c, [c EXCEPT !.pc = pc])
  BY <1>1 DEF WellFormed, Fields
<1>4. \A pc \in 0 .. CodeSize - 1 : Alike(c, [c EXCEPT !.pc = pc, !.intLevel = 0])
  <2> TAKE pc \in 0 .. CodeSize - 1
  <2> PICK d : d = [c EXCEPT !.pc = pc, !.intLevel = 0]
    OBVIOUS
  <2>1. /\ d = [f \in Fields |-> d[f]] /\ \A f \in {"type", "sp", "sr", "bank", "mem"} : d[f] = c[f]
        /\ d.pc = pc /\ d.ppc = c.ppc /\ d.intLevel = 0 /\ d.stopped = c.stopped
    BY DEF WellFormed, Fields
  <2>2. d.pc \in 0 .. CodeSize - 1 /\ d.ppc \in 0 .. CodeSize - 1 /\ d.intLevel \in Levels
        /\ d.stopped \subseteq {"STOP", "HALT"}
    BY <1>2, <2>1 DEF WellFormed
  <2>3. Alike(c, d)
    BY <1>1, <2>1, <2>2
  <2> QED  BY <2>3
<1>5. \A pc, ppc \in 0 .. CodeSize - 1 : Alike(c, [c EXCEPT !.ppc = ppc, !.pc = pc])
  <2> TAKE pc \in 0 .. CodeSize - 1, ppc \in 0 .. CodeSize - 1
  <2> PICK d : d = [c EXCEPT !.ppc = ppc, !.pc = pc]
    OBVIOUS
  <2>1. /\ d = [f \in Fields |-> d[f]] /\ \A f \in {"type", "sp", "sr", "bank", "mem"} : d[f] = c[f]
        /\ d.pc = pc /\ d.ppc = ppc /\ d.intLevel = c.intLevel /\ d.stopped = c.stopped
    BY DEF WellFormed, Fields
  <2>2. d.pc \in 0 .. CodeSize - 1 /\ d.ppc \in 0 .. CodeSize - 1 /\ d.intLevel \in Levels
        /\ d.stopped \subseteq {"STOP", "HALT"}
    BY <2>1 DEF WellFormed
  <2>3. Alike(c, d)
    BY <1>1, <2>1, <2>2
  <2> QED  BY <2>3
<1>6. \A level \in Levels : Alike(c, [c EXCEPT !.intLevel = level])
  BY <1>1 DEF WellFormed, Fields
<1>7. \A stopped \in SUBSET {"STOP", "HALT"} : Alike(c, [c EXCEPT !.stopped = stopped])
  BY <1>1 DEF WellFormed, Fields
<1> QED  BY <1>3, <1>4, <1>5, <1>6, <1>7

LEMMA FetchAlike ==
  ASSUME NEW c, WellFormed(c)
  PROVE  Alike(c, Fetch(c))
<1>1. c.pc \in 0 .. CodeSize - 1 /\ (c.pc + 1) % CodeSize \in 0 .. CodeSize - 1
  BY CpuAssumption DEF WellFormed
<1> QED  BY <1>1, PatchAlike DEF Fetch

LEMMA VectorsInCode ==
  /\ \A v \in Vectors : VectorTable[v] \in 0 .. CodeSize - 1
  /\ {4, 6, 8, 15, 32} \subseteq Vectors
  /\ \A l \in Levels \ {0} : 24 + l \in Vectors
<1>1. \A l \in Levels \ {0} : 24 + l \in Vectors
  BY DEF Vectors
<1>2. {4, 6, 8, 15, 32} \subseteq Vectors
  BY DEF Vectors
<1> QED  BY <1>1, <1>2, CpuAssumption

(* Traps and faults. *)
LEMMA ExceptionsEnter ==
  ASSUME NEW c, WellFormed(c), Within(Sps(c)), Room(Sps(c)), NEW v \in {4, 6, 8, 15, 32}
  PROVE  /\ Enters(c, c.pc, exception_trap(c, v))
         /\ Enters(c, c.pc, exception_trapN(c, v))
         /\ Enters(c, c.ppc, exception_again(c, v))
<1> PICK e : e = init_exception(c)
  OBVIOUS
<1>1. Supervisor(c, e) /\ e.pc = c.pc /\ WellFormed(e)
  BY InitSupervisor DEF Rest, Supervisor
<1>2. e.sp - 6 >= 0 /\ e.sp <= MasterTop
  BY <1>1, SupervisorRoom
<1>3. VectorTable[v] \in 0 .. CodeSize - 1
  BY VectorsInCode
<1>4. ASSUME NEW d, NEW pc, Enters(c, pc, d) PROVE Enters(c, pc, jump_vector(d, v))
  <2>1. Alike(d, jump_vector(d, v))
    BY <1>3, <1>4, PatchAlike DEF Enters, jump_vector
  <2> QED  BY <1>4, <2>1, EntersAlike
<1>5. ASSUME NEW pc PROVE Enters(c, pc, stack_frame_0000(e, pc, c.sr))
  <2>1. Pushed(e, stack_frame_0000(e, pc, c.sr), IF e.type = "000" THEN 3 ELSE 4, c.sr, pc, 0)
    BY <1>1, <1>2, FramePushed
  <2>2. Shape(c.type, IF e.type = "000" THEN 3 ELSE 4, 0)
    BY <1>1 DEF Shape, Supervisor
  <2> QED  BY <1>1, <2>1, <2>2, FrameEnters
<1>6. c.type = "020" => Enters(c, c.pc, stack_frame_0010(e, c.sr))
  <2>1. Pushed(e, stack_frame_0010(e, c.sr), 6, c.sr, c.pc, 2)
    BY <1>1, <1>2, FramePushed
  <2>2. c.type = "020" => Shape(c.type, 6, 2)
    BY DEF Shape
  <2> QED  BY <1>1, <2>1, <2>2, FrameEnters
<1>7. Enters(c, c.pc, exception_trap(c, v))
  BY <1>1, <1>4, <1>5, <1>6 DEF exception_trap
<1>8. Enters(c, c.pc, exception_trapN(c, v)) /\ Enters(c, c.ppc, exception_again(c, v))
  BY <1>4, <1>5 DEF exception_trapN, exception_again
<1> QED  BY <1>7, <1>8

(* Interrupts. *)
LEMMA AwakeAlike ==
  ASSUME NEW c, WellFormed(c)
  PROVE  /\ Alike(c, [c EXCEPT !.stopped = @ \ {"STOP"}])
         /\ [c EXCEPT !.stopped = @ \ {"STOP"}].stopped = c.stopped \ {"STOP"}
<1> PICK stopped \in SUBSET {"STOP", "HALT"} : stopped = c.stopped \ {"STOP"}
  BY DEF WellFormed
<1>1. [c EXCEPT !.stopped = @ \ {"STOP"}] = [c EXCEPT !.stopped = stopped]
  BY DEF WellFormed, Fields
<1>2. [c EXCEPT !.stopped = stopped].stopped = stopped
  BY DEF WellFormed, Fields
<1> QED  BY <1>1, <1>2, PatchAlike

LEMMA InterruptFrames ==
  ASSUME NEW c, WellFormed(c), Within(Sps(c)), Room(Sps(c)), NEW e, Supervisor(c, e), NEW pc,
         NEW d, d = stack_frame_0000(e, pc, c.sr),
         NEW t, t = set_sm_flag(d, TRUE, FALSE),
         NEW sr, sr = [c.sr EXCEPT !.S = TRUE]
  PROVE  /\ Enters(c, pc, d)
         /\ e.sr.M /\ c.type = "020" => Enters(c, pc, stack_frame_0001(t, pc, sr))
<1> PICK words : words = IF e.type = "000" THEN 3 ELSE 4
  OBVIOUS
<1>1. Pushed(e, d, words, c.sr, pc, 0)
  <2>1. e.sp - 6 >= 0 /\ e.sp <= MasterTop /\ WellFormed(e)
    BY SupervisorRoom DEF Supervisor
  <2> QED  BY <2>1, FramePushed
<1>2. Enters(c, pc, d)
  <2>1. Shape(c.type, words, 0)
    BY DEF Shape, Supervisor
  <2> QED  BY <1>1, <2>1, FrameEnters
<1>3. ASSUME e.sr.M, c.type = "020" PROVE Enters(c, pc, stack_frame_0001(t, pc, sr))
  <2>1. c.sr.M /\ Pushed(e, d, 4, c.sr, pc, 0) /\ Bank(e.sr) = "msp"
    BY <1>1, <1>3 DEF Supervisor, Bank
  <2>2. ToInterruptStack(d, t)
    BY <1>2, InterruptStackUsed DEF Enters
  <2>3. t.sp = Sps(c).isp
    <3>1. Bank(t.sr) = "isp"
      BY <2>2 DEF Bank, ToInterruptStack
    <3>2. t.sp = Sps(d)["isp"]
      BY <2>2, <3>1, SpsType DEF ToInterruptStack
    <3>3. Sps(d) = [Sps(c) EXCEPT !["msp"] = e.sp - 4]
      BY <2>1 DEF Pushed, Moves, Supervisor
    <3> QED  BY <3>2, <3>3, SpsType DEF Regs
  <2>4. t.sp - 6 >= 0 /\ t.sp <= MasterTop
    BY <2>3, WithinBounds
  <2>5. Pushed(t, stack_frame_0001(t, pc, sr), 4, sr, pc, 1)
    BY <2>2, <2>4, FramePushed DEF ToInterruptStack
  <2> QED  BY <1>3, <2>1, <2>2, <2>5, ThrownEnters
<1> QED  BY <1>2, <1>3

LEMMA InterruptEnters ==
  ASSUME NEW c, WellFormed(c), Within(Sps(c)), Room(Sps(c)), NEW level \in Levels \ {0},
         Taken(c, level)
  PROVE  Enters(c, c.pc, exception_interrupt(c, level))
<1> DEFINE awake == [c EXCEPT !.stopped = @ \ {"STOP"}]
           e == [init_exception(awake) EXCEPT !.sr.mask = level]
           sr == [c.sr EXCEPT !.S = TRUE]
           framed == stack_frame_0000(e, c.pc, c.sr)
           thrown == stack_frame_0001(set_sm_flag(framed, TRUE, FALSE), c.pc, sr)
           new_pc == IF VectorTable[24 + level] = 0 THEN VectorTable[15] ELSE VectorTable[24 + level]
           stacked == IF e.sr.M /\ c.type = "020" THEN thrown ELSE framed
<1>1. Alike(c, awake) /\ awake.stopped = {}
  BY AwakeAlike DEF Taken
<1>2. exception_interrupt(c, level) = [stacked EXCEPT !.pc = new_pc, !.intLevel = 0]
  BY <1>1 DEF exception_interrupt
<1>3. new_pc \in 0 .. CodeSize - 1
  BY VectorsInCode
<1> HIDE DEF new_pc
<1>4. Supervisor(c, e)
  <2>1. Supervisor(awake, init_exception(awake))
    BY <1>1, InitSupervisor DEF Alike
  <2>2. level \in 0 .. 7
    BY CpuAssumption
  <2>3. Supervisor(awake, e)
    BY <2>1, <2>2, MaskSupervisor
  <2> HIDE DEF awake, e
  <2> QED  BY <1>1, <2>3 DEF Supervisor, Alike
<1> HIDE DEF awake, e, sr
<1>5. Enters(c, c.pc, framed) /\ (e.sr.M /\ c.type = "020" => Enters(c, c.pc, thrown))
  BY <1>4, InterruptFrames DEF sr
<1> HIDE DEF framed, thrown
<1>6. Enters(c, c.pc, stacked)
  BY <1>5
<1> HIDE DEF stacked
<1>7. Alike(stacked, [stacked EXCEPT !.pc = new_pc, !.intLevel = 0])
  <2>1. WellFormed(stacked)
    BY <1>6 DEF Enters
  <2> QED  BY <1>3, <2>1, PatchAlike
<1> QED  BY <1>2, <1>6, <1>7, EntersAlike

-----------------------------------------------------------------------------
(* The stack pointers before each pending exception, oldest first, and     *)
(* now.                                                                    *)
SpsOf(c, fs) == [k \in 1 .. Len(fs) + 1 |-> IF k <= Len(fs) THEN fs[k].saved.sps ELSE Sps(c)]

(* No stack pointer rises from one pending exception to the next.          *)
Descends(s, n) ==
  \A j, k \in 1 .. n + 1 : j <= k => s[k].isp <= s[j].isp /\ s[k].msp <= s[j].msp

Chain(s, n, base) ==
  /\ s \in [1 .. n + 1 -> [Regs -> Int]]
  /\ s[1].isp = InterruptTop /\ s[1].msp = base
  /\ \A k \in 1 .. n + 1 : Within(s[k])
  /\ \A k \in 1 .. n : Room(s[k])
  /\ Descends(s, n)

FramesOn(mem, type, fs, s, n) == \A k \in 1 .. n : FrameOn(mem, type, fs[k], s[k + 1])

Stacks(c, fs, base) ==
  /\ WellFormed(c)
  /\ fs \in Seq(Frame)
  /\ \A k \in 1 .. Len(fs) : fs[k].saved.sr.M => c.type = "020"
  /\ Chain(SpsOf(c, fs), Len(fs), base)
  /\ FramesOn(c.mem, c.type, fs, SpsOf(c, fs), Len(fs))

AboveKept(sps, mem, new) ==
  \A a \in 0 .. MasterTop :
    a \in sps.isp .. InterruptTop - 1 \/ a \in sps.msp .. MasterTop - 1 => new[a] = mem[a]

LEMMA AtMostTransitive ==
  \A i, j, k \in Int : i <= j /\ j <= k => i <= k
  OBVIOUS

Lower(s, n, x) ==
  Within(x) /\ x.isp <= s[n + 1].isp /\ x.msp <= s[n + 1].msp /\ Room(s[n + 1])
Lengthened(s, n, x) == [k \in 1 .. n + 2 |-> IF k <= n + 1 THEN s[k] ELSE x]

LEMMA ChainPush ==
  ASSUME NEW n \in Nat, NEW s, NEW base, Chain(s, n, base), NEW x \in [Regs -> Int], Lower(s, n, x)
  PROVE  Chain(Lengthened(s, n, x), n + 1, base)
<1> PICK t : t = [k \in 1 .. n + 2 |-> IF k <= n + 1 THEN s[k] ELSE x]
  OBVIOUS
<1>0. /\ t = Lengthened(s, n, x)
      /\ Within(x) /\ x.isp <= s[n + 1].isp /\ x.msp <= s[n + 1].msp /\ Room(s[n + 1])
  BY DEF Lower, Lengthened
<1>1. \A k \in 1 .. n + 1 : t[k] = s[k]
  OBVIOUS
<1>2. t[n + 2] = x /\ n + 1 \in 1 .. n + 1 /\ 1 \in 1 .. n + 1
  OBVIOUS
<1>3. t \in [1 .. n + 2 -> [Regs -> Int]]
  BY DEF Chain
<1>4. t[1].isp = InterruptTop /\ t[1].msp = base
  BY <1>1, <1>2 DEF Chain
<1>5. \A k \in 1 .. n + 2 : Within(t[k])
  <2> TAKE k \in 1 .. n + 2
  <2>1. k \in 1 .. n + 1 \/ k = n + 2
    OBVIOUS
  <2> QED  BY <1>0, <1>1, <1>2, <2>1 DEF Chain
<1>6. \A k \in 1 .. n + 1 : Room(t[k])
  <2> TAKE k \in 1 .. n + 1
  <2>1. k \in 1 .. n \/ k = n + 1
    OBVIOUS
  <2> QED  BY <1>0, <1>1, <2>1 DEF Chain
<1>7. Descends(t, n + 1)
  <2>1. \A k \in 1 .. n + 2 : t[k].isp \in Int /\ t[k].msp \in Int
    BY <1>3 DEF Regs
  <2>2. ASSUME NEW j \in 1 .. n + 1 PROVE t[n + 2].isp <= t[j].isp /\ t[n + 2].msp <= t[j].msp
    <3>1. s[n + 1].isp <= s[j].isp /\ s[n + 1].msp <= s[j].msp
      BY <1>2 DEF Chain, Descends
    <3> PICK i1 \in Int, i2 \in Int, i3 \in Int, m1 \in Int, m2 \in Int, m3 \in Int :
          i1 = x.isp /\ i2 = s[n + 1].isp /\ i3 = s[j].isp
          /\ m1 = x.msp /\ m2 = s[n + 1].msp /\ m3 = s[j].msp
      <4>1. s[n + 1] \in [Regs -> Int] /\ s[j] \in [Regs -> Int]
        BY <1>2 DEF Chain
      <4> QED  BY <4>1 DEF Regs
    <3>2. i1 <= i2 /\ i2 <= i3 /\ m1 <= m2 /\ m2 <= m3
      BY <1>0, <3>1
    <3>3. i1 <= i3 /\ m1 <= m3
      BY <3>2, AtMostTransitive
    <3> QED  BY <1>1, <1>2, <3>3
  <2>3. ASSUME NEW j \in 1 .. n + 2, NEW k \in 1 .. n + 2, j <= k
        PROVE  t[k].isp <= t[j].isp /\ t[k].msp <= t[j].msp
    <3>1. CASE k = n + 2 /\ j = n + 2
      BY <2>1, <3>1
    <3>2. CASE k = n + 2 /\ j \in 1 .. n + 1
      BY <2>2, <3>2
    <3>3. CASE k \in 1 .. n + 1 /\ j \in 1 .. n + 1
      BY <1>1, <2>3, <3>3 DEF Chain, Descends
    <3> QED  BY <2>3, <3>1, <3>2, <3>3
  <2> QED  BY <2>3 DEF Descends
<1>8. n + 1 + 1 = n + 2
  OBVIOUS
<1> QED  BY <1>0, <1>3, <1>4, <1>5, <1>6, <1>7, <1>8 DEF Chain

LEMMA ChainPop ==
  ASSUME NEW n \in Nat, NEW s, NEW base, Chain(s, n + 1, base),
         NEW t, t = [k \in 1 .. n + 1 |-> s[k]]
  PROVE  Chain(t, n, base) /\ Room(t[n + 1])
<1>1. 1 .. n + 1 \subseteq 1 .. n + 1 + 1 /\ 1 .. n \subseteq 1 .. n + 1 /\ 1 \in 1 .. n + 1 /\ n + 1 \in 1 .. n + 1
  OBVIOUS
<1> QED  BY <1>1 DEF Chain, Descends

(* A frame is complete where its words are. *)
LEMMA HoldsKept ==
  ASSUME NEW mem, NEW new, NEW type, NEW f, NEW bottom \in Int, NEW top \in Int,
         Holds(mem, type, f, bottom, top), \A a \in bottom .. top - 1 : new[a] = mem[a]
  PROVE  Holds(new, type, f, bottom, top)
<1>1. top - bottom \in {3, 4, 6} => bottom \in bottom .. top - 1 /\ bottom + 1 \in bottom .. top - 1
  OBVIOUS
<1>2. top - bottom \in {4, 6} => bottom + 3 \in bottom .. top - 1
  OBVIOUS
<1> QED  BY <1>1, <1>2 DEF Holds

LEMMA FrameStays ==
  ASSUME NEW mem, NEW new, NEW type, NEW f \in Frame, NEW after \in [Regs -> Int],
         FrameOn(mem, type, f, after),
         \A a \in after.isp .. f.saved.sps.isp - 1 : new[a] = mem[a],
         \A a \in after.msp .. f.saved.sps.msp - 1 : new[a] = mem[a]
  PROVE  FrameOn(new, type, f, after)
<1> PICK sps \in [Regs -> Int], sp \in Int : sps = f.saved.sps /\ sp = f.sp
  BY DEF Frame, Saved
<1>2. CASE /\ f.mode = FrameBank(f) /\ after = [f.saved.sps EXCEPT ![FrameBank(f)] = f.sp]
           /\ Holds(mem, type, f, f.sp, f.saved.sps[FrameBank(f)])
  <2> PICK bank \in {"isp", "msp"} : bank = FrameBank(f)
    BY DEF FrameBank
  <2>1. after[bank] = sp /\ sps[bank] \in Int
    BY <1>2 DEF Regs
  <2>2. \A a \in sp .. sps[bank] - 1 : new[a] = mem[a]
    BY <2>1
  <2>3. Holds(new, type, f, f.sp, f.saved.sps[FrameBank(f)])
    BY <1>2, <2>1, <2>2, HoldsKept
  <2> QED  BY <1>2, <2>3 DEF FrameOn
<1>3. CASE /\ f.saved.sr.M /\ f.mode = "isp" /\ type = "020"
           /\ after = [f.saved.sps EXCEPT !.isp = f.sp, !.msp = @ - 4]
           /\ Holds(mem, type, f, f.saved.sps.msp - 4, f.saved.sps.msp)
           /\ f.sp = f.saved.sps.isp - 4
           /\ mem[f.sp] = [f.saved.sr EXCEPT !.S = TRUE] /\ mem[f.sp + 3] = [format |-> 1]
  <2> PICK isp \in Int, msp \in Int : isp = sps.isp /\ msp = sps.msp
    BY DEF Regs
  <2>1. after.isp = isp - 4 /\ after.msp = msp - 4 /\ sp = isp - 4
    BY <1>3 DEF Regs
  <2>2. Holds(new, type, f, f.saved.sps.msp - 4, f.saved.sps.msp)
    <3>1. Holds(mem, type, f, msp - 4, msp) /\ \A a \in msp - 4 .. msp - 1 : new[a] = mem[a]
      BY <1>3, <2>1
    <3>2. msp - 4 \in Int
      OBVIOUS
    <3>3. Holds(new, type, f, msp - 4, msp)
      BY <3>1, <3>2, HoldsKept
    <3> QED  BY <3>3
  <2>3. sp \in isp - 4 .. isp - 1 /\ sp + 3 \in isp - 4 .. isp - 1
    BY <2>1
  <2>4. new[sp] = mem[sp] /\ new[sp + 3] = mem[sp + 3]
    BY <2>1, <2>3
  <2> QED  BY <1>3, <2>2, <2>4 DEF FrameOn
<1> QED  BY <1>2, <1>3 DEF FrameOn

(* Frames below the stack pointers s[n + 1] stay when the memory above     *)
(* them does.                                                              *)
LEMMA FramesStay ==
  ASSUME NEW n \in Nat, NEW s, NEW base, Chain(s, n, base),
         NEW fs, \A k \in 1 .. n : fs[k] \in Frame /\ fs[k].saved.sps = s[k],
         NEW mem, NEW type, FramesOn(mem, type, fs, s, n),
         NEW new, AboveKept(s[n + 1], mem, new)
  PROVE  FramesOn(new, type, fs, s, n)
<1> SUFFICES ASSUME NEW k \in 1 .. n PROVE FrameOn(new, type, fs[k], s[k + 1])
  BY DEF FramesOn
<1> PICK f \in Frame, sps \in [Regs -> Int], after \in [Regs -> Int], last \in [Regs -> Int] :
      f = fs[k] /\ sps = f.saved.sps /\ sps = s[k] /\ after = s[k + 1] /\ last = s[n + 1]
  BY DEF Chain
<1>1. Within(sps) /\ Within(after) /\ Within(last) /\ last.isp <= after.isp /\ last.msp <= after.msp
  <2>1. k \in 1 .. n + 1 /\ k + 1 \in 1 .. n + 1 /\ n + 1 \in 1 .. n + 1 /\ k + 1 <= n + 1
    OBVIOUS
  <2> QED  BY <2>1 DEF Chain, Descends
<1> PICK i1 \in Int, i2 \in Int, i3 \in Int, m1 \in Int, m2 \in Int, m3 \in Int :
      i1 = last.isp /\ i2 = after.isp /\ i3 = sps.isp
      /\ m1 = last.msp /\ m2 = after.msp /\ m3 = sps.msp
  BY DEF Regs
<1>2. /\ i1 >= UserTop /\ i3 <= InterruptTop /\ i1 <= i2
      /\ m1 >= InterruptTop /\ m3 <= MasterTop /\ m1 <= m2
  BY <1>1, BaseBounds DEF Within
<1>3. \A a \in i2 .. i3 - 1 : a \in 0 .. MasterTop /\ a \in i1 .. InterruptTop - 1
  BY <1>2, BaseBounds
<1>4. \A a \in m2 .. m3 - 1 : a \in 0 .. MasterTop /\ a \in m1 .. MasterTop - 1
  BY <1>2, BaseBounds
<1>5. /\ \A a \in i2 .. i3 - 1 : new[a] = mem[a]
      /\ \A a \in m2 .. m3 - 1 : new[a] = mem[a]
  BY <1>3, <1>4 DEF AboveKept
<1>6. FrameOn(mem, type, f, after)
  BY DEF FramesOn
<1> QED  BY <1>5, <1>6, FrameStays

-----------------------------------------------------------------------------
LEMMA SpsOfType ==
  ASSUME NEW c, WellFormed(c), NEW fs \in Seq(Frame)
  PROVE  /\ Len(fs) \in Nat
         /\ \A k \in 1 .. Len(fs) : fs[k] \in Frame /\ SpsOf(c, fs)[k] = fs[k].saved.sps
         /\ SpsOf(c, fs)[Len(fs) + 1] = Sps(c)
<1>1. Len(fs) \in Nat
  BY LenProperties
<1>2. \A k \in 1 .. Len(fs) : fs[k] \in Frame
  BY ElementOfSeq
<1> QED  BY <1>1, <1>2 DEF SpsOf

(* d is c up to what the stacks do not depend on. *)
Keeps(c, d) == WellFormed(d) /\ d.type = c.type /\ d.mem = c.mem /\ Sps(d) = Sps(c)

LEMMA StacksKept ==
  ASSUME NEW c, NEW d, Keeps(c, d), NEW fs, NEW base, Stacks(c, fs, base)
  PROVE  Stacks(d, fs, base)
<1>1. SpsOf(d, fs) = SpsOf(c, fs)
  BY DEF SpsOf, Keeps
<1> QED  BY <1>1 DEF Stacks, Keeps

LEMMA StacksWithin ==
  ASSUME NEW c, NEW fs, NEW base, Stacks(c, fs, base)
  PROVE  WellFormed(c) /\ Within(Sps(c)) /\ Len(fs) \in Nat
<1>1. Len(fs) + 1 \in 1 .. Len(fs) + 1 /\ SpsOf(c, fs)[Len(fs) + 1] = Sps(c) /\ Len(fs) \in Nat
  BY SpsOfType DEF Stacks
<1> QED  BY <1>1 DEF Stacks, Chain

(* Nothing pending: the three stack pointers are where they began.         *)
LEMMA StacksEmpty ==
  ASSUME NEW c, NEW base, Stacks(c, <<>>, base)
  PROVE  Sps(c).isp = InterruptTop /\ Sps(c).msp = base
<1>1. SpsOf(c, <<>>)[1] = Sps(c)
  BY DEF SpsOf
<1> QED  BY <1>1 DEF Stacks, Chain

LEMMA RecordIsFrame ==
  ASSUME NEW c, WellFormed(c), NEW pc \in 0 .. CodeSize - 1, NEW d, WellFormed(d)
  PROVE  Record(c, pc, d) \in Frame
<1>1. Sps(c) \in [Regs -> Int] /\ Bank(d.sr) \in Regs /\ c.sr \in StatusRegisters /\ d.sp \in Int
  BY SpsType DEF WellFormed
<1>2. Record(c, pc, d) = [saved |-> [sr |-> c.sr, pc |-> pc, sps |-> Sps(c)],
                          mode |-> Bank(d.sr), sp |-> d.sp]
  BY DEF Record, Context, Sps, Regs
<1> QED  BY <1>1, <1>2 DEF Frame, Saved

(* An exception adds its frame. *)
LEMMA PushStacks ==
  ASSUME NEW c, NEW fs, NEW base, Stacks(c, fs, base), Room(Sps(c)),
         NEW pc \in 0 .. CodeSize - 1, NEW d, Enters(c, pc, d)
  PROVE  Stacks(d, Append(fs, Record(c, pc, d)), base)
<1> PICK f : f = Record(c, pc, d)
  OBVIOUS
<1> PICK n \in Nat : n = Len(fs)
  BY LenProperties DEF Stacks
<1> PICK gs : gs = Append(fs, f)
  OBVIOUS
<1> PICK s : s = SpsOf(c, fs)
  OBVIOUS
<1> PICK t : t = SpsOf(d, gs)
  OBVIOUS
<1>1. WellFormed(c) /\ WellFormed(d) /\ fs \in Seq(Frame) /\ d.type = c.type
  BY DEF Stacks, Enters
<1>2. f \in Frame /\ f.saved.sps = Sps(c) /\ f.saved.sr = c.sr
  BY <1>1, RecordIsFrame, RecordFields
<1>3. /\ gs \in Seq(Frame) /\ Len(gs) = n + 1 /\ gs[n + 1] = f
      /\ \A k \in 1 .. n : gs[k] = fs[k]
  BY <1>1, <1>2, AppendProperties
<1>4. /\ s[n + 1] = Sps(c)
      /\ \A k \in 1 .. n : fs[k] \in Frame /\ s[k] = fs[k].saved.sps
  BY <1>1, SpsOfType
<1>5. t = [k \in 1 .. n + 2 |-> IF k <= n + 1 THEN s[k] ELSE Sps(d)]
  <2>1. t = [k \in 1 .. n + 2 |-> IF k <= n + 1 THEN gs[k].saved.sps ELSE Sps(d)]
    BY <1>3 DEF SpsOf
  <2>2. \A k \in 1 .. n + 2 : k <= n + 1 => gs[k].saved.sps = s[k]
    <3> TAKE k \in 1 .. n + 2
    <3>1. k <= n + 1 => k \in 1 .. n \/ k = n + 1
      OBVIOUS
    <3> QED  BY <1>2, <1>3, <1>4, <3>1
  <2> QED  BY <2>1, <2>2
<1>6. Chain(s, n, base) /\ FramesOn(c.mem, c.type, fs, s, n)
  BY DEF Stacks
<1>7. Chain(t, n + 1, base)
  <2> PICK x \in [Regs -> Int] : x = Sps(d)
    BY <1>1, SpsType
  <2>1. Lower(s, n, x)
    BY <1>4 DEF Enters, Lower
  <2>2. t = Lengthened(s, n, x)
    BY <1>5 DEF Lengthened
  <2> QED  BY <1>6, <2>1, <2>2, ChainPush
<1>8. AboveKept(s[n + 1], c.mem, d.mem)
  <2>1. Untouched(c, d) /\ Within(Sps(c)) /\ Within(Sps(d))
    BY StacksWithin DEF Enters
  <2> PICK i1 \in Int, i2 \in Int, m1 \in Int, m2 \in Int :
        i1 = Sps(d).isp /\ i2 = Sps(c).isp /\ m1 = Sps(d).msp /\ m2 = Sps(c).msp
    BY <1>1, SpsType DEF Regs
  <2>2. i1 <= InterruptTop /\ i2 <= InterruptTop /\ m1 >= InterruptTop /\ m2 >= InterruptTop
    BY <2>1, BaseBounds DEF Within
  <2>3. ASSUME NEW a \in 0 .. MasterTop, a \in i2 .. InterruptTop - 1 \/ a \in m2 .. MasterTop - 1
        PROVE  a \notin i1 .. i2 - 1 /\ a \notin m1 .. m2 - 1
    BY SMTT(30), <2>2, <2>3, BaseBounds
  <2>4. \A a \in 0 .. MasterTop : a \notin i1 .. i2 - 1 /\ a \notin m1 .. m2 - 1 => d.mem[a] = c.mem[a]
    BY <2>1 DEF Untouched
  <2> QED  BY <1>4, <2>3, <2>4 DEF AboveKept
<1>9. FramesOn(d.mem, d.type, fs, s, n)
  BY <1>1, <1>4, <1>6, <1>8, FramesStay
<1>10. FramesOn(d.mem, d.type, gs, t, n + 1)
  <2> SUFFICES ASSUME NEW k \in 1 .. n + 1 PROVE FrameOn(d.mem, d.type, gs[k], t[k + 1])
    BY DEF FramesOn
  <2>1. CASE k = n + 1
    <3>1. gs[k] = f /\ t[k + 1] = Sps(d)
      BY <1>3, <1>5, <2>1
    <3>2. FrameOn(d.mem, d.type, f, Sps(d))
      BY DEF Enters
    <3> QED  BY <3>1, <3>2
  <2>2. CASE k \in 1 .. n
    <3>1. gs[k] = fs[k] /\ t[k + 1] = s[k + 1]
      BY <1>3, <1>5, <2>2
    <3> QED  BY <1>9, <2>2, <3>1 DEF FramesOn
  <2> QED  BY <2>1, <2>2
<1>11. \A k \in 1 .. n + 1 : gs[k].saved.sr.M => d.type = "020"
  <2> SUFFICES ASSUME NEW k \in 1 .. n + 1 PROVE gs[k].saved.sr.M => d.type = "020"
    OBVIOUS
  <2>1. CASE k = n + 1
    BY <1>1, <1>2, <1>3, <2>1 DEF WellFormed
  <2>2. CASE k \in 1 .. n
    BY <1>1, <1>3, <2>2 DEF Stacks
  <2> QED  BY <2>1, <2>2
<1> QED  BY <1>1, <1>3, <1>7, <1>10, <1>11 DEF Stacks

-----------------------------------------------------------------------------
(* rte: the topmost frame is dropped.                                      *)
Unframed(t, f, top, r) ==
  /\ WellFormed(r) /\ r.type = t.type /\ r.stopped = t.stopped /\ r.intLevel = t.intLevel
  /\ r.pc = f.saved.pc
  /\ Sps(r) = [Sps(t) EXCEPT ![Bank(t.sr)] = top]
  /\ \A a \in 0 .. MasterTop : a \notin t.sp .. top - 1 => r.mem[a] = t.mem[a]

LEMMA HoldsFormat ==
  ASSUME NEW t, WellFormed(t), NEW f, NEW top \in Int, Holds(t.mem, t.type, f, t.sp, top)
  PROVE  top = t.sp + FrameWords(t) /\ FrameWords(t) \in {3, 4, 6} /\ ~(t.type = "020" /\ Format(t) = 1)
<1> PICK sp \in Int : sp = t.sp
  BY DEF WellFormed
<1> PICK w \in Int : w = top - sp
  OBVIOUS
<1>1. t.type \in {"000", "010", "020"}
  BY CpuAssumption DEF WellFormed
<1>2. top = sp + w
  OBVIOUS
<1>3. CASE t.type = "000" /\ w = 3
  BY <1>2, <1>3 DEF FrameWords
<1>4. CASE t.type # "000" /\ w = 4 /\ t.mem[t.sp + 3] = [format |-> 0]
  <2>1. Format(t) = 0
    BY <1>4 DEF Format
  <2> QED  BY <1>2, <1>4, <2>1 DEF FrameWords
<1>5. CASE t.type = "020" /\ w = 6 /\ t.mem[t.sp + 3] = [format |-> 2]
  <2>1. Format(t) = 2
    BY <1>5 DEF Format
  <2> QED  BY <1>2, <1>5, <2>1 DEF FrameWords
<1> QED  BY <1>3, <1>4, <1>5 DEF Holds

Unframe(t) == [drop(t, FrameWords(t)) EXCEPT !.pc = t.mem[t.sp + 1]]

LEMMA FrameDropped ==
  ASSUME NEW t, WellFormed(t), NEW f \in Frame, NEW top \in Int,
         Holds(t.mem, t.type, f, t.sp, top),
         NEW r, r = Unframe(t)
  PROVE  Unframed(t, f, top, r)
<1> PICK words \in Nat : words = FrameWords(t) /\ top = t.sp + words
  BY HoldsFormat
<1> PICK pc : pc = t.mem[t.sp + 1]
  OBVIOUS
<1>1. pc = f.saved.pc /\ pc \in 0 .. CodeSize - 1
  BY DEF Holds, Frame, Saved
<1> PICK d : d = drop(t, words)
  OBVIOUS
<1>2. /\ Moves(t, d, top)
      /\ \A a \in 0 .. MasterTop : a \notin t.sp .. top - 1 => d.mem[a] = t.mem[a]
  <2>1. /\ Moves(t, d, t.sp + words)
        /\ \A a \in 0 .. MasterTop : a \notin t.sp .. t.sp + words - 1 => d.mem[a] = t.mem[a]
    BY DropStacks
  <2>2. t.sp \in Int
    BY DEF WellFormed
  <2> QED  BY <2>1, <2>2
<1>3. Alike(d, r) /\ WellFormed(d)
  <2>1. WellFormed(d)
    BY <1>2 DEF Moves
  <2>2. r = [d EXCEPT !.pc = pc]
    BY DEF Unframe
  <2>3. Alike(d, [d EXCEPT !.pc = pc])
    BY <1>1, <2>1, PatchAlike
  <2> QED  BY <2>1, <2>2, <2>3
<1>4. r.stopped = d.stopped /\ r.intLevel = d.intLevel /\ r.pc = pc
  BY <1>3 DEF WellFormed, Fields, Unframe
<1>5. d.type = t.type /\ d.stopped = t.stopped /\ d.intLevel = t.intLevel
  BY <1>2 DEF Moves, Rest
<1>6. Sps(r) = [Sps(t) EXCEPT ![Bank(t.sr)] = top]
  BY <1>2, <1>3 DEF Moves, Alike
<1> QED  BY <1>1, <1>2, <1>3, <1>4, <1>5, <1>6 DEF Alike, Unframed

(* What rte makes of the topmost frame, before the status register.        *)
Restored(c, f, r, sr) ==
  /\ WellFormed(r) /\ r.type = c.type /\ r.pc = f.saved.pc /\ sr = f.saved.sr
  /\ Sps(r) = f.saved.sps
  /\ AboveKept(f.saved.sps, c.mem, r.mem)

LEMMA PlainRestored ==
  ASSUME NEW c, WellFormed(c), Within(Sps(c)), NEW f \in Frame, Within(f.saved.sps),
         Bank(c.sr) = f.mode, c.sp = f.sp,
         f.mode = FrameBank(f), Sps(c) = [f.saved.sps EXCEPT ![FrameBank(f)] = f.sp],
         Holds(c.mem, c.type, f, f.sp, f.saved.sps[FrameBank(f)])
  PROVE  Restored(c, f, Restore(c), SavedSR(c))
<1> PICK sps \in [Regs -> Int], sp \in Int : sps = f.saved.sps /\ sp = f.sp
  BY DEF Frame, Saved
<1> PICK bank \in {"isp", "msp"} : bank = FrameBank(f)
  BY DEF FrameBank
<1> PICK top \in Int : top = sps[bank]
  BY DEF Regs
<1>1. Throw(c) = c
  BY HoldsFormat DEF Throw
<1> PICK r : r = Restore(c)
  OBVIOUS
<1>2. Unframed(c, f, top, r)
  BY <1>1, FrameDropped DEF Restore, Unframe
<1>3. SavedSR(c) = f.saved.sr
  BY <1>1 DEF SavedSR, Holds
<1>4. Sps(r) = sps
  <2>1. Sps(r) = [[sps EXCEPT ![bank] = sp] EXCEPT ![bank] = top]
    BY <1>2 DEF Unframed
  <2> QED  BY <2>1
<1>5. AboveKept(sps, c.mem, r.mem)
  <2>1. \A a \in 0 .. MasterTop : a \notin sp .. top - 1 => r.mem[a] = c.mem[a]
    BY <1>2 DEF Unframed
  <2> PICK i1 \in Int, i2 \in Int, m1 \in Int, m2 \in Int :
        i1 = Sps(c).isp /\ i2 = sps.isp /\ m1 = Sps(c).msp /\ m2 = sps.msp
    BY SpsType DEF Regs
  <2>2. i2 <= InterruptTop /\ m1 >= InterruptTop /\ m2 >= InterruptTop
    BY BaseBounds DEF Within
  <2>3. (sp = i1 /\ top = i2) \/ (sp = m1 /\ top = m2)
    BY DEF Regs
  <2>4. ASSUME NEW a \in 0 .. MasterTop, a \in i2 .. InterruptTop - 1 \/ a \in m2 .. MasterTop - 1
        PROVE  a \notin sp .. top - 1
    BY <2>2, <2>3, <2>4, BaseBounds
  <2> QED  BY <2>1, <2>4 DEF AboveKept
<1> QED  BY <1>2, <1>3, <1>4, <1>5 DEF Restored, Unframed

(* The throwaway frame goes first, and leads to the master stack.          *)
LEMMA ThrownRestored ==
  ASSUME NEW c, WellFormed(c), Within(Sps(c)), NEW f \in Frame, Within(f.saved.sps),
         Bank(c.sr) = f.mode, c.sp = f.sp,
         f.saved.sr.M, f.mode = "isp", c.type = "020",
         Sps(c) = [f.saved.sps EXCEPT !.isp = f.sp, !.msp = @ - 4],
         Holds(c.mem, c.type, f, f.saved.sps.msp - 4, f.saved.sps.msp),
         f.sp = f.saved.sps.isp - 4,
         c.mem[f.sp] = [f.saved.sr EXCEPT !.S = TRUE], c.mem[f.sp + 3] = [format |-> 1]
  PROVE  Restored(c, f, Restore(c), SavedSR(c))
<1> PICK sps \in [Regs -> Int], isp \in Int, msp \in Int :
      sps = f.saved.sps /\ isp = sps.isp /\ msp = sps.msp
  BY DEF Frame, Saved, Regs
<1> PICK d : d = drop(c, 4)
  OBVIOUS
<1> PICK sr : sr = [f.saved.sr EXCEPT !.S = TRUE]
  OBVIOUS
<1> PICK t : t = Throw(c)
  OBVIOUS
<1> PICK r : r = Restore(c)
  OBVIOUS
<1>1. t = set_sr_noint(d, sr)
  <2>1. Format(c) = 1
    BY DEF Format
  <2> QED  BY <2>1 DEF Throw
<1>2. /\ Moves(c, d, isp)
      /\ \A a \in 0 .. MasterTop : a \notin isp - 4 .. isp - 1 => d.mem[a] = c.mem[a]
  <2>1. c.sp = isp - 4 /\ c.sp + 4 = isp
    BY DEF Frame
  <2> QED  BY <2>1, DropStacks
<1>3. WellFormed(d) /\ d.type = "020" /\ Sps(d) = [sps EXCEPT !["msp"] = msp - 4]
  <2>1. WellFormed(d) /\ d.type = "020" /\ Sps(d) = [Sps(c) EXCEPT !["isp"] = isp]
    BY <1>2 DEF Moves, Rest
  <2>2. Sps(c) = [[sps EXCEPT !["isp"] = isp - 4] EXCEPT !["msp"] = msp - 4]
    OBVIOUS
  <2>3. [Sps(c) EXCEPT !["isp"] = isp] = [sps EXCEPT !["msp"] = msp - 4]
    BY <2>2 DEF Regs
  <2> QED  BY <2>1, <2>3
<1>4. sr \in StatusRegisters /\ sr.S = TRUE /\ sr.M = TRUE
  BY DEF Frame, Saved, StatusRegisters
<1>5. WellFormed(t) /\ t.type = "020" /\ t.mem = d.mem /\ Sps(t) = Sps(d) /\ t.sr = sr
  BY <1>1, <1>3, <1>4, NointStacks DEF Rest
<1>6. Bank(t.sr) = "msp" /\ t.sp = msp - 4
  <2>1. Bank(t.sr) = "msp"
    BY <1>4, <1>5 DEF Bank
  <2> QED  BY <1>3, <1>5, <2>1, SpsType DEF Regs
<1>7. isp <= InterruptTop /\ isp - 4 >= UserTop /\ msp - 4 >= InterruptTop /\ msp <= MasterTop
  <2>1. Sps(c).isp = isp - 4 /\ Sps(c).msp = msp - 4
    BY DEF Regs
  <2> QED  BY <2>1, BaseBounds DEF Within
<1>8. Holds(t.mem, t.type, f, t.sp, msp)
  <2>1. Holds(c.mem, "020", f, msp - 4, msp)
    OBVIOUS
  <2>2. \A a \in msp - 4 .. msp - 1 : d.mem[a] = c.mem[a]
    <3>1. \A a \in msp - 4 .. msp - 1 : a \in 0 .. MasterTop /\ a \notin isp - 4 .. isp - 1
      BY <1>7, BaseBounds
    <3> QED  BY <1>2, <3>1
  <2>3. Holds(d.mem, "020", f, msp - 4, msp)
    <3>1. msp - 4 \in Int
      OBVIOUS
    <3> QED  BY <2>1, <2>2, <3>1, HoldsKept
  <2> QED  BY <1>5, <1>6, <2>3
<1>9. Unframed(t, f, msp, r)
  BY <1>5, <1>8, FrameDropped DEF Restore, Unframe
<1>10. SavedSR(c) = f.saved.sr
  BY <1>8 DEF SavedSR, Holds
<1>11. Sps(r) = sps
  <2>1. Sps(r) = [[sps EXCEPT !["msp"] = msp - 4] EXCEPT !["msp"] = msp]
    BY <1>3, <1>5, <1>6, <1>9 DEF Unframed
  <2> QED  BY <2>1
<1>12. AboveKept(sps, c.mem, r.mem)
  <2>1. \A a \in 0 .. MasterTop :
          a \notin msp - 4 .. msp - 1 /\ a \notin isp - 4 .. isp - 1 => r.mem[a] = c.mem[a]
    BY <1>2, <1>5, <1>6, <1>9 DEF Unframed
  <2>2. ASSUME NEW a \in 0 .. MasterTop, a \in isp .. InterruptTop - 1 \/ a \in msp .. MasterTop - 1
        PROVE  a \notin msp - 4 .. msp - 1 /\ a \notin isp - 4 .. isp - 1
    BY <1>7, <2>2, BaseBounds
  <2> QED  BY <2>1, <2>2 DEF AboveKept
<1> QED  BY <1>5, <1>9, <1>10, <1>11, <1>12 DEF Restored, Unframed

-----------------------------------------------------------------------------
(* The handler of the topmost frame has left the stack as it found it.     *)
Returns(c, fs) ==
  /\ fs # <<>> /\ Bank(c.sr) = fs[Len(fs)].mode /\ c.sp = fs[Len(fs)].sp

Popped(fs) == SubSeq(fs, 1, Len(fs) - 1)

LEMMA NonEmpty ==
  ASSUME NEW fs \in Seq(Frame), fs # <<>>
  PROVE  /\ Len(fs) \in Nat \ {0} /\ Popped(fs) \in Seq(Frame) /\ Len(Popped(fs)) = Len(fs) - 1
         /\ \A k \in 1 .. Len(fs) - 1 : Popped(fs)[k] = fs[k]
         /\ fs[Len(fs)] \in Frame
<1>1. Len(fs) \in Nat \ {0}
  BY EmptySeq, LenProperties
<1>2. fs[Len(fs)] \in Frame
  BY <1>1, ElementOfSeq
<1> PICK n \in Nat : Len(fs) = n + 1
  BY <1>1
<1>3. /\ SubSeq(fs, 1, n) \in Seq(Frame) /\ Len(SubSeq(fs, 1, n)) = n
      /\ \A k \in 1 .. n : SubSeq(fs, 1, n)[k] = fs[k]
  <2>1. n = 0 => SubSeq(fs, 1, n) = <<>>
    OBVIOUS
  <2>2. 1 .. n \subseteq 1 .. Len(fs)
    OBVIOUS
  <2> QED  BY <2>1, <2>2, SubSeqProperties
<1> QED  BY <1>1, <1>2, <1>3 DEF Popped

LEMMA RestoredFrame ==
  ASSUME NEW c, NEW fs, NEW base, Stacks(c, fs, base), Returns(c, fs)
  PROVE  Restored(c, fs[Len(fs)], Restore(c), SavedSR(c))
<1> PICK n \in Nat : Len(fs) = n + 1 /\ fs[n + 1] \in Frame
  <2>1. Len(fs) \in Nat \ {0} /\ fs[Len(fs)] \in Frame
    BY NonEmpty DEF Stacks, Returns
  <2> QED  BY <2>1
<1> PICK f \in Frame : f = fs[n + 1]
  OBVIOUS
<1>1. WellFormed(c) /\ Within(Sps(c)) /\ Within(f.saved.sps)
  <2>1. SpsOf(c, fs)[n + 1] = f.saved.sps /\ n + 1 \in 1 .. Len(fs) + 1
    BY SpsOfType DEF Stacks
  <2> QED  BY <2>1, StacksWithin DEF Stacks, Chain
<1>2. FrameOn(c.mem, c.type, f, Sps(c))
  <2>1. SpsOf(c, fs)[n + 2] = Sps(c) /\ n + 1 \in 1 .. Len(fs)
    BY SpsOfType DEF Stacks
  <2> QED  BY <2>1 DEF Stacks, FramesOn
<1>3. Bank(c.sr) = f.mode /\ c.sp = f.sp
  BY DEF Returns
<1> QED  BY <1>1, <1>2, <1>3, PlainRestored, ThrownRestored DEF FrameOn

Resumes(c, fs, back, base) ==
  /\ Stacks(back, Popped(fs), base) /\ Room(Sps(back))
  /\ back.pc = fs[Len(fs)].saved.pc /\ Context(back, back.pc) = fs[Len(fs)].saved

LEMMA PopStacks ==
  ASSUME NEW c, NEW fs, NEW base, Stacks(c, fs, base), Returns(c, fs),
         NEW back, back = set_sr_noint(Restore(c), SavedSR(c))
  PROVE  Resumes(c, fs, back, base)
<1> PICK n \in Nat : Len(fs) = n + 1
  <2>1. Len(fs) \in Nat \ {0}
    BY NonEmpty DEF Stacks, Returns
  <2> QED  BY <2>1
<1> PICK gs : gs = Popped(fs)
  OBVIOUS
<1>0. /\ fs \in Seq(Frame) /\ gs \in Seq(Frame) /\ Len(gs) = n /\ fs[n + 1] \in Frame
      /\ \A k \in 1 .. n : gs[k] = fs[k]
  <2>1. /\ fs \in Seq(Frame) /\ gs \in Seq(Frame) /\ Len(gs) = Len(fs) - 1
        /\ fs[Len(fs)] \in Frame /\ \A k \in 1 .. Len(fs) - 1 : gs[k] = fs[k]
    BY NonEmpty DEF Stacks, Returns
  <2>2. Len(fs) - 1 = n
    OBVIOUS
  <2> QED  BY <2>1, <2>2
<1> PICK f \in Frame : f = fs[n + 1]
  BY <1>0
<1> PICK r : r = Restore(c)
  OBVIOUS
<1>1. Restored(c, f, r, SavedSR(c))
  BY RestoredFrame
<1>2. f.saved.sr \in StatusRegisters /\ (f.saved.sr.M => r.type = "020")
  <2>1. f.saved.sr \in StatusRegisters
    BY DEF Frame, Saved
  <2>2. n + 1 \in 1 .. Len(fs)
    OBVIOUS
  <2> QED  BY <1>1, <2>1, <2>2 DEF Stacks, Restored
<1>3. /\ WellFormed(back) /\ Rest(back) = Rest(r) /\ back.mem = r.mem /\ Sps(back) = Sps(r)
      /\ back.sr = f.saved.sr
  BY <1>1, <1>2, NointStacks DEF Restored
<1>4. /\ back.type = c.type /\ back.pc = f.saved.pc /\ Sps(back) = f.saved.sps
      /\ AboveKept(f.saved.sps, c.mem, back.mem)
  BY <1>1, <1>3 DEF Restored, Rest
<1> PICK s : s = SpsOf(c, fs)
  OBVIOUS
<1> PICK t : t = SpsOf(back, gs)
  OBVIOUS
<1>5. \A k \in 1 .. n + 1 : fs[k] \in Frame /\ s[k] = fs[k].saved.sps
  BY SpsOfType DEF Stacks
<1>6. t = [k \in 1 .. n + 1 |-> s[k]]
  <2>1. t = [k \in 1 .. n + 1 |-> IF k <= n THEN gs[k].saved.sps ELSE Sps(back)]
    BY <1>0 DEF SpsOf
  <2>2. \A k \in 1 .. n + 1 : (IF k <= n THEN gs[k].saved.sps ELSE Sps(back)) = s[k]
    <3> TAKE k \in 1 .. n + 1
    <3>1. CASE k = n + 1
      BY <1>4, <1>5, <3>1
    <3>2. CASE k \in 1 .. n
      BY <1>0, <1>5, <3>2
    <3> QED  BY <3>1, <3>2
  <2> QED  BY <2>1, <2>2
<1>7. Chain(s, n + 1, base) /\ FramesOn(c.mem, c.type, fs, s, n + 1)
  BY DEF Stacks
<1>8. Chain(t, n, base) /\ Room(t[n + 1])
  BY <1>6, <1>7, ChainPop
<1>9. t[n + 1] = f.saved.sps
  BY <1>5, <1>6
<1>10. FramesOn(back.mem, back.type, gs, t, n)
  <2>1. \A k \in 1 .. n : gs[k] \in Frame /\ gs[k].saved.sps = t[k]
    BY <1>0, <1>5, <1>6
  <2>2. FramesOn(c.mem, c.type, gs, t, n)
    <3> SUFFICES ASSUME NEW k \in 1 .. n PROVE FrameOn(c.mem, c.type, gs[k], t[k + 1])
      BY DEF FramesOn
    <3>1. gs[k] = fs[k] /\ t[k + 1] = s[k + 1]
      BY <1>0, <1>6
    <3> QED  BY <1>7, <3>1 DEF FramesOn
  <2>3. AboveKept(t[n + 1], c.mem, back.mem)
    BY <1>4, <1>9
  <2>4. FramesOn(back.mem, c.type, gs, t, n)
    BY <1>8, <2>1, <2>2, <2>3, FramesStay
  <2> QED  BY <1>4, <2>4
<1>11. \A k \in 1 .. n : gs[k].saved.sr.M => back.type = "020"
  BY <1>0, <1>4 DEF Stacks
<1>12. Stacks(back, gs, base)
  BY <1>0, <1>3, <1>8, <1>10, <1>11 DEF Stacks
<1>13. Context(back, back.pc) = f.saved
  <2>1. Context(back, back.pc) = [sr |-> f.saved.sr, pc |-> f.saved.pc, sps |-> f.saved.sps]
    BY <1>3, <1>4 DEF Context, Sps, Regs
  <2> QED  BY <2>1 DEF Frame, Saved
<1> QED  BY <1>4, <1>8, <1>9, <1>12, <1>13 DEF Resumes

-----------------------------------------------------------------------------
LEMMA AlikeKeeps ==
  ASSUME NEW c, NEW d, Alike(c, d)
  PROVE  Keeps(c, d)
  BY DEF Alike, Keeps

(* An interrupt the mask lets in is taken at once, unless the cpu is       *)
(* halted.                                                                 *)
Resting(c, d) == Keeps(c, d) /\ Context(d, d.pc) = Context(c, c.pc)

LEMMA NotTaken ==
  ASSUME NEW c, WellFormed(c), NEW level, ~Taken(c, level)
  PROVE  Resting(c, exception_interrupt(c, level))
<1> PICK awake : awake = [c EXCEPT !.stopped = @ \ {"STOP"}]
  OBVIOUS
<1>1. Alike(c, awake) /\ awake.stopped # {}
  BY AwakeAlike DEF Taken
<1>2. exception_interrupt(c, level) = awake
  BY <1>1 DEF exception_interrupt
<1>3. awake.pc = c.pc
  BY DEF WellFormed, Fields
<1>4. Context(awake, awake.pc) = Context(c, c.pc)
  BY <1>1, <1>3 DEF Context, Alike, Sps, Regs
<1> QED  BY <1>1, <1>2, <1>4, AlikeKeeps DEF Resting

LEMMA CheckEnters ==
  ASSUME NEW c, WellFormed(c), Within(Sps(c))
  PROVE  /\ Interrupted(c) /\ Room(Sps(c)) => Enters(c, c.pc, check_interrupts(c))
         /\ ~Interrupted(c) => Resting(c, check_interrupts(c))
<1> PICK level : level = c.intLevel
  OBVIOUS
<1>1. level > c.sr.mask => level \in Levels \ {0}
  BY CpuAssumption DEF WellFormed, StatusRegisters
<1>2. Resting(c, c)
  BY DEF Resting, Keeps
<1>3. CASE level > c.sr.mask
  <2>1. check_interrupts(c) = exception_interrupt(c, level)
    BY <1>3 DEF check_interrupts
  <2>2. CASE Taken(c, level)
    BY <1>1, <1>3, <2>1, <2>2, InterruptEnters DEF Interrupted
  <2>3. CASE ~Taken(c, level)
    BY <2>1, <2>3, NotTaken DEF Interrupted
  <2> QED  BY <2>2, <2>3
<1>4. CASE ~(level > c.sr.mask)
  BY <1>2, <1>4 DEF check_interrupts, Interrupted
<1> QED  BY <1>3, <1>4

-----------------------------------------------------------------------------
(* The inductive invariant of the stacks. *)
SInv == Stacks(cpu, frames, masterBase)

LEMMA RoomThen ==
  ASSUME StackRoom, NEW c, Sps(c) = Sps(cpu)
  PROVE  Room(Sps(c))
<1>1. Sps(cpu).isp = get_reg(cpu, "isp") /\ Sps(cpu).msp = get_reg(cpu, "msp")
  BY DEF Sps, Regs
<1> QED  BY <1>1 DEF StackRoom, Room

(* An instruction fetched, and a stop. *)
Started(c) ==
  /\ Stacks(c, frames, masterBase) /\ WellFormed(c) /\ Within(Sps(c))
  /\ Sps(c) = Sps(cpu) /\ c.sr = cpu.sr

LEMMA FetchStarts ==
  ASSUME SInv
  PROVE  Started(Fetch(cpu)) /\ Started([Fetch(cpu) EXCEPT !.stopped = @ \cup {"STOP"}])
<1> PICK c : c = Fetch(cpu)
  OBVIOUS
<1>1. WellFormed(cpu)
  BY DEF SInv, Stacks
<1>2. Alike(cpu, c)
  BY <1>1, FetchAlike
<1>3. ASSUME NEW d, Alike(cpu, d) PROVE Started(d)
  <2>1. Stacks(d, frames, masterBase)
    BY <1>3, AlikeKeeps, StacksKept DEF SInv
  <2>2. WellFormed(d) /\ Within(Sps(d))
    BY <2>1, StacksWithin
  <2> QED  BY <1>3, <2>1, <2>2 DEF Started, Alike
<1> PICK d : d = [c EXCEPT !.stopped = @ \cup {"STOP"}]
  OBVIOUS
<1>4. Alike(c, d)
  <2> PICK stopped \in SUBSET {"STOP", "HALT"} : stopped = c.stopped \cup {"STOP"}
    BY <1>2 DEF Alike, WellFormed
  <2>1. d = [c EXCEPT !.stopped = stopped]
    OBVIOUS
  <2>2. WellFormed(c)
    BY <1>2 DEF Alike
  <2>3. Alike(c, [c EXCEPT !.stopped = stopped])
    BY <2>2, PatchAlike
  <2> QED  BY <2>1, <2>3
<1>5. Alike(cpu, d)
  BY <1>2, <1>4 DEF Alike
<1> QED  BY <1>2, <1>3, <1>5

LEMMA EnteredStacks ==
  ASSUME NEW c, Stacks(c, frames, masterBase), Room(Sps(c)), NEW pc \in 0 .. CodeSize - 1,
         Enters(c, pc, cpu'), frames' = Entered(c, pc, cpu'), masterBase' = masterBase
  PROVE  SInv'
<1>1. frames' = Append(frames, Record(c, pc, cpu'))
  BY DEF Entered, Record
<1>2. Stacks(cpu', Append(frames, Record(c, pc, cpu')), masterBase)
  BY PushStacks
<1> QED  BY <1>1, <1>2 DEF SInv

LEMMA KeptStacks ==
  ASSUME NEW c, Stacks(c, frames, masterBase), Keeps(c, cpu'),
         frames' = frames, masterBase' = masterBase
  PROVE  SInv'
  BY StacksKept DEF SInv

LEMMA RaiseStacks ==
  ASSUME SInv, Trap \/ Check \/ Illegal \/ Violation
  PROVE  SInv'
<1> PICK c : c = Fetch(cpu)
  OBVIOUS
<1>1. Started(c)
  BY FetchStarts
<1>2. StackRoom /\ masterBase' = masterBase
  BY DEF Trap, Check, Illegal, Violation, Raise
<1>3. Room(Sps(c))
  BY <1>1, <1>2, RoomThen DEF Started
<1>4. c.pc \in 0 .. CodeSize - 1 /\ c.ppc \in 0 .. CodeSize - 1
  BY <1>1 DEF Started, WellFormed
<1>5. /\ Enters(c, c.pc, exception_trapN(c, 32)) /\ Enters(c, c.pc, exception_trap(c, 6))
      /\ Enters(c, c.ppc, exception_again(c, 4)) /\ Enters(c, c.ppc, exception_again(c, 8))
  BY <1>1, <1>3, ExceptionsEnter DEF Started
<1>6. PICK pc \in {c.pc, c.ppc} : Enters(c, pc, cpu') /\ frames' = Entered(c, pc, cpu')
  BY <1>5 DEF Trap, Check, Illegal, Violation, Raise
<1> QED  BY <1>1, <1>2, <1>3, <1>4, <1>6, EnteredStacks DEF Started

(* check_interrupts ends every change of the mask. *)
LEMMA CheckedStacks ==
  ASSUME NEW c, Stacks(c, frames, masterBase), Interrupted(c) => Room(Sps(c)),
         cpu' = check_interrupts(c),
         frames' = IF Interrupted(c) THEN Entered(c, c.pc, cpu') ELSE frames,
         masterBase' = masterBase
  PROVE  SInv'
<1>1. WellFormed(c) /\ Within(Sps(c)) /\ c.pc \in 0 .. CodeSize - 1
  BY StacksWithin DEF WellFormed
<1>2. CASE Interrupted(c)
  <2>1. Enters(c, c.pc, cpu')
    BY <1>1, <1>2, CheckEnters
  <2> QED  BY <1>1, <1>2, <2>1, EnteredStacks
<1>3. CASE ~Interrupted(c)
  <2>1. Keeps(c, cpu')
    BY <1>1, <1>3, CheckEnters DEF Resting
  <2> QED  BY <1>3, <2>1, KeptStacks
<1> QED  BY <1>2, <1>3

LEMMA LoadStacks ==
  ASSUME SInv, NEW c, Started(c), NEW sr \in SRs, LoadSR(c, sr)
  PROVE  SInv'
<1> PICK before : before = set_sr_noint(c, sr)
  OBVIOUS
<1>1. sr \in StatusRegisters
  BY CpuAssumption
<1>2. WellFormed(before) /\ Rest(before) = Rest(c) /\ before.mem = c.mem /\ Sps(before) = Sps(c)
  BY <1>1, NointStacks DEF Started
<1>3. Stacks(before, frames, masterBase)
  <2>1. Keeps(c, before)
    BY <1>2 DEF Keeps, Rest
  <2> QED  BY <2>1, StacksKept DEF Started
<1>4. /\ Interrupted(before) => StackRoom
      /\ cpu' = check_interrupts(before) /\ masterBase' = masterBase
      /\ frames' = IF Interrupted(before) THEN Entered(before, before.pc, cpu') ELSE frames
  BY DEF LoadSR, set_sr
<1>5. Interrupted(before) => Room(Sps(before))
  BY <1>2, <1>4, RoomThen DEF Started
<1> QED  BY <1>3, <1>4, <1>5, CheckedStacks

LEMMA RteResumed ==
  ASSUME SInv, Rte
  PROVE  \E c, back : /\ Resumes(c, frames, back, masterBase) /\ frames # <<>>
                      /\ frames \in Seq(Frame) /\ masterBase' = masterBase
                      /\ cpu' = check_interrupts(back)
                      /\ frames' = IF ~Interrupted(back) THEN Popped(frames)
                                   ELSE Append(Popped(frames), Record(back, back.pc, cpu'))
<1> PICK c : c = Fetch(cpu)
  OBVIOUS
<1> PICK back : back = set_sr_noint(Restore(c), SavedSR(c))
  OBVIOUS
<1>1. Started(c)
  BY FetchStarts
<1>2. /\ Balanced(c) /\ cpu' = check_interrupts(back) /\ masterBase' = masterBase
      /\ frames' = IF ~Interrupted(back) THEN Popped(frames)
                   ELSE Append(Popped(frames), Record(back, back.pc, cpu'))
  BY DEF Rte, set_sr, Popped, Record
<1>3. Resumes(c, frames, back, masterBase)
  BY <1>1, <1>2, PopStacks DEF Started, Balanced, Returns
<1>4. frames # <<>> /\ frames \in Seq(Frame)
  BY <1>1, <1>2 DEF Started, Stacks, Balanced
<1> QED  BY <1>2, <1>3, <1>4

LEMMA RteStacks ==
  ASSUME SInv, Rte
  PROVE  SInv'
<1>1. PICK c, back :
        /\ Resumes(c, frames, back, masterBase) /\ masterBase' = masterBase
        /\ cpu' = check_interrupts(back)
        /\ frames' = IF ~Interrupted(back) THEN Popped(frames)
                     ELSE Append(Popped(frames), Record(back, back.pc, cpu'))
  BY RteResumed
<1>2. Stacks(back, Popped(frames), masterBase) /\ Room(Sps(back))
  BY <1>1 DEF Resumes
<1>3. WellFormed(back) /\ Within(Sps(back)) /\ back.pc \in 0 .. CodeSize - 1
  BY <1>2, StacksWithin DEF WellFormed
<1>4. CASE Interrupted(back)
  <2>1. Enters(back, back.pc, cpu')
    BY <1>1, <1>2, <1>3, <1>4, CheckEnters
  <2>2. Stacks(cpu', Append(Popped(frames), Record(back, back.pc, cpu')), masterBase)
    BY <1>2, <1>3, <2>1, PushStacks
  <2> QED  BY <1>1, <1>4, <2>2 DEF SInv
<1>5. CASE ~Interrupted(back)
  <2>1. Keeps(back, cpu')
    BY <1>1, <1>3, <1>5, CheckEnters DEF Resting
  <2>2. Stacks(cpu', Popped(frames), masterBase)
    BY <1>2, <2>1, StacksKept
  <2> QED  BY <1>1, <1>5, <2>2 DEF SInv
<1> QED  BY <1>4, <1>5

LEMMA InstructionStacks ==
  ASSUME SInv, Instruction
  PROVE  SInv'
<1>1. CASE Plain
  <2>1. Started(cpu') /\ UNCHANGED <<frames, masterBase>>
    BY <1>1, FetchStarts DEF Plain
  <2> QED  BY <2>1 DEF Started, SInv
<1>2. ASSUME NEW sr \in SRs, MoveToSR(sr) \/ Stop(sr) PROVE SInv'
  BY <1>2, FetchStarts, LoadStacks DEF MoveToSR, Stop
<1> QED  BY <1>1, <1>2, RaiseStacks, RteStacks DEF Instruction

LEMMA RequestStacks ==
  ASSUME SInv, NEW level \in Levels, m68k_set_irq(level)
  PROVE  SInv'
<1> PICK c : c = [cpu EXCEPT !.intLevel = level]
  OBVIOUS
<1> PICK nmi \in BOOLEAN : nmi <=> level = 7 /\ cpu.intLevel # 7
  OBVIOUS
<1>1. Alike(cpu, c) /\ c.intLevel = level
  BY PatchAlike DEF SInv, Stacks, WellFormed, Fields
<1>2. Stacks(c, frames, masterBase) /\ WellFormed(c) /\ Within(Sps(c)) /\ c.pc \in 0 .. CodeSize - 1
  <2>1. Stacks(c, frames, masterBase)
    BY <1>1, AlikeKeeps, StacksKept DEF SInv
  <2>2. WellFormed(c) /\ Within(Sps(c))
    BY <2>1, StacksWithin
  <2>3. c.pc \in 0 .. CodeSize - 1
    BY <2>2 DEF WellFormed
  <2> QED  BY <2>1, <2>2, <2>3
<1>3. /\ (nmi \/ level > c.sr.mask) /\ Taken(c, level) => StackRoom
      /\ cpu' = IF nmi THEN exception_interrupt(c, 7) ELSE check_interrupts(c)
      /\ frames' = IF (nmi \/ level > c.sr.mask) /\ Taken(c, level) THEN Entered(c, c.pc, cpu')
                   ELSE frames
      /\ masterBase' = masterBase
  BY DEF m68k_set_irq
<1>4. StackRoom => Room(Sps(c))
  BY <1>1, RoomThen DEF Alike
<1>5. CASE nmi
  <2>1. level = 7 /\ 7 \in Levels \ {0}
    BY <1>5
  <2>2. CASE Taken(c, 7)
    <3>1. Enters(c, c.pc, cpu') /\ frames' = Entered(c, c.pc, cpu')
      BY <1>2, <1>3, <1>4, <1>5, <2>1, <2>2, InterruptEnters
    <3> QED  BY <1>2, <1>3, <1>4, <1>5, <2>1, <2>2, <3>1, EnteredStacks
  <2>3. CASE ~Taken(c, 7)
    BY <1>2, <1>3, <1>5, <2>1, <2>3, NotTaken, KeptStacks DEF Resting
  <2> QED  BY <2>2, <2>3
<1>6. CASE ~nmi
  <2>1. Interrupted(c) <=> level > c.sr.mask /\ Taken(c, level)
    BY <1>1 DEF Interrupted, Taken
  <2>2. cpu' = check_interrupts(c)
    BY <1>3, <1>6
  <2>3. frames' = IF Interrupted(c) THEN Entered(c, c.pc, cpu') ELSE frames
    BY <1>3, <1>6, <2>1
  <2>4. Interrupted(c) => Room(Sps(c))
    BY <1>3, <1>4, <2>1
  <2> QED  BY <1>2, <1>3, <2>2, <2>3, <2>4, CheckedStacks
<1> QED  BY <1>5, <1>6

LEMMA HaltStacks ==
  ASSUME SInv, m68k_pulse_halt
  PROVE  SInv'
<1> PICK stopped \in SUBSET {"STOP", "HALT"} : stopped = cpu.stopped \cup {"HALT"}
  BY DEF SInv, Stacks, WellFormed
<1>1. cpu' = [cpu EXCEPT !.stopped = stopped] /\ UNCHANGED <<frames, masterBase>>
  BY DEF m68k_pulse_halt
<1>2. Keeps(cpu, cpu')
  BY <1>1, PatchAlike, AlikeKeeps DEF SInv, Stacks
<1> QED  BY <1>1, <1>2, KeptStacks DEF SInv

LEMMA NothingPending ==
  ASSUME NEW c, WellFormed(c), NEW base, Sps(c).isp = InterruptTop, Sps(c).msp = base, Within(Sps(c))
  PROVE  Stacks(c, <<>>, base)
<1>1. SpsOf(c, <<>>) \in [1 .. 1 -> [Regs -> Int]] /\ SpsOf(c, <<>>)[1] = Sps(c)
  BY SpsType DEF SpsOf
<1> PICK s : s = SpsOf(c, <<>>)
  OBVIOUS
<1>2. \A k \in 1 .. 1 : k = 1
  OBVIOUS
<1>3. s[1].isp \in Int /\ s[1].msp \in Int
  BY <1>1 DEF Regs
<1>4. Descends(s, 0)
  BY <1>2, <1>3 DEF Descends
<1>5. Chain(s, 0, base)
  BY <1>1, <1>2, <1>4 DEF Chain
<1>6. Len(<<>>) = 0 /\ <<>> \in Seq(Frame)
  OBVIOUS
<1> QED  BY <1>5, <1>6 DEF Stacks, FramesOn

Placed(c, sp, pc, mem) == [c EXCEPT !.sp = sp, !.pc = pc, !.mem = mem]

LEMMA PlacedMoves ==
  ASSUME NEW c, WellFormed(c), NEW sp, NEW mem, WellFormed(Moved(c, sp, mem)),
         NEW pc \in 0 .. CodeSize - 1
  PROVE  Alike(Moved(c, sp, mem), Placed(c, sp, pc, mem))
<1> PICK d : d = Moved(c, sp, mem)
  OBVIOUS
<1>1. Placed(c, sp, pc, mem) = [d EXCEPT !.pc = pc]
  <2>1. c = [f \in Fields |-> c[f]]
    BY DEF WellFormed
  <2> QED  BY <2>1 DEF Moved, Placed, Fields
<1>2. Alike(d, [d EXCEPT !.pc = pc])
  BY PatchAlike
<1> QED  BY <1>1, <1>2

LEMMA ResetStacks ==
  ASSUME SInv, m68k_pulse_reset
  PROVE  SInv'
<1> PICK old, r :
      old \in StatusRegisters /\ old = cpu.sr /\ r = [cpu EXCEPT !.stopped = {}, !.sr.mask = 7]
  BY DEF SInv, Stacks, WellFormed
<1> PICK c : c = set_sm_flag(r, TRUE, FALSE)
  OBVIOUS
<1> PICK mem : mem = [a \in DOMAIN c.mem |-> IF a < InterruptTop THEN "junk" ELSE c.mem[a]]
  OBVIOUS
<1>1. /\ cpu' = [c EXCEPT !.sp = InterruptTop, !.pc = 0, !.mem = mem]
      /\ frames' = <<>> /\ masterBase' = c.bank.msp
  BY DEF m68k_pulse_reset
<1>2. WellFormed(cpu) /\ Within(Sps(cpu))
  BY StacksWithin DEF SInv
<1>3. WellFormed(r) /\ Sps(r) = Sps(cpu)
  <2>1. /\ r = [f \in Fields |-> r[f]] /\ r.sr = [old EXCEPT !.mask = 7] /\ r.stopped = {}
        /\ r.type = cpu.type /\ r.sp = cpu.sp /\ r.bank = cpu.bank /\ r.mem = cpu.mem
        /\ r.pc = cpu.pc /\ r.ppc = cpu.ppc /\ r.intLevel = cpu.intLevel
    BY <1>2 DEF WellFormed, Fields
  <2>2. [old EXCEPT !.mask = 7] \in StatusRegisters /\ [old EXCEPT !.mask = 7].M = old.M
        /\ [old EXCEPT !.mask = 7].S = old.S
    BY DEF StatusRegisters
  <2>3. WellFormed(r)
    BY <1>2, <2>1, <2>2 DEF WellFormed
  <2>4. Bank(r.sr) = Bank(cpu.sr)
    BY <2>1, <2>2 DEF Bank
  <2>5. Sps(r) = Sps(cpu)
    BY <2>1, <2>4 DEF Sps, get_reg
  <2> QED  BY <2>3, <2>5
<1>4. WellFormed(c) /\ Sps(c) = Sps(cpu) /\ Bank(c.sr) = "isp"
  <2>1. ToInterruptStack(r, c)
    BY <1>3, InterruptStackUsed
  <2> QED  BY <1>3, <2>1 DEF ToInterruptStack, Bank
<1>5. c.bank.msp = Sps(cpu).msp
  BY <1>4 DEF Sps, get_reg, Regs
<1> PICK d : d = Moved(c, InterruptTop, mem)
  OBVIOUS
<1>6. WellFormed(d) /\ Sps(d) = [Sps(cpu) EXCEPT !["isp"] = InterruptTop]
  <2>1. Memory(mem) /\ InterruptTop \in Int
    <3>1. DOMAIN c.mem = 0 .. MasterTop
      BY <1>4 DEF WellFormed, Memory
    <3>2. mem = [a \in 0 .. MasterTop |-> IF a < InterruptTop THEN "junk" ELSE c.mem[a]]
      BY <3>1
    <3>3. Memory(mem)
      BY <3>2 DEF Memory
    <3> QED  BY <3>3, BaseBounds
  <2>2. Moves(c, d, InterruptTop)
    BY <1>4, <2>1, MoveStack
  <2> QED  BY <1>4, <2>2 DEF Moves
<1>7. Alike(d, cpu')
  <2>1. cpu' = Placed(c, InterruptTop, 0, mem)
    BY <1>1 DEF Placed
  <2>2. 0 \in 0 .. CodeSize - 1
    BY CpuAssumption
  <2>3. WellFormed(Moved(c, InterruptTop, mem)) /\ WellFormed(c)
    BY <1>4, <1>6
  <2>4. Alike(Moved(c, InterruptTop, mem), Placed(c, InterruptTop, 0, mem))
    BY <2>2, <2>3, PlacedMoves
  <2> QED  BY <2>1, <2>4
<1>8. WellFormed(cpu') /\ Sps(cpu') = [Sps(cpu) EXCEPT !["isp"] = InterruptTop]
  BY <1>6, <1>7 DEF Alike
<1>9. /\ Sps(cpu').isp = InterruptTop /\ Sps(cpu').msp = masterBase'
      /\ Within(Sps(cpu'))
  <2>1. Sps(cpu) \in [Regs -> Int]
    BY <1>2, SpsType
  <2>2. /\ Sps(cpu').isp = InterruptTop /\ Sps(cpu').msp = Sps(cpu).msp
        /\ Sps(cpu').usp = Sps(cpu).usp
    BY <1>8, <2>1 DEF Regs
  <2>3. Within(Sps(cpu'))
    BY <1>2, <2>2, BaseBounds DEF Within
  <2> QED  BY <1>1, <1>5, <2>2, <2>3
<1>10. Stacks(cpu', <<>>, masterBase')
  BY <1>8, <1>9, NothingPending
<1> QED  BY <1>1, <1>10 DEF SInv

LEMMA InitSInv == CpuInit => SInv
<1> SUFFICES ASSUME CpuInit PROVE SInv
  OBVIOUS
<1>1. PICK type \in CpuTypes :
        cpu = [type |-> type, pc |-> 0, ppc |-> 0, sp |-> UserTop,
               sr |-> [S |-> FALSE, M |-> FALSE, mask |-> 0],
               bank |-> [usp |-> UserTop, isp |-> InterruptTop, msp |-> MasterTop],
               mem |-> [a \in 0 .. MasterTop |-> "junk"],
               stopped |-> {}, intLevel |-> 0]
  BY DEF CpuInit
<1>2. cpu = [f \in Fields |-> cpu[f]]
  BY <1>1 DEF Fields
<1>3. /\ cpu.sr = [S |-> FALSE, M |-> FALSE, mask |-> 0] /\ cpu.sp = UserTop
      /\ cpu.bank = [usp |-> UserTop, isp |-> InterruptTop, msp |-> MasterTop]
      /\ cpu.type \in CpuTypes /\ cpu.pc = 0 /\ cpu.ppc = 0 /\ cpu.intLevel = 0 /\ cpu.stopped = {}
      /\ cpu.mem = [a \in 0 .. MasterTop |-> "junk"]
  BY <1>1
<1>4. cpu.sr \in StatusRegisters /\ ~cpu.sr.M /\ ~cpu.sr.S
  BY <1>3 DEF StatusRegisters
<1>5. cpu.bank \in [Regs -> Int] /\ cpu.sp \in Int
  BY <1>3, BaseBounds DEF Regs
<1>6. 0 \in 0 .. CodeSize - 1 /\ 0 \in Levels
  BY CpuAssumption
<1>7. WellFormed(cpu)
  BY <1>2, <1>3, <1>4, <1>5, <1>6 DEF WellFormed, Memory
<1>8. Sps(cpu).usp = UserTop /\ Sps(cpu).isp = InterruptTop /\ Sps(cpu).msp = MasterTop
  BY <1>3, <1>4 DEF Sps, get_reg, Bank, Regs
<1>9. Within(Sps(cpu))
  BY <1>8, BaseBounds DEF Within
<1>10. frames = <<>> /\ masterBase = MasterTop
  BY DEF CpuInit
<1> QED  BY <1>7, <1>8, <1>9, <1>10, NothingPending DEF SInv

LEMMA NextSInv == SInv /\ [CpuNext]_cpuVars => SInv'
<1> SUFFICES ASSUME SInv, [CpuNext]_cpuVars PROVE SInv'
  OBVIOUS
<1>1. CASE UNCHANGED cpuVars
  <2>1. cpu' = cpu /\ frames' = frames /\ masterBase' = masterBase
    BY <1>1 DEF cpuVars
  <2> QED  BY <2>1 DEF SInv
<1>2. CASE CpuNext
  BY <1>2, InstructionStacks, RequestStacks, HaltStacks, ResetStacks
     DEF CpuNext, m68k_execute, m68k_execute_single_instruction
<1> QED  BY <1>1, <1>2

(* However exceptions nest and modes change, none of the three stack       *)
(* pointers drifts (m68ki_set_sm_flag, the frames of m68kcpu.h and rte).   *)
THEOREM StacksStayBalanced == CpuSpec => []StacksBalanced
<1>1. SInv => StacksBalanced
  <2> SUFFICES ASSUME SInv PROVE StacksBalanced
    OBVIOUS
  <2>1. get_reg(cpu, "usp") = UserTop
    <3>1. Within(Sps(cpu))
      BY StacksWithin DEF SInv
    <3> QED  BY <3>1 DEF Within, Sps, Regs
  <2>2. ASSUME frames = <<>>
        PROVE  get_reg(cpu, "isp") = InterruptTop /\ get_reg(cpu, "msp") = masterBase
    <3>1. Sps(cpu).isp = InterruptTop /\ Sps(cpu).msp = masterBase
      BY <2>2, StacksEmpty DEF SInv
    <3> QED  BY <3>1 DEF Sps, Regs
  <2> QED  BY <2>1, <2>2 DEF StacksBalanced
<1> QED  BY InitSInv, NextSInv, <1>1, PTL DEF CpuSpec

(* rte resumes exactly what its exception interrupted, whichever frame it  *)
(* left (rte in m68k_in.c_, and the frames of m68kcpu.h).                  *)
THEOREM RteResumesContext == CpuSpec => RteResumes
<1>1. ASSUME SInv, Rte
      PROVE  LET saved == frames[Len(frames)].saved
             IN IF Len(frames') < Len(frames) THEN Context(cpu', cpu'.pc) = saved
                ELSE frames'[Len(frames)].saved = saved
  <2>1. PICK c, back :
          /\ Resumes(c, frames, back, masterBase) /\ frames # <<>> /\ frames \in Seq(Frame)
          /\ cpu' = check_interrupts(back)
          /\ frames' = IF ~Interrupted(back) THEN Popped(frames)
                       ELSE Append(Popped(frames), Record(back, back.pc, cpu'))
    BY <1>1, RteResumed
  <2>2. /\ Len(frames) \in Nat \ {0} /\ Popped(frames) \in Seq(Frame)
        /\ Len(Popped(frames)) = Len(frames) - 1
    BY <2>1, NonEmpty
  <2>3. WellFormed(back) /\ Within(Sps(back)) /\ Context(back, back.pc) = frames[Len(frames)].saved
    BY <2>1, StacksWithin DEF Resumes
  <2>4. CASE ~Interrupted(back)
    <3>1. Context(cpu', cpu'.pc) = Context(back, back.pc)
      BY <2>1, <2>3, <2>4, CheckEnters DEF Resting
    <3>2. Len(frames') < Len(frames)
      BY <2>1, <2>2, <2>4
    <3> QED  BY <2>3, <3>1, <3>2
  <2>5. CASE Interrupted(back)
    <3> PICK f : f = Record(back, back.pc, cpu')
      OBVIOUS
    <3>1. f.saved = Context(back, back.pc)
      BY DEF Record
    <3>2. frames' = Append(Popped(frames), f)
      BY <2>1, <2>5
    <3>3. Len(frames') = Len(frames) /\ frames'[Len(frames)] = f
      <4>1. WellFormed(cpu') /\ back.pc \in 0 .. CodeSize - 1
        <5>1. Room(Sps(back))
          BY <2>1 DEF Resumes
        <5> QED  BY <2>1, <2>3, <2>5, <5>1, CheckEnters DEF Enters, WellFormed
      <4>2. f \in Frame
        BY <2>3, <4>1, RecordIsFrame
      <4> QED  BY <2>2, <3>2, <4>2, AppendProperties
    <3> QED  BY <2>2, <2>3, <3>1, <3>3
  <2> QED  BY <2>4, <2>5
<1>2. SInv /\ [CpuNext]_cpuVars =>
        [Rte => LET saved == frames[Len(frames)].saved
                IN IF Len(frames') < Len(frames) THEN Context(cpu', cpu'.pc) = saved
                   ELSE frames'[Len(frames)].saved = saved]_cpuVars
  BY <1>1
<1> QED  BY InitSInv, NextSInv, <1>2, PTL DEF CpuSpec, RteResumes
=============================================================================
