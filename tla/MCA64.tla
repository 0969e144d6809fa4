------------------------------- MODULE MCA64 --------------------------------
(***************************************************************************)
(* For TLC: the translation of every encoding class of the A64 instruction *)
(* set, the execution of data-processing instructions by the code that is  *)
(* emitted for them, and the translation of blocks with the control flow   *)
(* of every instruction.  The three share no state: a behaviour runs one   *)
(* of them and leaves the others alone.                                    *)
(***************************************************************************)
EXTENDS A64Insn, A64Alu, A64Block

VARIABLE mode

-----------------------------------------------------------------------------
\* Registers at the boundaries of a word (4 bits) and of a doubleword (8).
MCOperands == {0, 1, 3, 7, 8, 15, 16, 127, 128, 136, 240, 255}

\* Of each sign, of two bits of exponent and two of fraction: zero, denormals,
\* 1, 1.5, 2, 3.5, infinity, a signalling and a quiet NaN.
MCFloats == {0, 1, 3, 4, 6, 8, 11, 12, 13, 14, 16, 17, 20, 23, 28, 30}

\* Of degree 4.
MCPolynomial == [CRC32 |-> 3, CRC32C |-> 9]

\* What an instruction does to the control flow of a block.
ControlFlow(sequence) ==
  SelectSeq([i \in DOMAIN sequence |-> sequence[i].kind], LAMBDA kind : kind \in Control)

AllInsns == {ControlFlow(sequence) : sequence \in disas_a64_insn}

-----------------------------------------------------------------------------
\* Integer instructions start from any registers and any carry, FP and vector
\* instructions, which do not read them, from any control and status.
IntegerStart == fz = FALSE /\ fpsr = {} /\ NF = 0 /\ ZF = 1 /\ VF = 0
FpStart == X = [r \in 0 .. 1 |-> 15] /\ NF = 0 /\ ZF = 0 /\ CF = 1 /\ VF = 0

IdleInsn == effects = <<>> /\ fp_excp_el = FALSE
IdleAlu == FpStart /\ fz = FALSE /\ fpsr = {}

\* A block that has been translated: it holds the exception of a breakpoint only.
IdleBlock ==
  /\ page_insns = 1 /\ phase = "done" /\ todo = <<>> /\ num_insns = 1
  /\ is_jmp = "DISAS_EXC" /\ ss_active = FALSE /\ pstate_ss = FALSE
  /\ stepping = FALSE /\ linking = TRUE /\ slots = {} /\ assert_ok = TRUE
  /\ flow = "debug" /\ pc = "insn" /\ ss_clear = FALSE /\ printed = <<>>

MCInit ==
  /\ mode \in {"insn", "alu", "block"}
  /\ mode # "insn" => IdleInsn
  /\ InsnInit
  /\ mode = "alu" => IntegerStart \/ FpStart
  /\ mode # "alu" => IdleAlu
  /\ AluInit
  /\ IF mode = "block" THEN Init ELSE IdleBlock

\* After the first instruction, those that read the flags.
FlagReaders == [op : {"MRS"}, rt : {1}] \cup [op : {"ADCS", "SBC"}, sf : BOOLEAN, rd : {0}, rm : {1}]
Starts(i) == IF i \in Arch!Fp \cup Arch!Vector THEN FpStart ELSE IntegerStart

Run == insn = <<>> /\ \E i \in Arch!Insns : Starts(i) /\ Execute(i)
RunNext == /\ insn # <<>> /\ insn.op \in Arch!SetsFlags \cup Arch!FpCompare \cup {"ADDX", "MSR"}
           /\ \E i \in FlagReaders : Execute(i)

MCNext ==
  /\ UNCHANGED mode
  /\ \/ mode = "insn" /\ InsnNext /\ UNCHANGED <<aluvars, vars>>
     \/ mode = "alu" /\ (Run \/ RunNext) /\ UNCHANGED <<insnvars, vars>>
     \/ mode = "block" /\ Next /\ UNCHANGED <<insnvars, aluvars>>

MCSpec == MCInit /\ [][MCNext]_<<mode, insnvars, aluvars, vars>>

\* With the fairness of A64Block.
MCLiveSpec == MCSpec /\ WF_vars(Next)
=============================================================================
