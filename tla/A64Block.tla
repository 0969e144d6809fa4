------------------------------ MODULE A64Block ------------------------------
(***************************************************************************)
(* The translation of one block of guest code (gen_intermediate_code_a64   *)
(* of translate-a64.c), together with one execution path through the code  *)
(* it emits.  The translator works through the effects of each instruction *)
(* in order; the path takes or skips the emitted code, chosen at every     *)
(* conditional jump, until it leaves the block.  An instruction is the     *)
(* sequence of its effects on the control flow; what else it does is the   *)
(* subject of A64Insn.                                                     *)
(***************************************************************************)
EXTENDS Integers, Sequences

CONSTANTS
  insns,        \* the instructions, each a sequence of the kinds below
  max_insns,    \* limit on the instructions of a block
  PAGE_INSNS    \* instructions on a page (TARGET_PAGE_SIZE / 4)

\* The kinds of effects that matter to the block (see A64Effects).
Control == {"fp_access_check", "unallocated", "exception", "exception_next", "set_pc",
            "helper", "write_pc", "ss_advance", "brcond", "br", "label", "printer_0", "printer_1",
            "goto_pc_0", "goto_addr_0", "goto_addr_1",
            "DISAS_JUMP", "DISAS_UPDATE", "DISAS_WFI", "DISAS_WFE", "DISAS_YIELD"}

\* Effects after which the emitted code does not go on.
Exits == {"unallocated", "exception", "exception_next",
          "goto_pc_0", "goto_addr_0", "goto_addr_1"}

\* The exits of a branch, and the record of the branch that goes with each.
Gotos == {"goto_pc_0", "goto_addr_0", "goto_addr_1"}

RecordOf(kind) == IF kind = "goto_pc_0" THEN "printer_0" ELSE "printer_1"

\* The goto_tb slot of an effect; -1 for none.
SlotOf(kind) ==
  CASE kind \in {"goto_pc_0", "goto_addr_0"} -> 0
    [] kind = "goto_addr_1" -> 1
    [] OTHER -> -1

\* The order the handlers keep in the control flow they emit, at effect i of
\* the n effects of s: jumps go forward to a label, an exit that a jump may pass
\* is followed by one at the end, the access check comes before any jump, a
\* goto_tb slot is used once, a helper follows the update of the PC, DISAS_JUMP
\* the computation of the new one and the exit of a branch its record.
InOrder(s, n, i) ==
  /\ s[i] = "brcond" => \E j \in i + 1 .. n : s[j] = "label"
  /\ s[i] = "br" => \E j \in i + 1 .. n :
                      s[j] = "label" /\ \E k \in j + 1 .. n : s[k] = "label"
  /\ s[i] \in {"brcond", "br"} => \A j \in i + 1 .. n : s[j] \in Exits => s[n] \in Exits
  /\ s[i] \in {"brcond", "br"} => \A j \in i + 1 .. n : s[j] # "fp_access_check"
  /\ \A j \in i + 1 .. n : SlotOf(s[i]) = SlotOf(s[j]) => SlotOf(s[i]) = -1
  /\ i < n /\ s[i + 1] = "helper" => s[i] = "set_pc"
  /\ i < n /\ s[i + 1] = "DISAS_JUMP" => s[i] = "write_pc" /\ i + 1 = n
  /\ s[i] \in {"printer_0", "printer_1"} => i < n /\ s[i + 1] \in Gotos
  /\ i < n /\ s[i + 1] \in Gotos => s[i] = RecordOf(s[i + 1])

WellFormed(s) == \A i \in 1 .. Len(s) : InOrder(s, Len(s), i)

\* No handler starts with one of those that need a predecessor.
ASSUME InsnsAssumption ==
  /\ insns \subseteq Seq(Control)
  /\ \A s \in insns :
       WellFormed(s) /\ (s # <<>> => s[1] \notin {"helper", "DISAS_JUMP"} \cup Gotos)

ASSUME BoundsAssumption == max_insns \in Nat \ {0} /\ PAGE_INSNS \in Nat \ {0}

VARIABLES
  page_insns,   \* instructions from the start of the block to the page's end
  phase,        \* "loop", "insn", "tail", "done"
  todo,         \* effects the current instruction still has
  num_insns,    \* num_insns
  is_jmp,       \* s->is_jmp
  ss_active,    \* the guest is single-stepping (architecture)
  pstate_ss,    \* s->pstate_ss
  stepping,     \* singlestep_enabled: the debugger is
  linking,      \* ~CF_LAST_IO: jumps between blocks may be linked
  slots,        \* goto_tb slots that have been emitted
  assert_ok,    \* no assert of the loop has failed
  flow,         \* the path: "run", "skip", "skip2" (to the next, the second
                \* label), or how it left the block
  pc,           \* the guest PC in the CPU state when the path is here
  ss_clear,     \* PSTATE.SS has been cleared on the path
  printed       \* branch records the path has made in this instruction

path == <<flow, pc, ss_clear, printed>>

flags == <<page_insns, ss_active, stepping, linking>>

vars == <<phase, todo, num_insns, is_jmp, pstate_ss, slots, assert_ok, flags, path>>

Left == {"exception", "pending", "step", "debug", "chain", "lookup", "wait"}

Jmp == {"DISAS_NEXT", "DISAS_JUMP", "DISAS_UPDATE", "DISAS_TB_JUMP", "DISAS_EXC",
        "DISAS_WFI", "DISAS_WFE", "DISAS_YIELD"}

\* The CPU state holds the PC of the block's first instruction.
Init ==
  /\ page_insns \in 1 .. PAGE_INSNS
  /\ phase = "loop"
  /\ todo = <<>>
  /\ num_insns = 0
  /\ is_jmp = "DISAS_NEXT"
  /\ ss_active \in BOOLEAN
  /\ pstate_ss \in BOOLEAN
  /\ stepping \in BOOLEAN
  /\ linking \in BOOLEAN
  /\ slots = {}
  /\ assert_ok = TRUE
  /\ flow = "run"
  /\ pc = "insn"
  /\ ss_clear = FALSE
  /\ printed = <<>>

-----------------------------------------------------------------------------
(* Pieces of emitted code.  Each has an effect only if the path runs it.     *)

running == flow = "run"

\* gen_a64_set_pc_im followed by something that leaves.
LeaveAt(dest, how) ==
  /\ pc' = IF running THEN dest ELSE pc
  /\ flow' = IF running THEN how ELSE flow

\* A step completed only if the translator still sees PSTATE.SS set.
StepCompleteOnce(dest) ==
  /\ LeaveAt(dest, "step")
  /\ ss_clear' = (ss_clear \/ (running /\ pstate_ss))
  /\ pstate_ss' = FALSE
  /\ is_jmp' = "DISAS_EXC"

\* gen_step_complete_exception, the PC being dest.
StepComplete(dest) ==
  /\ LeaveAt(dest, "step")
  /\ ss_clear' = (ss_clear \/ running)
  /\ pstate_ss' = FALSE
  /\ is_jmp' = "DISAS_EXC"

\* Blocks are linked under the architecture's single step too.
GotoTbIgnoresStep(n, dest, near) ==
  /\ assert_ok' = (assert_ok /\ n \notin slots)
  /\ slots' = slots \cup {n}
  /\ LeaveAt(dest, "chain")
  /\ is_jmp' = "DISAS_TB_JUMP"
  /\ UNCHANGED <<pstate_ss, ss_clear>>

\* gen_goto_tb(s, n, dest); near says that dest is on the block's page.
gen_goto_tb(n, dest, near) ==
  IF ~stepping /\ ~ss_active /\ linking /\ near
  THEN /\ assert_ok' = (assert_ok /\ n \notin slots)
       /\ slots' = slots \cup {n}
       /\ LeaveAt(dest, "chain")
       /\ is_jmp' = "DISAS_TB_JUMP"
       /\ UNCHANGED <<pstate_ss, ss_clear>>
  ELSE /\ IF ss_active THEN StepComplete(dest)
          ELSE IF stepping
          THEN LeaveAt(dest, "debug") /\ UNCHANGED <<is_jmp, pstate_ss, ss_clear>>
          ELSE LeaveAt(dest, "lookup") /\ is_jmp' = "DISAS_TB_JUMP"
               /\ UNCHANGED <<pstate_ss, ss_clear>>
       /\ UNCHANGED <<slots, assert_ok>>

-----------------------------------------------------------------------------
(* The loop *)

\* A breakpoint of the debugger: no code but the exception.
Breakpoint ==
  /\ phase = "loop"
  /\ num_insns' = num_insns + 1
  /\ LeaveAt("insn", "debug")
  /\ is_jmp' = "DISAS_EXC"
  /\ phase' = "done"
  /\ UNCHANGED <<todo, pstate_ss, slots, assert_ok, flags, ss_clear, printed>>

\* Active-pending: a step exception instead of the instruction, with the PC
\* that is in the CPU state; an architectural breakpoint is checked before.
ActivePending ==
  /\ phase = "loop" /\ ss_active /\ ~pstate_ss
  /\ num_insns' = num_insns + 1
  /\ assert_ok' = (assert_ok /\ num_insns' = 1)
  /\ \E cpu, hit \in BOOLEAN :
       LeaveAt(IF cpu THEN "insn" ELSE pc, IF cpu /\ hit THEN "exception" ELSE "pending")
  /\ is_jmp' = "DISAS_EXC"
  /\ phase' = "tail"
  /\ UNCHANGED <<todo, pstate_ss, slots, flags, ss_clear, printed>>

\* num_insns is not incremented.
FetchUncounted ==
  /\ phase = "loop" /\ ~(ss_active /\ ~pstate_ss)
  /\ todo' \in insns
  /\ pc' = IF running THEN "stale" ELSE pc
  /\ printed' = <<>>
  /\ phase' = "insn"
  /\ UNCHANGED <<num_insns, is_jmp, flow, pstate_ss, slots, assert_ok, flags, ss_clear>>

\* The next instruction; with an architectural breakpoint (cpu) its check comes
\* first, which may take the exception, and the block ends with it.
Fetch ==
  /\ phase = "loop" /\ ~(ss_active /\ ~pstate_ss)
  /\ num_insns' = num_insns + 1
  /\ todo' \in insns
  /\ \E cpu, hit \in BOOLEAN :
       /\ hit => cpu
       /\ is_jmp' = IF cpu THEN "DISAS_UPDATE" ELSE is_jmp
       /\ flow' = IF running /\ hit THEN "exception" ELSE flow
       /\ pc' = IF ~running THEN pc ELSE IF cpu \/ num_insns = 0 THEN "insn" ELSE "stale"
  /\ printed' = <<>>
  /\ phase' = "insn"
  /\ UNCHANGED <<pstate_ss, slots, assert_ok, flags, ss_clear>>

\* tcg_op_buf_full may hold at any time.
EndInsn ==
  /\ phase = "insn" /\ todo = <<>>
  /\ \/ /\ is_jmp = "DISAS_NEXT" /\ ~stepping /\ ~ss_active
        /\ num_insns < page_insns /\ num_insns < max_insns
        /\ phase' = "loop"
     \/ phase' = "tail"
  /\ UNCHANGED <<todo, num_insns, is_jmp, pstate_ss, slots, assert_ok, flags, path>>

-----------------------------------------------------------------------------
(* The effects of an instruction *)

Upcoming(kinds) == phase = "insn" /\ todo # <<>> /\ Head(todo) \in kinds

Rest == todo' = Tail(todo)

\* gen_exception_insn with the offset 4 or 0: the PC of the exception is that of
\* the instruction or, for a call that returns behind it, of the next one.
Exception ==
  /\ Upcoming({"unallocated", "exception", "exception_next"})
  /\ LeaveAt(IF Head(todo) = "exception_next" THEN "next" ELSE "insn", "exception")
  /\ is_jmp' = "DISAS_EXC"
  /\ Rest
  /\ UNCHANGED <<phase, num_insns, pstate_ss, slots, assert_ok, flags, ss_clear, printed>>

\* A failed check is an exception after which the handler returns.
FpCheck ==
  /\ Upcoming({"fp_access_check"})
  /\ \/ Rest /\ UNCHANGED <<is_jmp, flow, pc>>
     \/ LeaveAt("insn", "exception") /\ is_jmp' = "DISAS_EXC" /\ todo' = <<>>
  /\ UNCHANGED <<phase, num_insns, pstate_ss, slots, assert_ok, flags, ss_clear, printed>>

SetPc ==
  /\ Upcoming({"set_pc", "write_pc"})
  /\ pc' = IF ~running THEN pc ELSE IF Head(todo) = "set_pc" THEN "insn" ELSE "target"
  /\ Rest
  /\ UNCHANGED <<phase, num_insns, is_jmp, pstate_ss, slots, assert_ok, flags, flow, ss_clear,
                 printed>>

\* A helper that returns, or raises an exception at the PC of the CPU state.
Helper ==
  /\ Upcoming({"helper"})
  /\ flow' \in IF running THEN {"run", "exception"} ELSE {flow}
  /\ Rest
  /\ UNCHANGED <<phase, num_insns, is_jmp, pstate_ss, slots, assert_ok, flags, pc, ss_clear,
                 printed>>

gen_ss_advance ==
  /\ Upcoming({"ss_advance"})
  /\ pstate_ss' = (pstate_ss /\ ~ss_active)
  /\ ss_clear' = (ss_clear \/ (ss_active /\ running))
  /\ Rest
  /\ UNCHANGED <<phase, num_insns, is_jmp, slots, assert_ok, flags, flow, pc, printed>>

\* Jumps inside the code of the instruction: brcond to the first label that
\* follows, br over the part that is its target.
Jump ==
  /\ Upcoming({"brcond", "br", "label"})
  /\ flow' \in CASE Head(todo) = "brcond" /\ running -> {"run", "skip"}
                 [] Head(todo) = "br" /\ running -> {"skip2"}
                 [] Head(todo) = "label" /\ flow = "skip" -> {"run"}
                 [] Head(todo) = "label" /\ flow = "skip2" -> {"skip"}
                 [] OTHER -> {flow}
  /\ Rest
  /\ UNCHANGED <<phase, num_insns, is_jmp, pstate_ss, slots, assert_ok, flags, pc, ss_clear,
                 printed>>

\* The record is made by the translator and not by the code it emits.
PrinterTranslates ==
  /\ Upcoming({"printer_0", "printer_1"})
  /\ printed' = Append(printed, Head(todo))
  /\ Rest
  /\ UNCHANGED <<phase, num_insns, is_jmp, pstate_ss, slots, assert_ok, flags, flow, pc, ss_clear>>

\* gen_helper_printer
Printer ==
  /\ Upcoming({"printer_0", "printer_1"})
  /\ printed' = IF running THEN Append(printed, Head(todo)) ELSE printed
  /\ Rest
  /\ UNCHANGED <<phase, num_insns, is_jmp, pstate_ss, slots, assert_ok, flags, flow, pc, ss_clear>>

GotoTb ==
  /\ Upcoming(Gotos)
  /\ \E near \in BOOLEAN :
       gen_goto_tb(IF Head(todo) = "goto_addr_1" THEN 1 ELSE 0,
                   IF Head(todo) = "goto_pc_0" THEN "next" ELSE "target", near)
  /\ Rest
  /\ UNCHANGED <<phase, num_insns, flags, printed>>

SetIsJmp ==
  /\ Upcoming(Jmp)
  /\ is_jmp' = Head(todo)
  /\ Rest
  /\ UNCHANGED <<phase, num_insns, pstate_ss, slots, assert_ok, flags, path>>

-----------------------------------------------------------------------------
(* After the loop *)

\* Under either kind of stepping the block ends in an exception.
TailStepping ==
  /\ phase = "tail" /\ (stepping \/ ss_active) /\ is_jmp # "DISAS_EXC"
  /\ assert_ok' = (assert_ok /\ is_jmp # "DISAS_TB_JUMP")
  /\ LET dest == IF is_jmp = "DISAS_JUMP" THEN pc ELSE "next"
     IN  IF stepping THEN LeaveAt(dest, "debug") /\ UNCHANGED <<is_jmp, pstate_ss, ss_clear>>
         ELSE StepComplete(dest)
  /\ phase' = "done"
  /\ UNCHANGED <<todo, num_insns, slots, flags, printed>>

TailNext ==
  /\ phase = "tail" /\ ~stepping /\ ~ss_active /\ is_jmp = "DISAS_NEXT"
  /\ gen_goto_tb(1, "next", num_insns < page_insns)
  /\ phase' = "done"
  /\ UNCHANGED <<todo, num_insns, flags, printed>>

\* The PC is not updated before the exit.
TailExitStalePc ==
  /\ phase = "tail" /\ ~stepping /\ ~ss_active
  /\ is_jmp \in {"DISAS_UPDATE", "DISAS_JUMP", "DISAS_WFE", "DISAS_YIELD", "DISAS_WFI"}
  /\ LeaveAt(pc, "lookup")
  /\ phase' = "done"
  /\ UNCHANGED <<todo, num_insns, is_jmp, pstate_ss, slots, assert_ok, flags, ss_clear, printed>>

\* Back to the main loop: to look the next block up, or in a helper that does
\* not return (WFI's may).
TailExit ==
  /\ phase = "tail" /\ ~stepping /\ ~ss_active
  /\ is_jmp \in {"DISAS_UPDATE", "DISAS_JUMP", "DISAS_WFE", "DISAS_YIELD", "DISAS_WFI"}
  /\ \E how \in CASE is_jmp \in {"DISAS_WFE", "DISAS_YIELD"} -> {"wait"}
                  [] is_jmp = "DISAS_WFI" -> {"wait", "lookup"}
                  [] OTHER -> {"lookup"} :
       LeaveAt(IF is_jmp = "DISAS_JUMP" THEN pc ELSE "next", how)
  /\ phase' = "done"
  /\ UNCHANGED <<todo, num_insns, is_jmp, pstate_ss, slots, assert_ok, flags, ss_clear, printed>>

\* Nothing: the code has already left, on every path.
TailNothing ==
  /\ phase = "tail"
  /\ \/ is_jmp = "DISAS_EXC"
     \/ is_jmp = "DISAS_TB_JUMP" /\ ~stepping /\ ~ss_active
  /\ phase' = "done"
  /\ UNCHANGED <<todo, num_insns, is_jmp, pstate_ss, slots, assert_ok, flags, path>>

Next ==
  \/ Breakpoint \/ ActivePending \/ Fetch \/ EndInsn
  \/ Exception \/ FpCheck \/ SetPc \/ Helper \/ gen_ss_advance \/ Jump \/ Printer \/ GotoTb
  \/ SetIsJmp
  \/ TailStepping \/ TailNext \/ TailExit \/ TailNothing

Spec == Init /\ [][Next]_vars

\* The translator runs to the end on its own thread.
LiveSpec == Spec /\ WF_vars(Next)

-----------------------------------------------------------------------------
\* The state of the translator and of the path; at most two goto_tb slots.
TypeOK ==
  /\ page_insns \in 1 .. PAGE_INSNS
  /\ phase \in {"loop", "insn", "tail", "done"}
  /\ todo \in Seq(Control)
  /\ num_insns \in Nat
  /\ is_jmp \in Jmp
  /\ slots \subseteq {0, 1}
  /\ flow \in {"run", "skip", "skip2"} \cup Left
  /\ pc \in {"insn", "stale", "next", "target"}
  /\ printed \in Seq({"printer_0", "printer_1"})
  /\ ss_active \in BOOLEAN /\ pstate_ss \in BOOLEAN /\ stepping \in BOOLEAN
  /\ linking \in BOOLEAN /\ assert_ok \in BOOLEAN /\ ss_clear \in BOOLEAN

\* The asserts of the loop and of TCG hold: a pending step is only found at the
\* first instruction, no block jump is left over when stepping, and each
\* goto_tb slot is emitted once.
AssertsHold == assert_ok

\* The emitted code never runs off its end: whichever way the jumps go, the
\* path has left the block when the block is complete, and whoever continues
\* finds the PC of an instruction not yet executed in the CPU state, as a helper
\* that may raise an exception finds that of its own instruction.
LeavesWithPc ==
  /\ Upcoming({"helper"}) /\ running => pc = "insn"
  /\ phase = "done" => flow \in Left
  /\ flow \in Left => pc # "stale"
  /\ flow \in {"chain", "lookup", "wait"} => pc \in {"next", "target"}

\* Under the architecture's single step every path out of the block takes an
\* exception, after one instruction at most; PSTATE.SS has been cleared by the
\* code of a completed step, in either arm of a conditional branch, and not by
\* that of a step found pending.
StepTraps ==
  ss_active => /\ num_insns <= 1
               /\ flow \notin {"chain", "lookup", "wait"}
               /\ flow = "step" => ss_clear
               /\ flow = "pending" => ~ss_clear

\* A path through an immediate branch makes exactly one branch record, which
\* says taken if and only if the path goes to the target of the branch.
BranchRecorded ==
  Upcoming(Gotos) /\ running => printed = <<RecordOf(Head(todo))>>

\* The translation of a block ends.
Terminates == <>(phase = "done")

-----------------------------------------------------------------------------
(* The inductive invariant behind the asserts, the exits, the step and the   *)
(* records.                                                                  *)

HasLabel(s) == \E j \in 1 .. Len(s) : s[j] = "label"

HasTwoLabels(s) == \E j, k \in 1 .. Len(s) : j < k /\ s[j] = "label" /\ s[k] = "label"

EndsInExit(s) == s # <<>> /\ s[Len(s)] \in Exits

ExitLast(s) == (\E j \in 1 .. Len(s) : s[j] \in Exits) => EndsInExit(s)

NoCheck(s) == \A j \in 1 .. Len(s) : s[j] # "fp_access_check"

SlotsFree(s, used) == \A j \in 1 .. Len(s) : SlotOf(s[j]) \notin used

\* What the instruction still has is in order, and a path that skips has the
\* labels ahead that it waits for, with no access check on the way, and an exit
\* at the end if it passes any.
Remaining ==
  /\ WellFormed(todo) /\ (phase # "insn" => todo = <<>>)
  /\ flow = "skip" => HasLabel(todo)
  /\ flow = "skip2" => HasTwoLabels(todo)
  /\ flow \in {"skip", "skip2"} => NoCheck(todo) /\ ExitLast(todo)

\* A path that is still in the block has made a record only if it is about to
\* leave by the exit the record is for.
Recording ==
  flow \notin Left =>
    printed = IF running /\ Upcoming(Gotos) THEN <<RecordOf(Head(todo))>> ELSE <<>>

\* is_jmp tells how the path stands: the target of DISAS_JUMP is in the PC, and
\* after an exception or a block jump the path has left or still comes to an
\* exit of the same instruction.
Ending ==
  /\ Upcoming({"DISAS_JUMP"}) => Tail(todo) = <<>> /\ (running => pc = "target")
  /\ is_jmp = "DISAS_JUMP" => todo = <<>> /\ (running => pc = "target")
  /\ is_jmp \in {"DISAS_EXC", "DISAS_TB_JUMP"} => flow \in Left \/ EndsInExit(todo)
  /\ is_jmp = "DISAS_TB_JUMP" => ~stepping /\ ~ss_active
  /\ phase = "insn" => num_insns # 0
  /\ phase = "loop" =>
       /\ is_jmp = "DISAS_NEXT" /\ (ss_active => num_insns = 0)
       /\ num_insns = 0 => running /\ pc = "insn" /\ ~ss_clear

\* The goto_tb slots in use end the block, and no exit to come uses them again.
Slots == SlotsFree(todo, slots) /\ (slots # {} => is_jmp # "DISAS_NEXT")

BlockInv ==
  /\ TypeOK /\ AssertsHold /\ LeavesWithPc /\ StepTraps
  /\ Remaining /\ Recording /\ Ending /\ Slots
=============================================================================
