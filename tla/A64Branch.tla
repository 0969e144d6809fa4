----------------------------- MODULE A64Branch ------------------------------
(***************************************************************************)
(* C3.2 of translate-a64.c: branches, exception generation and system      *)
(* instructions.  The four branches with an immediate target carry the     *)
(* gen_helper_printer calls this repository adds.                          *)
(***************************************************************************)
EXTENDS A64Effects

\* The code of a conditional branch: fall through, or match the label.
BothWays ==
  Do(<<"brcond", "printer_0", "goto_pc_0", "label", "printer_1", "goto_addr_1">>)

Always == Do(<<"printer_1", "goto_addr_0">>)

\* B, BL: the link register is written first.
disas_uncond_b_imm(link) == When(link, Do(<<"op">>)) \o Always

disas_comp_b_imm == read_cpu_reg \o BothWays

disas_test_b_imm(rt) == cpu_reg(rt) \o BothWays

disas_cond_b_imm(o1, o0, cond) ==
  IF o0 \/ o1 THEN unallocated_encoding
  ELSE IF cond < 14 THEN BothWays ELSE Always

handle_hint(op1, selector) ==
  CASE op1 # 3      -> unallocated_encoding
    [] op1 = 3 /\ selector = 1 -> Do(<<"DISAS_YIELD">>)
    [] op1 = 3 /\ selector = 2 -> Do(<<"DISAS_WFE">>)
    [] op1 = 3 /\ selector = 3 -> Do(<<"DISAS_WFI">>)
    [] OTHER        -> <<>>

handle_sync(op1, op2) ==
  IF op1 # 3 THEN unallocated_encoding
  ELSE CASE op2 = 2        -> Do(<<"op">>)              \* gen_clrex
         [] op2 \in {4, 5} -> <<>>
         [] op2 = 6        -> Do(<<"DISAS_UPDATE">>)
         [] OTHER          -> unallocated_encoding

\* MSR (immediate): SPSel = 5, DAIFSet = 30, DAIFClear = 31.
handle_msr_i(op1, op2, current_el) ==
  LET op == op1 * 8 + op2
  IN  IF op \notin {5, 30, 31} \/ (op = 5 /\ current_el = 0)
      THEN unallocated_encoding
      ELSE Do(<<"set_pc", "helper", "DISAS_UPDATE">>)

\* What get_arm_cp_reginfo and cp_access_ok can answer for a system register.
RegInfo == [known : BOOLEAN, access_ok : BOOLEAN, accessfn : BOOLEAN,
            type : {"NOP", "NZCV", "CURRENTEL", "DC_ZVA", "plain"},
            const : BOOLEAN, io : BOOLEAN, suppress_tb_end : BOOLEAN]

\* MRS, MSR (register), SYS, SYSL; io stands for ARM_CP_IO under icount.
handle_sys(isread, rt, ri) ==
  IF ~ri.known \/ ~ri.access_ok THEN unallocated_encoding
  ELSE When(ri.accessfn, Do(<<"set_pc", "helper">>))
       \o CASE ri.type = "NOP"    -> <<>>
            [] ri.type = "NZCV"   -> cpu_reg(rt) \o Do(<<"op">>)
            [] ri.type = "CURRENTEL" -> cpu_reg(rt) \o Do(<<"op">>)
            [] ri.type = "DC_ZVA" -> cpu_reg(rt) \o Do(<<"mem">>)
            [] OTHER ->
                 cpu_reg(rt)
                 \o IF ~isread /\ ri.const THEN <<>>       \* write ignored
                    ELSE Do(<<"op">>) \o
                         When(ri.io \/ (~isread /\ ~ri.suppress_tb_end),
                              Do(<<"DISAS_UPDATE">>))

disas_system(l, op0, op1, crn, crm, op2, rt, current_el, ri) ==
  IF op0 # 0 THEN handle_sys(l, rt, ri)
  ELSE IF l \/ rt # 31 THEN unallocated_encoding
  ELSE CASE crn = 2 -> handle_hint(op1, crm * 8 + op2)
         [] crn = 3 -> handle_sync(op1, op2)
         [] crn = 4 -> handle_msr_i(op1, op2, current_el)
         [] OTHER   -> unallocated_encoding

\* SVC, HVC and SMC advance the single-step state machine before the
\* exception, BRK and the semihosting HLT do not; all but BRK return to the
\* next instruction.
disas_exc(opc, op2_ll, current_el, semihosting) ==
  CASE opc = 0 /\ op2_ll = 1 -> Do(<<"ss_advance", "exception_next">>)
    [] opc = 0 /\ op2_ll \in {2, 3} /\ current_el # 0 ->
         Do(<<"set_pc", "helper", "ss_advance", "exception_next">>)
    [] opc = 1 /\ op2_ll = 0 -> Do(<<"exception">>)
    [] opc = 2 /\ op2_ll = 0 /\ semihosting /\ current_el # 0 -> Do(<<"exception_next">>)
    [] OTHER -> unallocated_encoding

\* BR, RET, BLR, ERET.  No gen_helper_printer here.
disas_uncond_b_reg(opc, others_ok, rn, current_el) ==
  CASE ~others_ok                     -> unallocated_encoding
    [] others_ok /\ opc \in {0, 2}    -> cpu_reg(rn) \o Do(<<"write_pc", "DISAS_JUMP">>)
    [] others_ok /\ opc = 1           -> cpu_reg(rn) \o Do(<<"write_pc", "op", "DISAS_JUMP">>)
    [] others_ok /\ opc = 4 /\ current_el # 0 -> Do(<<"write_pc", "DISAS_JUMP">>)
    [] OTHER                          -> unallocated_encoding

\* The instructions of the group; the fields not named do not matter.
disas_b_exc_sys ==
  {unallocated_encoding, disas_comp_b_imm}
  \cup {disas_uncond_b_imm(link) : link \in BOOLEAN}
  \cup {disas_test_b_imm(rt) : rt \in Reg}
  \cup {disas_cond_b_imm(o1, o0, cond) : o1, o0 \in BOOLEAN, cond \in 0 .. 15}
  \cup {disas_system(FALSE, 0, op1, crn, crm, op2, rt, el, [known |-> FALSE]) :
          op1, op2 \in 0 .. 7, crn \in 0 .. 5, crm \in 0 .. 1, rt \in Reg, el \in 0 .. 1}
  \cup {disas_system(l, 1, 0, 0, 0, 0, rt, 1, ri) :
          l \in BOOLEAN, rt \in Reg, ri \in RegInfo}
  \cup {disas_exc(opc, ll, el, semi) :
          opc, ll \in 0 .. 7, el \in 0 .. 1, semi \in BOOLEAN}
  \cup {disas_uncond_b_reg(opc, ok, rn, el) :
          opc \in 0 .. 15, ok \in BOOLEAN, rn \in Reg, el \in 0 .. 1}
=============================================================================
