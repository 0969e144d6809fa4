----------------------------- MODULE A64Effects -----------------------------
(***************************************************************************)
(* The vocabulary of the AArch64 translator (translate-a64.c).  A disas_*  *)
(* or handle_* function is modelled as the sequence of effects one call    *)
(* has on the translation context and on the code being emitted, given the *)
(* fields of the instruction.  Module A64Block says what each effect does  *)
(* to the context; the modules A64Branch, A64LoadStore, A64DataProc, A64Fp *)
(* and A64Simd* hold the handlers.                                         *)
(*                                                                         *)
(* The kinds of effects, each named after the call that has it:            *)
(*   "unallocated"      unallocated_encoding, unsupported_encoding         *)
(*   "exception"        gen_exception_insn, at the instruction             *)
(*   "exception_next"   the same and gen_exception_internal_insn with the  *)
(*                      PC of the next instruction                         *)
(*   "fp_access_check"  if (!fp_access_check(s)) return;                   *)
(*   "fp_read", "fp_write"  an access to bytes of an FP/vector register    *)
(*   "fp_insert"        a write of one element that keeps the others       *)
(*   "crypto_helper"    a helper given the numbers of vector registers    *)
(*   "overrun"          an element outside its register is addressed       *)
(*   "big_element"      an element accessor is given a byte order with the *)
(*                      size: its switch ends in g_assert_not_reached      *)
(*   "set_rmode"        gen_helper_set_rmode: swaps the FP rounding mode   *)
(*   "new_tmp"          an auto-freed temporary is taken                   *)
(*   "mem"              a guest memory access                              *)
(*   "gpr_write"        a general register is written by a load            *)
(*   "writeback"        the base register of a load or store is updated    *)
(*   "iss"              disas_set_insn_syndrome                            *)
(*   "op"               TCG operations on general registers and flags      *)
(*   "set_pc"           gen_a64_set_pc_im of this instruction              *)
(*   "helper"           a helper that may raise an exception at run time   *)
(*   "write_pc"         the instruction computes the new PC                *)
(*   "ss_advance"       gen_ss_advance                                     *)
(*   "brcond", "br", "label"  jumps in the emitted code and their targets  *)
(*   "printer_0", "printer_1"  gen_helper_printer with t_nt = 0, 1         *)
(*   "goto_pc_0", "goto_addr_0", "goto_addr_1"  gen_goto_tb(s, n, dest)    *)
(*                      to the next instruction or to the branch target    *)
(*   "DISAS_..."        an assignment to s->is_jmp                         *)
(*   "assert_fail"      an assert or g_assert_not_reached is hit           *)
(* The numbers of the FP registers are left out: a source may be the very  *)
(* register that is the destination, and the model takes it to be.         *)
(***************************************************************************)
EXTENDS Integers, Sequences, SequencesExt

IsJmp == {"DISAS_JUMP", "DISAS_UPDATE", "DISAS_WFI", "DISAS_WFE", "DISAS_YIELD"}

Kind == {"unallocated", "exception", "exception_next", "fp_access_check", "fp_read",
         "fp_write", "fp_insert", "crypto_helper", "overrun", "big_element", "set_rmode",
         "new_tmp", "mem", "gpr_write", "writeback", "iss", "op", "set_pc",
         "helper", "write_pc", "ss_advance", "brcond", "br", "label",
         "printer_0", "printer_1", "goto_pc_0", "goto_addr_0", "goto_addr_1",
         "assert_fail"}
        \cup IsJmp

\* Effects with no operand, one after the other.
Do(kinds) == [i \in 1 .. Len(kinds) |-> [kind |-> kinds[i], bytes |-> {}]]

\* Effects of a handler that leaves at its first line.
unallocated_encoding == Do(<<"unallocated">>)

not_reached == Do(<<"assert_fail">>)

\* assert(c) and g_assert(c), with what follows it.
Asserted(c, rest) == IF c THEN rest ELSE not_reached

\* The rest of a handler that returns when the access check fails.
FpChecked(rest) == Do(<<"fp_access_check">>) \o rest

\* A conditional part of a handler.
When(c, part) == IF c THEN part ELSE <<>>

\* for (i = 0; i < n; i++) Body(i)
Loop(n, Body(_)) == FlattenSeq([i \in 1 .. n |-> Body(i - 1)])

\* extract32(x, bit, 1) == 1
Bit(x, bit) == (x \div 2 ^ bit) % 2 = 1

\* Register numbers: one ordinary register, and 31 (ZR or SP).
Reg == {0, 31}

-----------------------------------------------------------------------------
(* General registers, and the limits of the TCG operations *)

new_tmp_a64 == Do(<<"new_tmp">>)

\* The zero register is a fresh temporary, any other register is its global.
cpu_reg(r) == When(r = 31, new_tmp_a64)

\* A copy of a register, always in an auto-freed temporary.
read_cpu_reg == new_tmp_a64

read_cpu_reg_sp == new_tmp_a64

\* A TCG deposit of len bits at pos, and a shift or rotate by n, are only
\* defined inside the word.
deposit(pos, len) == Asserted(len > 0 /\ pos + len <= 64, Do(<<"op">>))

shift_by(n, width) == Asserted(n \in 0 .. width - 1, Do(<<"op">>))

-----------------------------------------------------------------------------
(* FP and vector registers.  The bytes of an access are numbered from the   *)
(* first register of the operand: register reg holds 16 * reg + 0 .. 15.    *)
(* The element accessors have a default case that must not be reached.      *)

\* An access to an element, which runs over when it leaves the register.
FpAccess(kind, reg, element, size) ==
  IF (element + 1) * 2 ^ size > 16 THEN Do(<<"overrun">>)
  ELSE LET first == 16 * reg + element * 2 ^ size
       IN  <<[kind |-> kind, bytes |-> first .. (first + 2 ^ size - 1)]>>

read_fp_dreg == FpAccess("fp_read", 0, 0, 3)

read_fp_sreg == FpAccess("fp_read", 0, 0, 2)

\* Writing a scalar clears the rest of the register.
write_fp_dreg == FpAccess("fp_write", 0, 0, 3) \o FpAccess("fp_write", 0, 1, 3)

write_fp_sreg == write_fp_dreg

\* The 64 bit accessors switch over the size, in which the byte order MO_BE (8)
\* of a data access has no case.
vec_element(kind, reg, element, memop) ==
  IF memop \in 8 .. 11 THEN Do(<<"big_element">>)
  ELSE Asserted(memop \in 0 .. 3, FpAccess(kind, reg, element, memop))

read_vec_element(element, memop) == vec_element("fp_read", 0, element, memop)

read_vec_element_i32(element, memop) ==
  Asserted(memop \in 0 .. 2, FpAccess("fp_read", 0, element, memop))

write_vec_element(element, memop) == vec_element("fp_write", 0, element, memop)

write_vec_element_i32(element, memop) ==
  Asserted(memop \in 0 .. 2, FpAccess("fp_write", 0, element, memop))

\* write_vec_element in the instructions that set one element and keep the
\* others: INS, and the loads of a single structure.
insert_vec_element(reg, element, memop) == vec_element("fp_insert", reg, element, memop)

clear_vec_high(reg) == FpAccess("fp_write", reg, 1, 3)

\* Some code between two swaps of the rounding mode: gen_helper_set_rmode
\* returns the old mode in the register that held the new one.
WithRmode(need_rmode, code) ==
  When(need_rmode, Do(<<"set_rmode">>)) \o code \o When(need_rmode, Do(<<"set_rmode">>))

\* Both halves of the result are kept in temporaries until the end.
write_both_halves == write_vec_element(0, 3) \o write_vec_element(1, 3)

-----------------------------------------------------------------------------
(* Memory accesses *)

do_gpr_st(size, iss_valid) ==
  Asserted(size <= 3, Do(<<"mem">>) \o When(iss_valid, Do(<<"iss">>)))

\* The value goes from the access straight into the register; XZR is none.
gpr_write(rt) == When(rt # 31, Do(<<"gpr_write">>))

do_gpr_ld(rt, size, is_signed, extend, iss_valid) ==
  Asserted(size <= 3 /\ (extend /\ is_signed => size < 3),
           Do(<<"mem">>) \o gpr_write(rt) \o When(iss_valid, Do(<<"iss">>)))

do_fp_st(reg, size) ==
  FpAccess("fp_read", reg, 0, 3) \o Do(<<"mem">>)
  \o When(size = 4, FpAccess("fp_read", reg, 1, 3) \o Do(<<"mem">>))

\* Both halves are loaded before the register is written.
do_fp_ld(reg, size) ==
  Do(<<"mem">>) \o When(size = 4, Do(<<"mem">>))
  \o FpAccess("fp_write", reg, 0, 3) \o FpAccess("fp_write", reg, 1, 3)

\* The memory operation of the access is be_data + size, that of the register
\* element is size as it is given.
do_vec_st(reg, element, size) == vec_element("fp_read", reg, element, size) \o Do(<<"mem">>)

do_vec_ld(reg, element, size) == Do(<<"mem">>) \o vec_element("fp_write", reg, element, size)
=============================================================================
