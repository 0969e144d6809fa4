------------------------------- MODULE A64Insn ------------------------------
(***************************************************************************)
(* The translation of one AArch64 instruction (disas_a64_insn of           *)
(* translate-a64.c): the dispatch to the handlers, and what their effects  *)
(* do, one after the other, to the translation context and to the FP       *)
(* registers of the emitted code.  An effect is a step of its own because  *)
(* the properties are about the order of the effects in one handler:       *)
(* checks, traps, reads of the sources, writes of the destination.         *)
(***************************************************************************)
EXTENDS A64Branch, A64LoadStore, A64DataProc, A64Fp, A64SimdMove, A64SimdTwo,
        A64SimdThree

(* The top of the decoder: every instruction word reaches one of the        *)
(* handlers, or is unallocated.                                            *)

\* C3.6: every handler of the decode table; a word no row matches.
disas_data_proc_simd ==
  {unallocated_encoding} \cup simd_moves \cup simd_shifts \cup simd_two_regs
  \cup simd_three_regs \cup simd_indexed_and_crypto

disas_data_proc_simd_fp == disas_data_proc_fp \cup disas_data_proc_simd

\* Bits 28:25 of the word choose the group; 0 to 3 are unallocated.
disas_a64_insn ==
  {unallocated_encoding} \cup disas_data_proc_imm \cup disas_b_exc_sys \cup disas_ldst
  \cup disas_data_proc_reg \cup disas_data_proc_simd_fp

CONSTANT TMP_A64_MAX      \* size of the array of auto-freed temporaries

ASSUME TmpAssumption == TMP_A64_MAX \in Nat \ {0}

-----------------------------------------------------------------------------
VARIABLES
  effects,            \* the effects the handler still has
  fp_excp_el,         \* FP and vector accesses trap
  fp_access_checked,  \* s->fp_access_checked
  tmp_a64_count,      \* s->tmp_a64_count
  insn_start_idx,     \* s->insn_start_idx # 0: the syndrome may still be set
  aborted,            \* the effect at which the translator has aborted, or "no"
  trapped,            \* an UNDEF or FP trap has been emitted
  emitted,            \* other code has been emitted that can be reached
  written,            \* bytes of the destination registers already written
  inserted,           \* the same, by writes of a single element
  rmode_swapped,      \* the guest's FP rounding mode is held in a temporary
  based,              \* the base register of the access has been updated
  loaded              \* a general register has been loaded

\* The FP and general registers.
registers == <<written, inserted, rmode_swapped, based, loaded>>

insnvars == <<effects, fp_excp_el, fp_access_checked, tmp_a64_count, insn_start_idx, aborted,
              trapped, emitted, registers>>

\* The context when disas_a64_insn calls the handler.
InsnInit ==
  /\ effects \in disas_a64_insn
  /\ fp_excp_el \in BOOLEAN
  /\ fp_access_checked = FALSE
  /\ tmp_a64_count = 0
  /\ insn_start_idx = TRUE
  /\ aborted = "no"
  /\ trapped = FALSE
  /\ emitted = FALSE
  /\ written = {}
  /\ inserted = {}
  /\ rmode_swapped = FALSE
  /\ based = FALSE
  /\ loaded = FALSE

\* The next effect of the handler is of the kind.
Coming(kind) == aborted = "no" /\ effects # <<>> /\ Head(effects).kind = kind

Abort ==
  /\ aborted' = Head(effects).kind
  /\ effects' = <<>>
  /\ UNCHANGED <<fp_excp_el, fp_access_checked, tmp_a64_count, insn_start_idx, trapped,
                 emitted, registers>>

new_tmp ==
  /\ Coming("new_tmp")
  /\ IF tmp_a64_count < TMP_A64_MAX
     THEN /\ tmp_a64_count' = tmp_a64_count + 1
          /\ effects' = Tail(effects)
          /\ UNCHANGED <<fp_excp_el, fp_access_checked, insn_start_idx, aborted, trapped,
                         emitted, registers>>
     ELSE Abort

\* A failed check emits the trap, and the handler returns.
fp_access_check ==
  /\ Coming("fp_access_check")
  /\ IF fp_access_checked THEN Abort
     ELSE /\ fp_access_checked' = TRUE
          /\ trapped' = (trapped \/ fp_excp_el)
          /\ effects' = IF fp_excp_el THEN <<>> ELSE Tail(effects)
          /\ UNCHANGED <<fp_excp_el, tmp_a64_count, insn_start_idx, aborted, emitted, registers>>

\* gen_exception_insn; the handlers return after it, but for FMOV's.
undef ==
  /\ Coming("unallocated")
  /\ trapped' = TRUE
  /\ effects' = Tail(effects)
  /\ UNCHANGED <<fp_excp_el, fp_access_checked, tmp_a64_count, insn_start_idx, aborted,
                 emitted, registers>>

set_insn_syndrome ==
  /\ Coming("iss")
  /\ IF insn_start_idx
     THEN /\ insn_start_idx' = FALSE
          /\ effects' = Tail(effects)
          /\ UNCHANGED <<fp_excp_el, fp_access_checked, tmp_a64_count, aborted, trapped,
                         emitted, registers>>
     ELSE Abort

\* Code that reads or writes registers or memory.  What follows a trap is never
\* reached.
Emit ==
  /\ emitted' = (emitted \/ ~trapped)
  /\ effects' = Tail(effects)
  /\ UNCHANGED <<fp_excp_el, fp_access_checked, tmp_a64_count, insn_start_idx, trapped>>

fp_write ==
  /\ Coming("fp_write")
  /\ written' = written \cup Head(effects).bytes
  /\ Emit
  /\ UNCHANGED <<aborted, inserted, rmode_swapped, based, loaded>>

fp_insert ==
  /\ Coming("fp_insert")
  /\ inserted' = inserted \cup Head(effects).bytes
  /\ Emit
  /\ UNCHANGED <<aborted, written, rmode_swapped, based, loaded>>

set_rmode ==
  /\ Coming("set_rmode")
  /\ rmode_swapped' = ~rmode_swapped
  /\ Emit
  /\ UNCHANGED <<aborted, written, inserted, based, loaded>>

writeback ==
  /\ Coming("writeback")
  /\ based' = TRUE
  /\ Emit
  /\ UNCHANGED <<aborted, written, inserted, rmode_swapped, loaded>>

load_gpr ==
  /\ Coming("gpr_write")
  /\ loaded' = TRUE
  /\ Emit
  /\ UNCHANGED <<aborted, written, inserted, rmode_swapped, based>>

\* Everything else; what it does to the block is the subject of A64Block.  An
\* assert that fails and an element outside its register end the translation.
OtherKind == Kind \ {"new_tmp", "fp_access_check", "unallocated", "iss", "fp_write",
                     "fp_insert", "set_rmode", "writeback", "gpr_write"}

OtherCode ==
  /\ \E kind \in OtherKind :
       /\ Coming(kind)
       /\ aborted' = IF kind \in {"assert_fail", "big_element", "overrun"} THEN kind ELSE "no"
  /\ Emit
  /\ UNCHANGED registers

\* When the handler has returned.
free_tmp_a64 ==
  /\ aborted = "no" /\ effects = <<>>
  /\ tmp_a64_count' = 0
  /\ UNCHANGED <<effects, fp_excp_el, fp_access_checked, insn_start_idx, aborted, trapped,
                 emitted, registers>>

InsnNext ==
  \/ new_tmp \/ fp_access_check \/ undef \/ set_insn_syndrome
  \/ fp_write \/ fp_insert \/ set_rmode \/ writeback \/ load_gpr \/ OtherCode
  \/ free_tmp_a64

InsnSpec == InsnInit /\ [][InsnNext]_insnvars

-----------------------------------------------------------------------------
\* The context and the bytes of at most four registers keep their shape, and
\* the counter of temporaries stays inside the array it indexes.
ContextOK ==
  /\ effects # <<>> => Head(effects).kind \in Kind
  /\ tmp_a64_count \in 0 .. TMP_A64_MAX
  /\ aborted \in Kind \cup {"no"}
  /\ \A b \in {fp_excp_el, fp_access_checked, insn_start_idx, trapped, emitted,
              rmode_swapped, based, loaded} : b \in BOOLEAN
  /\ written \cup inserted \subseteq 0 .. 63

\* g_assert_not_reached and the other asserts: no word makes the translator
\* abort.  In big-endian code the loads and stores of a single structure do:
\* they give the element accessor the byte order with the size.
NeverAborts == aborted = "no"

\* Nothing else makes it abort: no other default case of a switch over an opcode
\* or a size is reached, no shift, deposit or element index leaves its word or
\* register, the access check and the syndrome are done at most once, and the
\* auto-freed temporaries suffice (DUP Vd.16B, WZR takes all 16).
OnlyBigElementsAbort == aborted \in {"no", "big_element"}

\* The effects that access FP and vector registers through the accessors.
FpEffects == {"fp_read", "fp_write", "fp_insert", "set_rmode"}

OnlyChecked(kinds) ==
  effects # <<>> /\ Head(effects).kind \in kinds => fp_access_checked /\ ~fp_excp_el

\* assert_fp_access_checked: "at some point before trying to access an FP
\* register" the access check has been made and has passed.  The handlers of the
\* cryptographic extension give the helper its registers without it.
FpAccessChecked == OnlyChecked(FpEffects \cup {"crypto_helper"})

\* Every other handler makes the check before its first access, and where FP
\* accesses trap no register is written.
FpAccessCheckedButCrypto ==
  /\ OnlyChecked(FpEffects)
  /\ fp_excp_el => written = {} /\ inserted = {}

\* What is decided before the first effect: an unallocated encoding before any
\* code is emitted and before the access check (whose syndrome would be wrong),
\* and the trap of the access check before any code that can be reached.  An
\* access that faults finds the base register not yet updated, and no general
\* register loaded unless it is the last of the instruction: the second of a
\* pair, whose first register is already written then (the base, in LDP Xn, Xm,
\* [Xn]).
TrapsHaveNoEffect ==
  /\ Coming("unallocated") => ~emitted /\ ~fp_access_checked
  /\ trapped => ~emitted
  /\ Coming("mem") => ~based
  /\ Coming("mem") /\ loaded => \A i \in 2 .. Len(effects) : effects[i].kind # "mem"

\* Source and destination may be the same register: no byte of a source is
\* read after the destination byte in its place has been written.
SourcesReadFirst == Coming("fp_read") => Head(effects).bytes \cap (written \cup inserted) = {}

\* At the end of every instruction a register whose low half has a result has
\* been written as a whole, the high half is never left as it was; and the
\* guest's rounding mode is back in place, whichever exit the handler took.
FinishesCleanly ==
  effects = <<>> /\ aborted = "no" =>
    /\ \A reg \in 0 .. 3 : (16 * reg \in written) => 16 * reg .. 16 * reg + 15 \subseteq written
    /\ ~rmode_swapped

=============================================================================
