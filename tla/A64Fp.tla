------------------------------- MODULE A64Fp --------------------------------
(***************************************************************************)
(* C3.6.22 to C3.6.30 of translate-a64.c: scalar floating point.  type is  *)
(* 0 for single and 1 for double precision; 2 and 3 are not allocated but  *)
(* for FMOV and FCVT.                                                      *)
(***************************************************************************)
EXTENDS A64Effects

read_fp_reg(type) == IF type = 1 THEN read_fp_dreg ELSE read_fp_sreg

write_fp_reg == write_fp_dreg

-----------------------------------------------------------------------------
(* Comparison and selection *)

handle_fp_compare(type, cmp_with_zero) ==
  read_fp_reg(type) \o When(~cmp_with_zero, read_fp_reg(type)) \o Do(<<"op">>)

disas_fp_compare(reserved, type, opc) ==
  IF reserved \/ type > 1 THEN unallocated_encoding
  ELSE FpChecked(handle_fp_compare(type, Bit(opc, 0)))

\* When the condition fails the flags are the immediate ones.
disas_fp_ccomp(mos, type, cond) ==
  LET always == cond >= 14
  IN  IF mos \/ type > 1 THEN unallocated_encoding
      ELSE FpChecked(When(~always, Do(<<"brcond", "op", "br", "label">>))
                     \o handle_fp_compare(type, FALSE)
                     \o When(~always, Do(<<"label">>)))

disas_fp_csel(mos, type) ==
  LET size == IF type = 1 THEN 3 ELSE 2
  IN  IF mos \/ type > 1 THEN unallocated_encoding
      ELSE FpChecked(read_vec_element(0, size) \o read_vec_element(0, size)
                     \o Do(<<"op">>) \o write_fp_dreg)

-----------------------------------------------------------------------------
(* One, two and three operands *)

\* FRINTN, P, M, Z and A (8 to 12) round in a mode of their own.
handle_fp_1src(type, opcode) ==
  read_fp_reg(type)
  \o Asserted(opcode \in (0 .. 3) \cup (8 .. 12) \cup {14, 15},
              WithRmode(opcode \in 8 .. 12, Do(<<"op">>)))
  \o write_fp_reg

\* ntype is the source precision: half, single or double.
handle_fp_fcvt(ntype) ==
  Asserted(ntype \in {0, 1, 3}, read_fp_reg(ntype) \o Do(<<"op">>) \o write_fp_reg)

disas_fp_1src(type, opcode) ==
  CASE opcode \in {4, 5, 7} ->
         IF type = 2 \/ opcode % 4 = type THEN unallocated_encoding
         ELSE FpChecked(handle_fp_fcvt(type))
    [] opcode \in (0 .. 3) \cup (8 .. 12) \cup {14, 15} /\ type <= 1 ->
         FpChecked(handle_fp_1src(type, opcode))
    [] OTHER -> unallocated_encoding

handle_fp_2src(type) == read_fp_reg(type) \o read_fp_reg(type) \o Do(<<"op">>) \o write_fp_reg

disas_fp_2src(type, opcode) ==
  IF opcode > 8 \/ type > 1 THEN unallocated_encoding
  ELSE FpChecked(handle_fp_2src(type))

\* The negations of FMSUB, FNMADD and FNMSUB are operations of their own.
handle_fp_3src(type) ==
  read_fp_reg(type) \o read_fp_reg(type) \o read_fp_reg(type) \o Do(<<"op">>) \o write_fp_reg

disas_fp_3src(type) ==
  IF type > 1 THEN unallocated_encoding ELSE FpChecked(handle_fp_3src(type))

disas_fp_imm(is_double) ==
  IF is_double > 1 THEN unallocated_encoding ELSE FpChecked(write_fp_dreg)

-----------------------------------------------------------------------------
(* Conversions between general and FP registers *)

\* To an integer the rounding mode of the encoding is in force while the
\* operand is read and converted.
handle_fpfpcvt(type, itof, sf, rn, rd) ==
  IF itof THEN cpu_reg(rn) \o When(~sf, new_tmp_a64) \o Do(<<"op">>) \o write_fp_reg
          ELSE cpu_reg(rd) \o WithRmode(TRUE, read_fp_reg(type) \o Do(<<"op">>))

disas_fp_fixed_conv(sbit, type, sf, scale, rmode, opcode, rn, rd) ==
  LET operation == 8 * rmode + opcode
  IN  IF \/ sbit \/ type > 1 \/ (~sf /\ scale < 32)
         \/ operation \notin {2, 3, 24, 25}
      THEN unallocated_encoding
      ELSE FpChecked(handle_fpfpcvt(type, operation \in {2, 3}, sf, rn, rd))

\* Type 2 is the top half of the register; type 3 falls through the switch.
handle_fmov(type, itof, rn, rd) ==
  LET access(kind) ==
        CASE type = 0 /\ kind = "fp_read" -> read_fp_sreg
          [] type = 1 /\ kind = "fp_read" -> read_fp_dreg
          [] type \in {0, 1} /\ kind = "fp_write" -> write_fp_dreg
          [] type = 2 -> FpAccess(kind, 0, 1, 3)
          [] OTHER -> <<>>
  IN  IF itof THEN cpu_reg(rn) \o access("fp_write") ELSE cpu_reg(rd) \o access("fp_read")

\* FMOV between a W, X register and an S, D register or the top half of a Q
\* register.  For the other combinations of sf, type and rmode the switch calls
\* unallocated_encoding and breaks: the access check and the move follow.
fmov(sf, type, rmode, itof, rn, rd) ==
  IF rmode >= 2 THEN unallocated_encoding
  ELSE When(8 * sf + 2 * type + rmode \notin {0, 10, 13}, unallocated_encoding)
       \o FpChecked(handle_fmov(type, itof, rn, rd))

disas_fp_int_conv(sbit, type, sf, rmode, opcode, rn, rd) ==
  IF sbit THEN unallocated_encoding
  ELSE IF opcode > 5 THEN fmov(sf, type, rmode, Bit(opcode, 0), rn, rd)
  ELSE IF type > 1 \/ (rmode # 0 /\ opcode > 1) THEN unallocated_encoding
  ELSE FpChecked(handle_fpfpcvt(type, Bit(opcode, 1), sf = 1, rn, rd))

disas_data_proc_fp ==
  {unallocated_encoding}                               \* bits 15:12 = 1000
  \cup {disas_fp_3src(type) : type \in 0 .. 3}
  \cup {disas_fp_fixed_conv(sbit, type, sf, scale, rmode, opcode, rn, rd) :
          sbit, sf \in BOOLEAN, type, rmode \in 0 .. 3, scale \in {0, 31, 32, 63},
          opcode \in 0 .. 7, rn, rd \in Reg}
  \cup {disas_fp_ccomp(mos, type, cond) : mos \in BOOLEAN, type \in 0 .. 3, cond \in 0 .. 15}
  \cup {disas_fp_2src(type, opcode) : type \in 0 .. 3, opcode \in 0 .. 15}
  \cup {disas_fp_csel(mos, type) : mos \in BOOLEAN, type \in 0 .. 3}
  \cup {disas_fp_imm(type) : type \in 0 .. 3}
  \cup {disas_fp_compare(res, type, opc) : res \in BOOLEAN, type, opc \in 0 .. 3}
  \cup {disas_fp_1src(type, opcode) : type \in 0 .. 3, opcode \in 0 .. 63}
  \cup {disas_fp_int_conv(sbit, type, sf, rmode, opcode, rn, rd) :
          sbit \in BOOLEAN, type, rmode \in 0 .. 3, sf \in 0 .. 1, opcode \in 0 .. 7,
          rn, rd \in Reg}
=============================================================================
