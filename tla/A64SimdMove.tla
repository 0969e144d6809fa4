----------------------------- MODULE A64SimdMove ----------------------------
(***************************************************************************)
(* C3.6.1 to C3.6.8 of translate-a64.c: the AdvSIMD instructions that move *)
(* elements about.  The results of all but the copies are kept in          *)
(* temporaries until every source element has been read.                   *)
(***************************************************************************)
EXTENDS A64Effects

\* Elements of 2 ^ size bytes in the 64 or 128 bits operated on.
Elements(is_q, size) == (IF is_q THEN 16 ELSE 8) \div 2 ^ size

\* do_ext64: 64 bits from the middle of two words.
do_ext64(pos) == Asserted(pos > 0 /\ pos < 64, shift_by(pos, 64) \o shift_by(64 - pos, 64))

\* EXT: pos bits into Vm:Vn, as the words <<rn, 0>>, <<rn, 1>>, <<rm, 0>>, <<rm, 1>>.
disas_simd_ext(is_q, op2, imm4) ==
  LET skip == IF imm4 >= 8 THEN 1 ELSE 0
      pos == 8 * imm4 - 64 * skip
      word(k) == read_vec_element((skip + k) % 2, 3)
  IN  IF op2 # 0 \/ (~is_q /\ Bit(imm4, 3)) THEN unallocated_encoding
      ELSE FpChecked(
             (IF ~is_q
              THEN read_vec_element(0, 3)
                   \o When(pos # 0, read_vec_element(0, 3) \o do_ext64(pos))
              ELSE word(0) \o word(1)
                   \o When(pos # 0, do_ext64(pos) \o word(2) \o do_ext64(pos)))
             \o write_both_halves)

\* TBL, TBX: the helper looks up the table registers itself, which are read as
\* a whole for each half of the index.
disas_simd_tb(is_q, op2, is_tblx, len) ==
  LET table == Loop(len + 1, LAMBDA r :
                      FpAccess("fp_read", r, 0, 3) \o FpAccess("fp_read", r, 1, 3))
  IN  IF op2 # 0 THEN unallocated_encoding
      ELSE FpChecked(
             When(is_tblx, read_vec_element(0, 3) \o When(is_q, read_vec_element(1, 3)))
             \o read_vec_element(0, 3) \o table
             \o When(is_q, read_vec_element(1, 3) \o table)
             \o write_both_halves)

\* UZP (1), TRN (2), ZIP (3): which element of Vn or Vm becomes element i.
zip_trn_source(opcode, part, elements, i) ==
  CASE opcode = 1 -> IF i < elements \div 2 THEN 2 * i + part
                     ELSE 2 * (i - (elements \div 2)) + part
    [] opcode = 2 -> (i - (i % 2)) + part
    [] opcode = 3 -> ((part * elements) \div 2) + (i \div 2)

disas_simd_zip_trn(is_q, size, opcode, part) ==
  LET elements == Elements(is_q, size)
      place(i) == IF i * 8 * 2 ^ size < 64 THEN shift_by(i * 8 * 2 ^ size, 64)
                  ELSE shift_by(i * 8 * 2 ^ size - 64, 64)
  IN  IF opcode = 0 \/ (size = 3 /\ ~is_q) THEN unallocated_encoding
      ELSE FpChecked(Loop(elements, LAMBDA i :
                            read_vec_element(zip_trn_source(opcode, part, elements, i), size)
                            \o place(i))
                     \o write_both_halves)

-----------------------------------------------------------------------------
(* Across lanes *)

\* ADDV 27, ADDLV 3, MAXV 10, MINV 26; FMAXNMV 12, FMAXV 15 on single floats.
across_lanes_fp(opcode) == opcode \in {12, 15}

do_minmaxop(opc) == Asserted(opc \in {12, 15}, Do(<<"op">>))

\* SADDLV and UADDLV (3) have a result of twice the size of the elements.
across_lanes_result(opcode, size) ==
  Asserted((IF opcode = 3 THEN size + 1 ELSE size) \in 0 .. 3, Do(<<"op">>)) \o write_fp_dreg

disas_simd_across_lanes(is_q, is_u, size, opcode) ==
  LET pairs == Loop(2, LAMBDA k : read_vec_element(2 * k, 2) \o read_vec_element(2 * k + 1, 2)
                                  \o do_minmaxop(opcode))
  IN  IF \/ opcode \notin {3, 10, 12, 15, 26, 27}
         \/ opcode = 27 /\ is_u
         \/ ~across_lanes_fp(opcode) /\ (size = 3 \/ (size = 2 /\ ~is_q))
         \/ across_lanes_fp(opcode) /\ (~is_u \/ ~is_q \/ Bit(size, 0))
      THEN unallocated_encoding
      ELSE FpChecked(
             IF across_lanes_fp(opcode) THEN pairs \o do_minmaxop(opcode) \o write_fp_dreg
             ELSE Loop(Elements(is_q, size), LAMBDA i : read_vec_element(i, size))
                  \o across_lanes_result(opcode, size))

-----------------------------------------------------------------------------
(* Copies of one element.  The lowest set bit of imm5 gives the size.       *)

\* ctz32; 32 stands for no bit at all.
ctz5(imm5) == IF imm5 = 0 THEN 32
              ELSE CHOOSE n \in 0 .. 4 : imm5 % 2 ^ (n + 1) = 2 ^ n

handle_simd_dupe(is_q, imm5) ==
  LET size == ctz5(imm5)
  IN  IF size > 3 \/ (size = 3 /\ ~is_q) THEN unallocated_encoding
      ELSE FpChecked(read_vec_element(imm5 \div 2 ^ (size + 1), size)
                     \o Loop(Elements(is_q, size), LAMBDA i : write_vec_element(i, size))
                     \o When(~is_q, clear_vec_high(0)))

handle_simd_dupes(imm5) ==
  LET size == ctz5(imm5)
  IN  IF size > 3 THEN unallocated_encoding
      ELSE FpChecked(read_vec_element(imm5 \div 2 ^ (size + 1), size) \o write_fp_dreg)

\* The general register is asked for once per element: up to 16 times.
handle_simd_dupg(is_q, imm5, rn) ==
  LET size == ctz5(imm5)
  IN  IF size > 3 \/ (size = 3 /\ ~is_q) THEN unallocated_encoding
      ELSE FpChecked(Loop(Elements(is_q, size),
                          LAMBDA i : cpu_reg(rn) \o write_vec_element(i, size))
                     \o When(~is_q, clear_vec_high(0)))

handle_simd_inse(imm4, imm5) ==
  LET size == ctz5(imm5)
  IN  IF size > 3 THEN unallocated_encoding
      ELSE FpChecked(read_vec_element(imm4 \div 2 ^ size, size)
                     \o insert_vec_element(0, imm5 \div 2 ^ (size + 1), size))

handle_simd_insg(imm5, rn) ==
  LET size == ctz5(imm5)
  IN  IF size > 3 THEN unallocated_encoding
      ELSE FpChecked(cpu_reg(rn) \o insert_vec_element(0, imm5 \div 2 ^ (size + 1), size))

handle_simd_umov_smov(is_q, is_signed, imm5, rd) ==
  LET size == ctz5(imm5)
  IN  IF \/ is_signed /\ (size > 2 \/ (size = 2 /\ ~is_q))
         \/ ~is_signed /\ (size > 3 \/ (size < 3 /\ is_q) \/ (size = 3 /\ ~is_q))
      THEN unallocated_encoding
      ELSE FpChecked(cpu_reg(rd) \o read_vec_element(imm5 \div 2 ^ (size + 1), size))

disas_simd_copy(op, is_q, imm4, imm5, rn, rd) ==
  CASE op /\ is_q              -> handle_simd_inse(imm4, imm5)
    [] ~op /\ imm4 = 0         -> handle_simd_dupe(is_q, imm5)
    [] ~op /\ imm4 = 1         -> handle_simd_dupg(is_q, imm5, rn)
    [] ~op /\ imm4 = 3 /\ is_q -> handle_simd_insg(imm5, rn)
    [] ~op /\ imm4 \in {5, 7}  -> handle_simd_umov_smov(is_q, imm4 = 5, imm5, rd)
    [] OTHER                   -> unallocated_encoding

disas_simd_scalar_copy(op, imm4, imm5) ==
  IF op \/ imm4 # 0 THEN unallocated_encoding ELSE handle_simd_dupes(imm5)

-----------------------------------------------------------------------------
(* Immediates and scalar pairs *)

\* ORR and BIC (cmode 0xx1 and 10x1) read the half they modify.
disas_simd_mod_imm(o2, cmode, is_neg, is_q) ==
  LET modifies == cmode \in {1, 3, 5, 7, 9, 11}
  IN  IF o2 \/ (cmode = 15 /\ is_neg /\ ~is_q) THEN unallocated_encoding
      ELSE FpChecked(new_tmp_a64
                     \o Loop(2, LAMBDA i :
                          When(modifies /\ ~(i = 1 /\ ~is_q), read_vec_element(i, 3))
                          \o write_vec_element(i, 3)))

disas_simd_scalar_pairwise(u, size, opcode) ==
  LET operation == opcode + 32 * (size \div 2)
      width == IF operation = 59 \/ Bit(size, 0) THEN 3 ELSE 2
  IN  IF \/ operation \notin {12, 13, 15, 44, 47, 59}
         \/ operation = 59 /\ (u \/ size # 3)
         \/ operation # 59 /\ ~u
      THEN unallocated_encoding
      ELSE FpChecked(read_vec_element(0, width) \o read_vec_element(1, width)
                     \o Do(<<"op">>) \o write_fp_dreg)

\* Every encoding of these groups.
simd_moves ==
  {disas_simd_ext(q, op2, imm4) : q \in BOOLEAN, op2 \in 0 .. 3, imm4 \in 0 .. 15}
  \cup {disas_simd_tb(q, op2, x, len) : q, x \in BOOLEAN, op2, len \in 0 .. 3}
  \cup {disas_simd_zip_trn(q, size, opcode, part) :
          q \in BOOLEAN, size, opcode \in 0 .. 3, part \in 0 .. 1}
  \cup {disas_simd_across_lanes(q, u, size, opcode) :
          q, u \in BOOLEAN, size \in 0 .. 3, opcode \in 0 .. 31}
  \cup {disas_simd_copy(op, q, imm4, imm5, rn, rd) :
          op, q \in BOOLEAN, imm4 \in 0 .. 15, imm5 \in 0 .. 31, rn, rd \in Reg}
  \cup {disas_simd_scalar_copy(op, imm4, imm5) :
          op \in BOOLEAN, imm4 \in 0 .. 15, imm5 \in 0 .. 31}
  \cup {disas_simd_mod_imm(o2, cmode, neg, q) : o2, neg, q \in BOOLEAN, cmode \in 0 .. 15}
  \cup {disas_simd_scalar_pairwise(u, size, opcode) :
          u \in BOOLEAN, size \in 0 .. 3, opcode \in 0 .. 31}
=============================================================================
