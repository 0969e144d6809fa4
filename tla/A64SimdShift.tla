---------------------------- MODULE A64SimdShift ----------------------------
(***************************************************************************)
(* C3.6.9 and C3.6.14 of translate-a64.c: AdvSIMD shifts by an immediate.  *)
(* The highest bit of immh is the element size, the bits below it and immb *)
(* are the shift: immh = 0 has no size, and the decode table must keep it  *)
(* away from the vector handlers.                                          *)
(***************************************************************************)
EXTENDS A64Effects

-----------------------------------------------------------------------------
(* The decode table of C3.6, data processing with the vector registers.  An  *)
(* instruction word is the set of its bits that are one; only bits 10 and up *)
(* take part in the decode.                                                  *)

\* One row: the bits that must be one, those that must be zero, the handler.
Row(ones, zeros, fn) == [pattern |-> ones, mask |-> ones \cup zeros, disas_fn |-> fn]

data_proc_simd == <<
  Row({27, 26, 25, 21, 10}, {31, 28, 24}, "disas_simd_three_reg_same"),
  Row({27, 26, 25, 21}, {31, 28, 24, 11, 10}, "disas_simd_three_reg_diff"),
  Row({27, 26, 25, 21, 11}, {31, 28, 24, 20, 19, 18, 17, 10}, "disas_simd_two_reg_misc"),
  Row({27, 26, 25, 21, 20, 11}, {31, 28, 24, 19, 18, 17, 10}, "disas_simd_across_lanes"),
  Row({27, 26, 25, 10}, {31, 28, 24, 23, 22, 21, 15}, "disas_simd_copy"),
  Row({27, 26, 25, 24}, {31, 28, 10}, "disas_simd_indexed"),
  Row({27, 26, 25, 24, 10}, {31, 28, 23, 22, 21, 20, 19}, "disas_simd_mod_imm"),
  Row({27, 26, 25, 24, 10}, {31, 28, 23}, "disas_simd_shift_imm"),
  Row({27, 26, 25}, {31, 29, 28, 24, 21, 15, 11, 10}, "disas_simd_tb"),
  Row({27, 26, 25, 11}, {31, 29, 28, 24, 21, 15, 10}, "disas_simd_zip_trn"),
  Row({29, 27, 26, 25}, {31, 28, 24, 21, 15, 10}, "disas_simd_ext"),
  Row({30, 28, 27, 26, 25, 21, 10}, {31, 24}, "disas_simd_scalar_three_reg_same"),
  Row({30, 28, 27, 26, 25, 21}, {31, 24, 11, 10}, "disas_simd_scalar_three_reg_diff"),
  Row({30, 28, 27, 26, 25, 21, 11}, {31, 24, 20, 19, 18, 17, 10}, "disas_simd_scalar_two_reg_misc"),
  Row({30, 28, 27, 26, 25, 21, 20, 11}, {31, 24, 19, 18, 17, 10}, "disas_simd_scalar_pairwise"),
  Row({30, 28, 27, 26, 25, 10}, {31, 24, 23, 22, 21, 15}, "disas_simd_scalar_copy"),
  Row({30, 28, 27, 26, 25, 24}, {31, 10}, "disas_simd_indexed"),
  Row({30, 28, 27, 26, 25, 24, 10}, {31, 23}, "disas_simd_scalar_shift_imm"),
  Row({30, 27, 26, 25, 21, 19, 11}, {31, 29, 28, 24, 20, 18, 17, 10}, "disas_crypto_aes"),
  Row({30, 28, 27, 26, 25}, {31, 29, 24, 21, 15, 11, 10}, "disas_crypto_three_reg_sha"),
  Row({30, 28, 27, 26, 25, 21, 19, 11}, {31, 29, 24, 20, 18, 17, 10}, "disas_crypto_two_reg_sha") >>

Matches(word, row) == word \cap row.mask = row.pattern

\* The last row that matches.
lookup_last(word) ==
  LET hits == {i \in DOMAIN data_proc_simd : Matches(word, data_proc_simd[i])}
  IN  IF hits = {} THEN "NULL"
      ELSE data_proc_simd[CHOOSE i \in hits : \A j \in hits : i >= j].disas_fn

\* The handler of the first row that matches; NULL is unallocated.
lookup_disas_fn(word) ==
  LET hits == {i \in DOMAIN data_proc_simd : Matches(word, data_proc_simd[i])}
  IN  IF hits = {} THEN "NULL"
      ELSE data_proc_simd[CHOOSE i \in hits : \A j \in hits : i <= j].disas_fn

-----------------------------------------------------------------------------
(* Sizes and shifts *)

\* 32 - clz32(immh) - 1; -1 when immh is 0, where 8 << size is undefined.
immh_size(immh) ==
  IF immh = 0 THEN -1 ELSE CHOOSE n \in 0 .. 3 : immh \in 2 ^ n .. (2 ^ (n + 1) - 1)

esize(size) == 8 * 2 ^ size

shift_right(immh, immb) == 2 * esize(immh_size(immh)) - (8 * immh + immb)

shift_left(immh, immb) == (8 * immh + immb) - esize(immh_size(immh))

vec_elements(is_q, size) == (IF is_q THEN 16 ELSE 8) \div 2 ^ size

-----------------------------------------------------------------------------
(* One element *)

\* Right shift of a 2 ^ size byte element, signed or not, added to the old
\* destination or not.  A rounding shift of 64 bits works on
\* 128, and a shift by all 64 bits is never handed to TCG.
handle_shri_with_rndacc(size, shift, round) ==
  LET extended == round /\ size = 3
  IN  When(round, shift_by(shift - 1, 64))
      \o CASE extended /\ shift = 64 -> Do(<<"op">>)
           [] extended /\ shift # 64 -> shift_by(shift, 64) \o shift_by(64 - shift, 64)
           [] ~extended /\ shift = 64 -> Do(<<"op">>)
           [] OTHER -> shift_by(shift, 64)

handle_shli_with_ins(insert, shift) ==
  IF insert THEN deposit(shift, 64 - shift) ELSE shift_by(shift, 64)

\* A shift by the whole element does nothing.
handle_shri_with_ins(size, shift) ==
  When(shift # esize(size), shift_by(shift, 64) \o deposit(0, esize(size) - shift))

\* SSHR 0, SSRA 2, SRSHR 4, SRSRA 6, SRI 8.
accumulates(opcode) == opcode \in {2, 6}

rounds(opcode) == opcode \in {4, 6}

inserts(opcode) == opcode = 8

\* The right shift of an element already read, and of the old destination.
shri(size, shift, opcode) ==
  IF inserts(opcode) THEN handle_shri_with_ins(size, shift)
  ELSE handle_shri_with_rndacc(size, shift, rounds(opcode))

-----------------------------------------------------------------------------
(* Scalars *)

handle_scalar_simd_shri(immh, immb, opcode) ==
  IF ~Bit(immh, 3) THEN unallocated_encoding
  ELSE FpChecked(read_fp_dreg \o When(accumulates(opcode) \/ inserts(opcode), read_fp_dreg)
                 \o shri(3, shift_right(immh, immb), opcode) \o write_fp_dreg)

\* The temporaries are taken before the encoding is checked.
handle_scalar_simd_shli(insert, immh, immb) ==
  new_tmp_a64 \o new_tmp_a64
  \o IF ~Bit(immh, 3) THEN unallocated_encoding
     ELSE FpChecked(read_fp_dreg \o When(insert, read_fp_dreg)
                    \o handle_shli_with_ins(insert, shift_left(immh, immb)) \o write_fp_dreg)

-----------------------------------------------------------------------------
(* Shared by scalars and vectors *)

\* The narrowed elements are put together in one 64 bit word, which is written
\* after the last element has been read.
NarrowTo(is_q) ==
  IF is_q THEN write_vec_element(1, 3) ELSE clear_vec_high(0) \o write_vec_element(0, 3)

handle_vec_simd_sqshrn(is_scalar, is_q, immh, immb, opcode) ==
  LET size == immh_size(immh)
      elements == IF is_scalar THEN 1 ELSE 64 \div esize(size)
  IN  Asserted(size < 4,
        IF Bit(immh, 3) THEN unallocated_encoding
        ELSE FpChecked(Loop(elements, LAMBDA i :
                         read_vec_element(i, size + 1)
                         \o handle_shri_with_rndacc(size + 1, shift_right(immh, immb), Bit(opcode, 0))
                         \o deposit(esize(size) * i, esize(size)))
                       \o NarrowTo(is_q)))

\* There is no helper for an unsigned source with a signed destination.
handle_simd_qshl(scalar, is_q, src_unsigned, dst_unsigned, immh, immb) ==
  LET size == immh_size(immh)
      maxpass == IF scalar THEN 1 ELSE vec_elements(is_q, IF size = 3 THEN 3 ELSE 2)
      memop == IF scalar THEN size ELSE 2
      genfn == Asserted(src_unsigned => dst_unsigned, Do(<<"op">>))
  IN  Asserted(immh # 0 /\ ~(scalar /\ is_q),
        IF ~scalar /\ ~is_q /\ Bit(immh, 3) THEN unallocated_encoding
        ELSE FpChecked(
               IF size = 3
               THEN Loop(maxpass, LAMBDA pass :
                      read_vec_element(pass, 3) \o genfn \o write_vec_element(pass, 3))
                    \o When(~is_q, clear_vec_high(0))
               ELSE Loop(maxpass, LAMBDA pass :
                      read_vec_element_i32(pass, memop) \o genfn
                      \o IF scalar THEN write_fp_sreg ELSE write_vec_element_i32(pass, 2))
                    \o When(~is_q /\ ~scalar, clear_vec_high(0))))

\* A single element is a scalar, whose write clears the rest.
handle_simd_intfp_conv(elements, size) ==
  Loop(elements, LAMBDA pass :
    read_vec_element(pass, size) \o Do(<<"op">>)
    \o IF elements = 1 THEN write_fp_dreg ELSE write_vec_element(pass, size))
  \o When(size # 3 /\ elements = 2, clear_vec_high(0))

handle_simd_shift_intfp_conv(is_scalar, is_q, immh) ==
  LET is_double == Bit(immh, 3)
      size == IF is_double THEN 3 ELSE 2
      elements == IF is_scalar THEN 1 ELSE IF is_double THEN 2 ELSE IF is_q THEN 4 ELSE 2
  IN  IF immh < 4 \/ (~is_scalar /\ is_double /\ ~is_q) THEN unallocated_encoding
      ELSE FpChecked(Asserted(immh # 0, handle_simd_intfp_conv(elements, size)))

handle_simd_shift_fpint_conv(is_scalar, is_q, immh) ==
  LET is_double == Bit(immh, 3)
      maxpass == IF is_scalar THEN 1 ELSE IF is_double THEN 2 ELSE IF is_q THEN 4 ELSE 2
      passes ==
        IF is_double
        THEN Loop(maxpass, LAMBDA pass :
               read_vec_element(pass, 3) \o Do(<<"op">>) \o write_vec_element(pass, 3))
             \o When(~is_q, clear_vec_high(0))
        ELSE Loop(maxpass, LAMBDA pass :
               read_vec_element_i32(pass, 2) \o Do(<<"op">>)
               \o IF is_scalar THEN write_fp_sreg ELSE write_vec_element_i32(pass, 2))
             \o When(~is_q /\ ~is_scalar, clear_vec_high(0))
  IN  IF immh < 4 \/ (~is_scalar /\ ~is_q /\ is_double) THEN unallocated_encoding
      ELSE FpChecked(Asserted(~(is_scalar /\ is_q),
                              WithRmode(TRUE, passes)))

disas_simd_scalar_shift_imm(is_u, opcode, immh, immb) ==
  CASE immh = 0 -> unallocated_encoding
    [] immh # 0 /\ (opcode \in {0, 2, 4, 6} \/ (opcode = 8 /\ is_u)) ->
         handle_scalar_simd_shri(immh, immb, opcode)
    [] immh # 0 /\ opcode = 10 -> handle_scalar_simd_shli(is_u, immh, immb)
    [] immh # 0 /\ opcode = 28 -> handle_simd_shift_intfp_conv(TRUE, FALSE, immh)
    [] immh # 0 /\ opcode \in {16, 17} /\ is_u ->
         handle_vec_simd_sqshrn(TRUE, FALSE, immh, immb, opcode)
    [] immh # 0 /\ opcode \in {18, 19} ->
         handle_vec_simd_sqshrn(TRUE, FALSE, immh, immb, opcode)
    [] immh # 0 /\ opcode = 12 /\ is_u ->
         handle_simd_qshl(TRUE, FALSE, FALSE, TRUE, immh, immb)
    [] immh # 0 /\ opcode = 14 -> handle_simd_qshl(TRUE, FALSE, is_u, is_u, immh, immb)
    [] immh # 0 /\ opcode = 31 -> handle_simd_shift_fpint_conv(TRUE, FALSE, immh)
    [] OTHER -> unallocated_encoding

-----------------------------------------------------------------------------
(* Vectors *)

handle_vec_simd_shri(is_q, immh, immb, opcode) ==
  LET size == immh_size(immh)
  IN  new_tmp_a64 \o new_tmp_a64
      \o IF Bit(immh, 3) /\ ~is_q THEN unallocated_encoding
         ELSE FpChecked(Loop(vec_elements(is_q, size), LAMBDA i :
                          read_vec_element(i, size)
                          \o When(accumulates(opcode) \/ inserts(opcode), read_vec_element(i, size))
                          \o shri(size, shift_right(immh, immb), opcode)
                          \o write_vec_element(i, size))
                        \o When(~is_q, clear_vec_high(0)))

handle_vec_simd_shli(is_q, insert, immh, immb) ==
  LET size == immh_size(immh)
  IN  new_tmp_a64 \o new_tmp_a64
      \o IF Bit(immh, 3) /\ ~is_q THEN unallocated_encoding
         ELSE FpChecked(Loop(vec_elements(is_q, size), LAMBDA i :
                          read_vec_element(i, size) \o When(insert, read_vec_element(i, size))
                          \o handle_shli_with_ins(insert, shift_left(immh, immb))
                          \o write_vec_element(i, size))
                        \o When(~is_q, clear_vec_high(0)))

\* The source is read inside the loop.
wshli_reads_late(is_q, immh, immb) ==
  LET size == immh_size(immh)
  IN  IF size >= 3 THEN unallocated_encoding
      ELSE FpChecked(Loop(64 \div esize(size), LAMBDA i :
                       read_vec_element(i, size) \o write_vec_element(i, size + 1)))

\* The stores are wider than the loads: the source half is read beforehand.
handle_vec_simd_wshli(is_q, immh, immb) ==
  LET size == immh_size(immh)
  IN  new_tmp_a64 \o new_tmp_a64
      \o IF size >= 3 THEN unallocated_encoding
         ELSE FpChecked(read_vec_element(IF is_q THEN 1 ELSE 0, 3)
                        \o Loop(64 \div esize(size), LAMBDA i :
                             shift_by(i * esize(size), 64)
                             \o shift_by(shift_left(immh, immb), 64)
                             \o write_vec_element(i, size + 1)))

handle_vec_simd_shrn(is_q, immh, immb, opcode) ==
  LET size == immh_size(immh)
  IN  IF Bit(immh, 3) THEN unallocated_encoding
      ELSE FpChecked(read_vec_element(IF is_q THEN 1 ELSE 0, 3)
                     \o Loop(64 \div esize(size), LAMBDA i :
                          read_vec_element(i, size + 1)
                          \o handle_shri_with_rndacc(size + 1, shift_right(immh, immb), Bit(opcode, 0))
                          \o deposit(esize(size) * i, esize(size)))
                     \o NarrowTo(is_q))

\* None of the handlers is defined for immh = 0.
disas_simd_shift_imm(is_q, is_u, opcode, immh, immb) ==
  IF immh = 0 THEN not_reached
  ELSE CASE opcode \in {0, 2, 4, 6} \/ (opcode = 8 /\ is_u) ->
              handle_vec_simd_shri(is_q, immh, immb, opcode)
         [] opcode = 10 -> handle_vec_simd_shli(is_q, is_u, immh, immb)
         [] opcode \in {16, 17} /\ is_u ->
              handle_vec_simd_sqshrn(FALSE, is_q, immh, immb, opcode)
         [] opcode \in {16, 17} /\ ~is_u -> handle_vec_simd_shrn(is_q, immh, immb, opcode)
         [] opcode \in {18, 19} -> handle_vec_simd_sqshrn(FALSE, is_q, immh, immb, opcode)
         [] opcode = 20 -> handle_vec_simd_wshli(is_q, immh, immb)
         [] opcode = 28 -> handle_simd_shift_intfp_conv(FALSE, is_q, immh)
         [] opcode = 12 /\ is_u -> handle_simd_qshl(FALSE, is_q, FALSE, TRUE, immh, immb)
         [] opcode = 14 -> handle_simd_qshl(FALSE, is_q, is_u, is_u, immh, immb)
         [] opcode = 31 -> handle_simd_shift_fpint_conv(FALSE, is_q, immh)
         [] OTHER -> unallocated_encoding

\* The bits of a vector shift word, and the values of immh the table lets
\* through to disas_simd_shift_imm.
shift_word(immh) == {27, 26, 25, 24, 10} \cup {19 + b : b \in {n \in 0 .. 3 : Bit(immh, n)}}

decoded_immh == {immh \in 0 .. 15 : lookup_disas_fn(shift_word(immh)) = "disas_simd_shift_imm"}

simd_shifts ==
  {disas_simd_scalar_shift_imm(u, opcode, immh, immb) :
     u \in BOOLEAN, opcode \in 0 .. 31, immh \in 0 .. 15, immb \in 0 .. 7}
  \cup {disas_simd_shift_imm(q, u, opcode, immh, immb) :
          q, u \in BOOLEAN, opcode \in 0 .. 31, immh \in decoded_immh, immb \in 0 .. 7}
=============================================================================
