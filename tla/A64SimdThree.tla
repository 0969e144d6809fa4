---------------------------- MODULE A64SimdThree ----------------------------
(***************************************************************************)
(* C3.6.10, C3.6.11, C3.6.15 and C3.6.16 of translate-a64.c: AdvSIMD with  *)
(* two source registers of the same or of different element sizes; C3.6.13 *)
(* and C3.6.18, by an indexed element; and C3.6.19 to C3.6.21, the         *)
(* cryptographic extension.                                                *)
(***************************************************************************)
EXTENDS A64Effects

CONSTANT
  \* The optional extensions of the emulated CPU.
  features

ASSUME FeaturesAssumption == features \subseteq {"V8_AES", "V8_SHA1", "V8_SHA256"}

\* Passes over 64 bit words or over 32 bit pieces.
quad(is_q) == IF is_q THEN 2 ELSE 1

pieces(is_q) == IF is_q THEN 4 ELSE 2

\* The same element of both sources.
Both(element, size) == read_vec_element(element, size) \o read_vec_element(element, size)

-----------------------------------------------------------------------------
(* Different sizes *)

\* SQDMLAL 9, SQDMLSL 11 add to the destination, SQDMULL 13 does not.
disas_simd_scalar_three_reg_diff(is_u, size, opcode) ==
  IF is_u \/ opcode \notin {9, 11, 13} \/ size \in {0, 3} THEN unallocated_encoding
  ELSE FpChecked(Both(0, size) \o Do(<<"op">>)
                 \o When(opcode # 13, read_vec_element(0, size + 1)) \o write_fp_dreg)

\* Operations with an accumulator read it first; both halves of the result are
\* complete before either is written.
accumulating_diff == {5, 8, 9, 10, 11}

widening_diff == {0, 2, 5, 7, 8, 9, 10, 11, 12, 13}

\* 32 bit elements are multiplied or added in line.
widening_words(opcode) == Asserted(opcode \in widening_diff, Do(<<"op">>))

\* Smaller elements go through helpers: the saturating ones need 16 bits, the
\* polynomial one 8.
widening_helpers(size, opcode) ==
  Asserted(/\ opcode \in widening_diff \cup {14}
           /\ opcode \in {9, 11, 13} => size = 1
           /\ opcode = 14 => size = 0,
           Do(<<"op">>))

\* The addition of lanes twice as wide as size, out of a table of three.
gen_neon_addl(size) == Asserted(size \in 0 .. 2, Do(<<"op">>))

handle_3rd_widening(is_q, size, opcode) ==
  LET first == IF is_q THEN 2 ELSE 0
      operation == IF size = 2 THEN widening_words(opcode) ELSE widening_helpers(size, opcode)
  IN  When(opcode \in accumulating_diff, read_vec_element(0, 3) \o read_vec_element(1, 3))
      \o Loop(2, LAMBDA pass : Both(first + pass, 2) \o operation)
      \o write_both_halves

handle_3rd_wide(is_q, size) ==
  LET part == IF is_q THEN 2 ELSE 0
  IN  Loop(2, LAMBDA pass : read_vec_element(pass, 3) \o read_vec_element_i32(part + pass, 2)
                            \o gen_neon_addl(size))
      \o write_both_halves

handle_3rd_narrowing(is_q, size) ==
  LET part == IF is_q THEN 2 ELSE 0
  IN  Loop(2, LAMBDA pass : Both(pass, 3) \o gen_neon_addl(size))
      \o Loop(2, LAMBDA pass : write_vec_element_i32(pass + part, 2))
      \o When(~is_q, clear_vec_high(0))

handle_pmull_64(is_q) == Both(quad(is_q) - 1, 3) \o Do(<<"op">>) \o write_both_halves

disas_simd_three_reg_diff(is_q, is_u, size, opcode, has_pmull) ==
  CASE opcode \in {1, 3} /\ size # 3 -> FpChecked(handle_3rd_wide(is_q, size))
    [] opcode \in {4, 6} /\ size # 3 -> FpChecked(handle_3rd_narrowing(is_q, size))
    [] opcode = 14 /\ ~is_u /\ size = 3 /\ has_pmull -> FpChecked(handle_pmull_64(is_q))
    [] \/ opcode = 14 /\ ~is_u /\ size = 0
       \/ opcode \in {9, 11, 13} /\ ~is_u /\ size \in {1, 2}
       \/ opcode \in widening_diff \ {9, 11, 13} /\ size # 3 ->
         FpChecked(handle_3rd_widening(is_q, size, opcode))
    [] OTHER -> unallocated_encoding

-----------------------------------------------------------------------------
(* The same size *)

\* The opcodes for which 64 bit elements exist.
handle_3same_64(opcode) ==
  Asserted(opcode \in {1, 5, 6, 7, 8, 9, 10, 11, 16, 17}, Do(<<"op">>))

\* FMLA 25 and FMLS 57 add to the destination.  The numbers are U:size<1>:opcode.
fp_3same == {24, 25, 26, 27, 28, 30, 31, 56, 57, 58, 62, 63, 91, 92, 93, 95, 122, 124, 125}

fp_3same_scalar == {27, 28, 31, 63, 92, 93, 122, 124, 125}

fp_3same_pair == {88, 90, 94, 120, 126}

\* A scalar single writes 64 bits; what is less than a quad clears the rest.
write_3same_float(pass, elements, size) == write_vec_element(pass, IF elements = 1 THEN 3 ELSE size)
finish_3same_float(elements, is_double) ==
  When(elements * (IF is_double THEN 2 ELSE 1) < 4, clear_vec_high(0))

handle_3same_float(is_double, elements, fpopcode) ==
  LET size == IF is_double THEN 3 ELSE 2
  IN  Loop(elements, LAMBDA pass :
        Both(pass, size) \o When(fpopcode \in {25, 57}, read_vec_element(pass, size))
        \o Asserted(fpopcode \in fp_3same, Do(<<"op">>))
        \o write_3same_float(pass, elements, size))
      \o finish_3same_float(elements, is_double)

fpopcode_of(u, size, opcode) ==
  opcode + 32 * (size \div 2) + (IF u THEN 64 ELSE 0)

\* The saturating operations on 8, 16 and 32 bit elements.
saturating == {1, 5, 9, 11}
scalar_3same(size, opcode) ==
  Asserted(opcode \in saturating \cup {22} /\ (opcode = 22 => size \in {1, 2}), Do(<<"op">>))

disas_simd_scalar_three_reg_same(u, size, opcode) ==
  LET operation == IF size = 3 THEN handle_3same_64(opcode) ELSE scalar_3same(size, opcode)
  IN  IF opcode >= 24
      THEN IF fpopcode_of(u, size, opcode) \notin fp_3same_scalar THEN unallocated_encoding
           ELSE FpChecked(handle_3same_float(Bit(size, 0), 1, fpopcode_of(u, size, opcode)))
      ELSE IF \/ opcode \notin saturating \cup {6, 7, 8, 10, 16, 17, 22}
              \/ opcode \in {6, 7, 8, 10, 16, 17} /\ size # 3
              \/ opcode = 22 /\ size \notin {1, 2}
           THEN unallocated_encoding
           ELSE FpChecked(Both(0, size) \o operation \o write_fp_dreg)

\* BSL, BIT and BIF read the destination.
disas_simd_3same_logic(is_q, is_u, size) ==
  FpChecked(Loop(quad(is_q), LAMBDA pass :
              Both(pass, 3) \o When(is_u /\ size # 0, read_vec_element(pass, 3)) \o Do(<<"op">>))
            \o write_both_halves)

\* Pairs of adjacent elements of rm:rn.  The whole result is kept in
\* temporaries until every pair has been read.
handle_simd_3same_pair(is_q, size, opcode) ==
  LET passelt(pass) == IF is_q /\ pass % 2 = 1 THEN 2 ELSE 0
  IN  FpChecked(
        IF size = 3
        THEN Loop(2, LAMBDA pass :
               read_vec_element(0, 3) \o read_vec_element(1, 3)
               \o Asserted(opcode \in fp_3same_pair \cup {23}, Do(<<"op">>)))
             \o write_both_halves
        ELSE Loop(pieces(is_q), LAMBDA pass :
               read_vec_element_i32(passelt(pass), 2) \o read_vec_element_i32(passelt(pass) + 1, 2)
               \o Asserted(opcode \in fp_3same_pair \cup {20, 21, 23}, Do(<<"op">>)))
             \o Loop(pieces(is_q), LAMBDA pass : write_vec_element_i32(pass, 2))
             \o When(~is_q, clear_vec_high(0)))

disas_simd_3same_float(is_q, u, size, opcode) ==
  LET fpopcode == fpopcode_of(u, size, opcode)
      is_double == Bit(size, 0)
  IN  CASE is_double /\ ~is_q -> unallocated_encoding
        [] ~(is_double /\ ~is_q) /\ fpopcode \in fp_3same_pair ->
             handle_simd_3same_pair(is_q, IF is_double THEN 3 ELSE 2, fpopcode)
        [] ~(is_double /\ ~is_q) /\ fpopcode \in fp_3same ->
             FpChecked(handle_3same_float(is_double, IF is_double THEN 2 ELSE pieces(is_q), fpopcode))
        [] OTHER -> unallocated_encoding

\* The operation on 8, 16 or 32 bit elements, out of a table of helpers: sums,
\* shifts, comparisons and differences, and from 16 on the arithmetic ones.
int_3same(u, size, opcode) == Asserted(opcode \in (0 .. 15) \ {3}, Do(<<"op">>))

int_3same_arith(u, size, opcode) ==
  Asserted(/\ opcode \in 16 .. 22 \ {20, 21}
           /\ opcode = 19 /\ u => size = 0
           /\ opcode = 22 => size \in {1, 2}, Do(<<"op">>))

\* SABA 15 and MLA 18 add to the destination.
accumulate_3same(pass, opcode) ==
  When(opcode \in {15, 18}, read_vec_element_i32(pass, 2)) \o write_vec_element_i32(pass, 2)

disas_simd_3same_int(is_q, u, size, opcode) ==
  IF \/ opcode = 19 /\ u /\ size # 0
     \/ opcode \in {0, 2, 4, 12, 13, 14, 15, 18, 19} /\ size = 3
     \/ opcode = 22 /\ size \in {0, 3}
     \/ size = 3 /\ ~is_q
  THEN unallocated_encoding
  ELSE FpChecked(
         (IF size = 3
          THEN Loop(2, LAMBDA pass :
                 Both(pass, 3) \o handle_3same_64(opcode) \o write_vec_element(pass, 3))
          ELSE Loop(pieces(is_q), LAMBDA pass :
                 Both(pass, 2)
                 \o (IF opcode < 16 THEN int_3same(u, size, opcode) ELSE int_3same_arith(u, size, opcode))
                 \o accumulate_3same(pass, opcode)))
         \o When(~is_q, clear_vec_high(0)))

disas_simd_three_reg_same(is_q, u, size, opcode) ==
  CASE opcode = 3 -> disas_simd_3same_logic(is_q, u, size)
    [] opcode = 23 -> IF u \/ (size = 3 /\ ~is_q) THEN unallocated_encoding
                      ELSE handle_simd_3same_pair(is_q, size, opcode)
    [] opcode \in {20, 21} -> IF size = 3 THEN unallocated_encoding
                              ELSE handle_simd_3same_pair(is_q, size, opcode)
    [] opcode >= 24 -> disas_simd_3same_float(is_q, u, size, opcode)
    [] OTHER -> disas_simd_3same_int(is_q, u, size, opcode)

simd_three_regs ==
  {disas_simd_scalar_three_reg_diff(u, size, opcode) :
     u \in BOOLEAN, size \in 0 .. 3, opcode \in 0 .. 15}
  \cup {disas_simd_three_reg_diff(q, u, size, opcode, pmull) :
          q, u, pmull \in BOOLEAN, size \in 0 .. 3, opcode \in 0 .. 15}
  \cup {disas_simd_scalar_three_reg_same(u, size, opcode) :
          u \in BOOLEAN, size \in 0 .. 3, opcode \in 0 .. 31}
  \cup {disas_simd_three_reg_same(q, u, size, opcode) :
          q, u \in BOOLEAN, size \in 0 .. 3, opcode \in 0 .. 31}

-----------------------------------------------------------------------------
(* Operations by an indexed element.  Both sources may be the destination:  *)
(* the element is read once, before any pass writes.                        *)

long_indexed == {2, 3, 6, 7, 10, 11}

fp_indexed == {1, 5, 9}

\* Operations that add to or subtract from the destination.
accumulating_indexed == {0, 1, 2, 3, 4, 5, 6, 7}

indexed_double(opcode, is_scalar, is_q, index) ==
  Asserted(opcode \in fp_indexed /\ is_q,
    read_vec_element(index, 3)
    \o Loop(IF is_scalar THEN 1 ELSE 2, LAMBDA pass :
         read_vec_element(pass, 3)
         \o When(opcode \in accumulating_indexed, read_vec_element(pass, 3))
         \o Do(<<"op">>) \o write_vec_element(pass, 3))
    \o When(is_scalar, clear_vec_high(0)))

\* The 16 bit index is doubled, so that the 32 bit helpers work on pairs.
indexed_normal(opcode, is_scalar, is_q, size, index) ==
  read_vec_element_i32(index, size) \o When(size = 1 /\ ~is_scalar, deposit(16, 16))
  \o Loop(IF is_scalar THEN 1 ELSE IF is_q THEN 4 ELSE 2, LAMBDA pass :
       read_vec_element_i32(pass, IF is_scalar THEN size ELSE 2)
       \o When(opcode \in accumulating_indexed, read_vec_element_i32(pass, 2))
       \o Asserted(opcode \in {0, 4, 8, 12, 13} \cup fp_indexed, Do(<<"op">>))
       \o IF is_scalar THEN write_fp_sreg ELSE write_vec_element_i32(pass, 2))
  \o When(~is_q, clear_vec_high(0))

\* The results wait in tcg_res until both passes have read their operands; a
\* scalar clears the high half and then writes both.
write_indexed_long(size, is_scalar) ==
  When(size = 2 /\ is_scalar, clear_vec_high(0)) \o write_both_halves

indexed_long(opcode, is_scalar, is_q, size, index) ==
  LET part == IF is_q /\ ~is_scalar THEN 2 ELSE 0
  IN  Asserted(size \in {1, 2}, read_vec_element(index, size))
      \o When(size = 1 /\ ~is_scalar, deposit(16, 16))
      \o Loop(IF is_scalar THEN 1 ELSE 2, LAMBDA pass :
           read_vec_element(part + pass, IF is_scalar THEN size ELSE 2) \o Do(<<"op">>)
           \o When(opcode \notin {10, 11}, read_vec_element(pass, 3)))
      \o write_indexed_long(size, is_scalar)

\* The combinations of opcode, u and scalar that exist.
indexed_allocated(opcode, u, is_scalar) ==
  \/ opcode \in {0, 4} /\ u /\ ~is_scalar
  \/ opcode \in {2, 6, 10} /\ ~is_scalar
  \/ opcode \in {3, 7, 11, 12, 13} /\ ~u
  \/ opcode = 8 /\ ~u /\ ~is_scalar
  \/ opcode \in {1, 5} /\ ~u
  \/ opcode = 9

disas_simd_indexed(is_scalar, is_q, u, size, l, m, opcode, h) ==
  LET is_fp == opcode \in fp_indexed
      width == IF is_fp THEN (IF Bit(size, 0) THEN 3 ELSE 2) ELSE size
      index == CASE width = 1 -> 4 * h + 2 * l + m
                 [] width = 2 -> 2 * h + l
                 [] OTHER -> h
  IN  IF \/ ~indexed_allocated(opcode, u, is_scalar)
         \/ is_fp /\ ~Bit(size, 1)
         \/ is_fp /\ width = 3 /\ (l = 1 \/ ~is_q)
         \/ ~is_fp /\ size \in {0, 3}
      THEN unallocated_encoding
      ELSE FpChecked(
             CASE width = 3 -> indexed_double(opcode, is_scalar, is_q, index)
               [] width # 3 /\ opcode \notin long_indexed ->
                    indexed_normal(opcode, is_scalar, is_q, width, index)
               [] width # 3 /\ opcode \in long_indexed ->
                    indexed_long(opcode, is_scalar, is_q, width, index))

-----------------------------------------------------------------------------
(* The cryptographic extension: the helpers read and write the registers    *)
(* by number.  The handlers make no access check.                           *)

crypto_helper == Do(<<"crypto_helper">>)

disas_crypto_aes(size, opcode) ==
  IF "V8_AES" \notin features \/ size # 0 \/ opcode \notin 4 .. 7 THEN unallocated_encoding
  ELSE crypto_helper

disas_crypto_three_reg_sha(size, opcode) ==
  IF \/ size # 0 \/ opcode \notin 0 .. 6
     \/ (IF opcode <= 3 THEN "V8_SHA1" ELSE "V8_SHA256") \notin features
  THEN unallocated_encoding
  ELSE crypto_helper

disas_crypto_two_reg_sha(size, opcode) ==
  IF \/ size # 0 \/ opcode \notin 0 .. 2
     \/ (IF opcode <= 1 THEN "V8_SHA1" ELSE "V8_SHA256") \notin features
  THEN unallocated_encoding
  ELSE crypto_helper

\* A scalar has bit 30 set, which is also the Q bit.
simd_indexed_and_crypto ==
  {disas_simd_indexed(scalar, q \/ scalar, u, size, l, m, opcode, h) :
     scalar, q, u \in BOOLEAN, size \in 0 .. 3, l, m, h \in 0 .. 1, opcode \in 0 .. 15}
  \cup {disas_crypto_aes(size, opcode) : size \in 0 .. 3, opcode \in 0 .. 31}
  \cup {disas_crypto_three_reg_sha(size, opcode) : size \in 0 .. 3, opcode \in 0 .. 7}
  \cup {disas_crypto_two_reg_sha(size, opcode) : size \in 0 .. 3, opcode \in 0 .. 31}
=============================================================================
