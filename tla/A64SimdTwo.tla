----------------------------- MODULE A64SimdTwo -----------------------------
(***************************************************************************)
(* C3.6.12 and C3.6.17 of translate-a64.c: AdvSIMD with one source and one *)
(* destination register.  The floating point operations are numbered with  *)
(* opcode, size[1] and u together, as in the code; their element is 64     *)
(* bits when size[0] is set and 32 bits otherwise.                         *)
(***************************************************************************)
EXTENDS A64SimdShift

\* Groups of operations, by the number the decoders switch on.
fcmp_zero == {\h2c, \h2d, \h2e, \h6c, \h6d}

fcvt == {\h1a, \h1b, \h1c, \h3a, \h3b, \h5a, \h5b, \h5c, \h7a, \h7b}

frint_rmode == {\h18, \h19, \h38, \h39, \h58}

frint_current == {\h59, \h79}

fp_unary == {\h2f, \h6f, \h7f}

\* The opcodes whose meaning depends on size[1] and u.
fp_opcode == (\h0c .. \h0f) \cup (\h16 .. \h1d) \cup {\h1f}

full_opcode(opcode, size, u) ==
  opcode + (IF Bit(size, 1) THEN \h20 ELSE 0) + (IF u THEN \h40 ELSE 0)

fp_size(size) == IF Bit(size, 0) THEN 3 ELSE 2

-----------------------------------------------------------------------------
(* Shared by scalars and vectors *)

\* One 64 bit element, already read.
handle_2misc_64(opcode) ==
  Asserted(opcode \in {4, 5, 7, 8, 9, 10, 11} \cup fp_unary \cup fcvt \cup frint_rmode
                      \cup frint_current,
           Do(<<"op">>))

\* Element by element from the source to the destination, 64 or 32 bits wide.
Elementwise(is_scalar, is_q, size, operation) ==
  IF size = 3
  THEN Loop(IF is_scalar THEN 1 ELSE 2, LAMBDA pass :
         read_vec_element(pass, 3) \o operation \o write_vec_element(pass, 3))
       \o When(is_scalar, clear_vec_high(0))
  ELSE Loop(IF is_scalar THEN 1 ELSE IF is_q THEN 4 ELSE 2, LAMBDA pass :
         read_vec_element_i32(pass, 2) \o operation
         \o IF is_scalar THEN write_fp_sreg ELSE write_vec_element_i32(pass, 2))
       \o When(~is_q /\ ~is_scalar, clear_vec_high(0))

\* The check is left to the caller.
fcmp_zero_unchecked(opcode, is_scalar, is_q, size) ==
  Elementwise(is_scalar, is_q, size, Asserted(opcode \in fcmp_zero, Do(<<"op">>)))

\* The one handler of this group that makes the access check itself.
handle_2misc_fcmp_zero(opcode, is_scalar, is_q, size) ==
  FpChecked(Elementwise(is_scalar, is_q, size, Asserted(opcode \in fcmp_zero, Do(<<"op">>))))

handle_2misc_reciprocal(opcode, is_scalar, is_q, size) ==
  Elementwise(is_scalar, is_q, size,
    Asserted(opcode \in {\h3d, \h3f, \h7d} \cup (IF size = 3 THEN {} ELSE {\h3c}), Do(<<"op">>)))

\* The narrow elements wait in tcg_res until the whole source is read.
handle_2misc_narrow(scalar, opcode, is_q, size) ==
  LET operation == Asserted(/\ opcode \in {\h12, \h14, \h16, \h56}
                            /\ opcode \in {\h12, \h14} => size \in 0 .. 2
                            /\ opcode = \h56 => size = 2,
                            Do(<<"op">>))
  IN  Loop(IF scalar THEN 1 ELSE 2, LAMBDA pass :
        read_vec_element(pass, IF scalar THEN size + 1 ELSE 3) \o operation)
      \o Loop(2, LAMBDA pass : write_vec_element_i32((IF is_q THEN 2 ELSE 0) + pass, 2))
      \o When(~is_q, clear_vec_high(0))

\* A scalar smaller than 64 bits is cleared first and then written.
handle_2misc_satacc(is_scalar, is_q, size) ==
  IF size = 3
  THEN Loop(IF is_scalar THEN 1 ELSE 2, LAMBDA pass :
         read_vec_element(pass, 3) \o read_vec_element(pass, 3) \o Do(<<"op">>)
         \o write_vec_element(pass, 3))
       \o When(is_scalar, clear_vec_high(0))
  ELSE LET memop == IF is_scalar THEN size ELSE 2
       IN  Loop(IF is_scalar THEN 1 ELSE IF is_q THEN 4 ELSE 2, LAMBDA pass :
             read_vec_element_i32(pass, memop) \o read_vec_element_i32(pass, memop)
             \o Asserted(size \in 0 .. 2, Do(<<"op">>))
             \o When(is_scalar, write_vec_element(0, 3)) \o write_vec_element_i32(pass, 2))
           \o When(~is_q, clear_vec_high(0))

-----------------------------------------------------------------------------
(* Scalars *)

scalar_2misc(opcode, size) ==
  FpChecked(WithRmode(opcode \in fcvt,
    IF size = 3 THEN read_fp_dreg \o handle_2misc_64(opcode) \o write_fp_dreg
    ELSE read_vec_element_i32(0, size) \o Asserted(opcode \in {7} \cup fcvt, Do(<<"op">>))
         \o write_fp_sreg))

scalar_2misc_fp(opcode, size) ==
  CASE opcode \in fcmp_zero -> handle_2misc_fcmp_zero(opcode, TRUE, TRUE, size)
    [] opcode \in {\h1d, \h5d} -> FpChecked(handle_simd_intfp_conv(1, size))
    [] opcode \in {\h3d, \h3f, \h7d} ->
         FpChecked(handle_2misc_reciprocal(opcode, TRUE, TRUE, size))
    [] opcode \in fcvt -> scalar_2misc(opcode, size)
    [] opcode = \h56 /\ size # 2 ->
         FpChecked(handle_2misc_narrow(TRUE, opcode, FALSE, size - 1))
    [] OTHER -> unallocated_encoding

disas_simd_scalar_two_reg_misc(u, opcode, size) ==
  CASE opcode = 3 -> FpChecked(handle_2misc_satacc(TRUE, FALSE, size))
    [] opcode = 7 -> scalar_2misc(opcode, size)
    [] opcode \in {8, 9, 10, 11} /\ size = 3 /\ ~(opcode = 10 /\ u) -> scalar_2misc(opcode, size)
    [] opcode \in {\h12, \h14} /\ size # 3 /\ (opcode = \h12 => u) ->
         FpChecked(handle_2misc_narrow(TRUE, opcode, FALSE, size))
    [] opcode \in fp_opcode -> scalar_2misc_fp(full_opcode(opcode, size, u), fp_size(size))
    [] OTHER -> unallocated_encoding

-----------------------------------------------------------------------------
(* Vectors *)

\* FCVTL: both loops of the code read everything before the first write.
handle_2misc_widening(is_q, size) ==
  LET n == IF size = 3 THEN 2 ELSE 4
  IN  Loop(n, LAMBDA pass :
        read_vec_element_i32((IF is_q THEN n ELSE 0) + pass, size - 1) \o Do(<<"op">>))
      \o Loop(n, LAMBDA pass : write_vec_element(pass, size))

\* REV64 0, REV32 1, REV16 2: elements are reversed in groups of 2 ^ grp_size
\* bytes.  Bytes are swapped in place, a group at a time; wider elements are
\* deposited into two words, at i XOR revmask.
handle_rev(opcode, u, is_q, size) ==
  LET opsz == 2 * opcode + (IF u THEN 1 ELSE 0) + size
      grp_size == 3 - opsz
      dsize == IF is_q THEN 128 ELSE 64
      revmask == 2 ^ grp_size - 1
      e_rev(i) == i + revmask - 2 * (i % (revmask + 1))
      off(i) == e_rev(i) * esize(size)
  IN  IF opsz >= 3 THEN unallocated_encoding
      ELSE FpChecked(
             IF size = 0
             THEN Loop(dsize \div (8 * 2 ^ grp_size), LAMBDA i :
                    read_vec_element(i, grp_size) \o Asserted(grp_size \in 1 .. 3, Do(<<"op">>))
                    \o write_vec_element(i, grp_size))
                  \o When(~is_q, clear_vec_high(0))
             ELSE Loop(dsize \div esize(size), LAMBDA i :
                    read_vec_element(i, size)
                    \o deposit(IF off(i) >= 64 THEN off(i) - 64 ELSE off(i), esize(size)))
                  \o write_both_halves)

\* The pairs of an element twice as wide; opcode 6 adds the old destination.
handle_2misc_pairwise(opcode, is_q, size) ==
  Loop(IF is_q THEN 2 ELSE 1, LAMBDA pass :
    (IF size = 2 THEN read_vec_element(2 * pass, 2) \o read_vec_element(2 * pass + 1, 2)
     ELSE Asserted(size \in 0 .. 1, read_vec_element(pass, 3)))
    \o Do(<<"op">>) \o When(opcode = 6, read_vec_element(pass, 3)))
  \o write_both_halves

handle_shll(is_q, size) ==
  Loop(2, LAMBDA pass : read_vec_element_i32((IF is_q THEN 2 ELSE 0) + pass, 2)
                        \o Asserted(size \in 0 .. 2, shift_by(esize(size), 64)))
  \o write_both_halves

\* The operations on 32 bit elements, and those on 8 and 16 bits.
word_2misc(opcode) ==
  Asserted(opcode \in {4, 7, 8, 9, 10, 11, \h7c} \cup fp_unary \cup fcvt
                      \cup frint_rmode \cup frint_current,
           Do(<<"op">>))

small_2misc(opcode) == Asserted(opcode \in {4, 5, 7, 8, 9, 10, 11}, Do(<<"op">>))

\* The loops at the end of the decoder; some run in a rounding mode of their own.
WithRmodeOf(opcode, code) == WithRmode(opcode \in fcvt \cup frint_rmode, code)

vector_2misc(opcode, is_q, size) ==
  FpChecked(
    WithRmodeOf(opcode,
       (IF size = 3
        THEN Loop(IF is_q THEN 2 ELSE 1, LAMBDA pass :
               read_vec_element(pass, 3) \o handle_2misc_64(opcode)
               \o write_vec_element(pass, 3))
        ELSE Loop(IF is_q THEN 4 ELSE 2, LAMBDA pass :
               read_vec_element_i32(pass, 2) \o (IF size = 2 THEN word_2misc(opcode) ELSE small_2misc(opcode))
               \o write_vec_element_i32(pass, 2)))
       \o When(~is_q, clear_vec_high(0))))

vector_2misc_fp(opcode, is_q, size) ==
  LET reserved == size = 3 /\ ~is_q
  IN  CASE opcode \in {\h16, \h56} /\ (opcode = \h56 => size = 3) ->
             FpChecked(handle_2misc_narrow(FALSE, opcode, is_q, size - 1))
        [] opcode = \h17 -> FpChecked(handle_2misc_widening(is_q, size))
        [] opcode \in fp_unary \cup fcvt \cup frint_rmode \cup frint_current /\ ~reserved ->
             vector_2misc(opcode, is_q, size)
        [] opcode = \h7c /\ size = 2 -> vector_2misc(opcode, is_q, size)
        [] opcode \in {\h1d, \h5d} /\ ~reserved ->
             FpChecked(handle_simd_intfp_conv(IF size = 3 THEN 2 ELSE IF is_q THEN 4 ELSE 2, size))
        [] opcode \in fcmp_zero /\ ~reserved -> handle_2misc_fcmp_zero(opcode, FALSE, is_q, size)
        [] opcode \in {\h3c, \h3d, \h7d} /\ ~reserved /\ (opcode = \h3c => size = 2) ->
             FpChecked(handle_2misc_reciprocal(opcode, FALSE, is_q, size))
        [] OTHER -> unallocated_encoding

\* NOT takes the 64 bit loop, whatever the size of the register.
disas_simd_two_reg_misc(is_q, u, opcode, size) ==
  LET reserved == size = 3 /\ ~is_q
  IN  CASE opcode \in {0, 1} -> handle_rev(opcode, u, is_q, size)
        [] opcode = 5 /\ u /\ size = 0 -> vector_2misc(opcode, is_q, 3)
        [] opcode = 5 /\ size = (IF u THEN 1 ELSE 0) -> vector_2misc(opcode, is_q, size)
        [] opcode = 4 /\ size # 3 -> vector_2misc(opcode, is_q, size)
        [] opcode \in {\h12, \h14} /\ size # 3 ->
             FpChecked(handle_2misc_narrow(FALSE, opcode, is_q, size))
        [] opcode \in {2, 6} /\ size # 3 -> FpChecked(handle_2misc_pairwise(opcode, is_q, size))
        [] opcode = \h13 /\ u /\ size # 3 -> FpChecked(handle_shll(is_q, size))
        [] opcode \in {7, 8, 9, 10, 11} /\ ~reserved /\ ~(opcode = 10 /\ u) ->
             vector_2misc(opcode, is_q, size)
        [] opcode = 3 /\ ~reserved -> FpChecked(handle_2misc_satacc(FALSE, is_q, size))
        [] opcode \in fp_opcode ->
             vector_2misc_fp(full_opcode(opcode, size, u), is_q, fp_size(size))
        [] OTHER -> unallocated_encoding

simd_two_regs ==
  {disas_simd_scalar_two_reg_misc(u, opcode, size) :
     u \in BOOLEAN, opcode \in 0 .. 31, size \in 0 .. 3}
  \cup {disas_simd_two_reg_misc(q, u, opcode, size) :
          q, u \in BOOLEAN, opcode \in 0 .. 31, size \in 0 .. 3}
=============================================================================
