---------------------------- MODULE A64LoadStore ----------------------------
(***************************************************************************)
(* C3.3 of translate-a64.c: loads and stores.                              *)
(***************************************************************************)
EXTENDS A64Effects

-----------------------------------------------------------------------------
(* Exclusive and literal accesses, register pairs *)

\* The loaded values reach the registers after both loads.
gen_load_exclusive(rt, rt2, size, is_pair) ==
  Asserted(size <= 3,
         Do(<<"mem">>)
         \o When(is_pair, Asserted(size >= 2, Do(<<"mem", "op">>) \o cpu_reg(rt2)
                                             \o gpr_write(rt2)))
         \o Do(<<"op">>) \o cpu_reg(rt) \o gpr_write(rt))

\* One new brcond to fail_label per comparison with the monitor; the status
\* register is written on both ways out.
gen_store_exclusive(rd, rt, rt2, is_pair) ==
  Do(<<"op", "brcond", "mem", "brcond">>)
  \o When(is_pair, Do(<<"mem", "brcond">>))
  \o cpu_reg(rt) \o Do(<<"mem">>)
  \o When(is_pair, cpu_reg(rt2) \o Do(<<"mem">>))
  \o cpu_reg(rd) \o Do(<<"op", "br", "label">>)
  \o cpu_reg(rd) \o Do(<<"op", "label", "op">>)

disas_ldst_excl(rt, rt2, rs, is_lasr, is_pair, is_store, is_excl, size) ==
  IF \/ ~is_excl /\ ~is_pair /\ ~is_lasr
     \/ ~is_excl /\ is_pair
     \/ is_pair /\ size < 2
  THEN unallocated_encoding
  ELSE read_cpu_reg_sp
       \o CASE is_excl /\ ~is_store -> gen_load_exclusive(rt, rt2, size, is_pair)
            [] is_excl /\ is_store  -> gen_store_exclusive(rs, rt, rt2, is_pair)
            [] ~is_excl /\ is_store -> cpu_reg(rt) \o do_gpr_st(size, TRUE)
            [] OTHER -> cpu_reg(rt) \o do_gpr_ld(rt, size, FALSE, FALSE, TRUE)

\* The register operand is taken before the kind of access is looked at.
disas_ld_lit(rt, is_vector, opc) ==
  CASE opc = 3 /\ is_vector  -> unallocated_encoding
    [] opc = 3 /\ ~is_vector -> <<>>                        \* PRFM
    [] opc # 3 /\ is_vector  -> FpChecked(cpu_reg(rt) \o do_fp_ld(0, 2 + opc))
    [] OTHER -> cpu_reg(rt)
                \o do_gpr_ld(rt, 2 + (opc % 2), Bit(opc, 1), FALSE, TRUE)

\* One register of a pair: no syndrome information is recorded for pairs.  A
\* general register is written by its own access, the first before the second
\* access is made, be it the base or not.
PairAccess(reg, rt, is_vector, is_load, size, is_signed) ==
  CASE is_vector /\ is_load  -> do_fp_ld(reg, size)
    [] is_vector /\ ~is_load -> do_fp_st(reg, size)
    [] ~is_vector /\ is_load -> cpu_reg(rt) \o do_gpr_ld(rt, size, is_signed, FALSE, FALSE)
    [] OTHER                 -> cpu_reg(rt) \o do_gpr_st(size, FALSE)

\* The base is updated between the two accesses.
ldst_pair_early_wback(rt, rt2, index, is_vector, is_load, opc) ==
  IF is_vector \/ opc # 0 THEN unallocated_encoding
  ELSE read_cpu_reg_sp \o PairAccess(0, rt, is_vector, is_load, 2, FALSE)
       \o When(index \in {1, 3}, Do(<<"writeback">>))
       \o PairAccess(1, rt2, is_vector, is_load, 2, FALSE)

disas_ldst_pair(rt, rt2, index, is_vector, is_load, opc) ==
  LET is_signed == ~is_vector /\ Bit(opc, 0)
      size == IF is_vector THEN 2 + opc ELSE 2 + (opc \div 2)
      wback == index \in {1, 3}
      access(reg, r) == PairAccess(reg, r, is_vector, is_load, size, is_signed)
  IN  IF opc = 3 \/ (is_signed /\ (~is_load \/ index = 0))
      THEN unallocated_encoding
      ELSE When(is_vector, Do(<<"fp_access_check">>))
           \o read_cpu_reg_sp \o access(0, rt) \o access(1, rt2)
           \o When(wback, Do(<<"writeback">>))

-----------------------------------------------------------------------------
(* Single registers *)

\* Decoding of size and opc shared by the three addressing modes: the 128 bit
\* vector access takes its size from opc<1>.
VecSize(size, opc) == IF Bit(opc, 1) THEN size + 4 ELSE size

is_extended(size, opc) == size < 3 /\ Bit(opc, 0)

\* The data access of a single register, with its syndrome when it is not a
\* vector access.
RegAccess(rt, is_vector, size, opc) ==
  CASE is_vector /\ ~Bit(opc, 0) -> do_fp_st(0, VecSize(size, opc))
    [] is_vector /\ Bit(opc, 0)  -> do_fp_ld(0, VecSize(size, opc))
    [] ~is_vector /\ opc = 0     -> cpu_reg(rt) \o do_gpr_st(size, TRUE)
    [] OTHER -> cpu_reg(rt)
                \o do_gpr_ld(rt, size, Bit(opc, 1), is_extended(size, opc), TRUE)

\* get_a64_user_mem_index is only asked by unprivileged accesses; the second
\* stage regime (S2NS) never translates code.
disas_ldst_reg_imm9(opc, size, rt, is_vector, idx) ==
  LET is_unpriv == idx = 2
      writeback == idx \in {1, 3}
  IN  CASE is_vector /\ (VecSize(size, opc) > 4 \/ is_unpriv) -> unallocated_encoding
        [] ~is_vector /\ size = 3 /\ opc = 2 ->
             IF is_unpriv THEN unallocated_encoding ELSE <<>>    \* PRFM
        [] ~is_vector /\ opc = 3 /\ size > 1 -> unallocated_encoding
        [] OTHER -> When(is_vector, Do(<<"fp_access_check">>))
                    \o read_cpu_reg_sp
                    \o RegAccess(rt, is_vector, size, opc)
                    \o When(writeback, Do(<<"writeback">>))

disas_ldst_reg_roffset(opc, size, rt, is_vector, opt) ==
  CASE ~Bit(opt, 1) -> unallocated_encoding
    [] Bit(opt, 1) /\ is_vector /\ VecSize(size, opc) > 4 -> unallocated_encoding
    [] Bit(opt, 1) /\ ~is_vector /\ size = 3 /\ opc = 2 -> <<>>   \* PRFM
    [] Bit(opt, 1) /\ ~is_vector /\ opc = 3 /\ size > 1 -> unallocated_encoding
    [] OTHER -> When(is_vector, Do(<<"fp_access_check">>))
                \o read_cpu_reg_sp \o read_cpu_reg
                \o RegAccess(rt, is_vector, size, opc)

disas_ldst_reg_unsigned_imm(opc, size, rt, is_vector) ==
  CASE is_vector /\ VecSize(size, opc) > 4 -> unallocated_encoding
    [] ~is_vector /\ size = 3 /\ opc = 2 -> <<>>             \* PRFM
    [] ~is_vector /\ opc = 3 /\ size > 1 -> unallocated_encoding
    [] OTHER -> When(is_vector, Do(<<"fp_access_check">>))
                \o read_cpu_reg_sp
                \o RegAccess(rt, is_vector, size, opc)

\* The three forms, and the unallocated ones (bits 25:24 = 2, 3).
disas_ldst_reg ==
  {unallocated_encoding}
  \cup {disas_ldst_reg_imm9(opc, size, rt, v, idx) :
          opc, size, idx \in 0 .. 3, rt \in Reg, v \in BOOLEAN}
  \cup {disas_ldst_reg_roffset(opc, size, rt, v, opt) :
          opc, size \in 0 .. 3, rt \in Reg, v \in BOOLEAN, opt \in 0 .. 7}
  \cup {disas_ldst_reg_unsigned_imm(opc, size, rt, v) :
          opc, size \in 0 .. 3, rt \in Reg, v \in BOOLEAN}

-----------------------------------------------------------------------------
(* AdvSIMD structures *)

\* Post-index update of the base by the bytes transferred (Rm = 31) or by Rm.
PostIndex(is_postidx) == When(is_postidx, Do(<<"writeback">>))

\* Only the first register is cleared.
multiple_struct_clears_first(reserved, size, opcode, is_store, is_postidx, is_q) ==
  LET rpt == CASE opcode = 2 -> 4 [] opcode = 6 -> 3 [] opcode = 10 -> 2 [] OTHER -> 1
  IN  IF reserved \/ is_store \/ is_q \/ opcode \notin {2, 6, 10} THEN unallocated_encoding
      ELSE FpChecked(Loop(rpt, LAMBDA r : Loop(8 \div 2 ^ size, LAMBDA e :
             do_vec_ld(r, e, size) \o When(e = 0 /\ r = 0, clear_vec_high(r)))))

\* The high half of a register is cleared the first time the register is
\* touched.
disas_ldst_multiple_struct(reserved, size, opcode, is_store, is_postidx, is_q) ==
  LET elements == (IF is_q THEN 16 ELSE 8) \div 2 ^ size
      selem == CASE opcode = 0 -> 4 [] opcode = 4 -> 3 [] opcode = 8 -> 2 [] OTHER -> 1
      rpt == CASE opcode = 2 -> 4 [] opcode = 6 -> 3 [] opcode = 10 -> 2 [] OTHER -> 1
      element(r, e, xs) ==
        IF is_store THEN do_vec_st(r + xs, e, size)
        ELSE do_vec_ld(r + xs, e, size)
             \o When(~is_q /\ e = 0 /\ (r = 0 \/ xs = selem - 1), clear_vec_high(r + xs))
  IN  IF \/ reserved                      \* bit 31 or bit 21 is set
         \/ opcode \notin {0, 2, 4, 6, 7, 8, 10}
         \/ size = 3 /\ ~is_q /\ selem # 1
      THEN unallocated_encoding
      ELSE FpChecked(Loop(rpt, LAMBDA r : Loop(elements, LAMBDA e :
                                Loop(selem, LAMBDA xs : element(r, e, xs))))
                     \o PostIndex(is_postidx))

\* Width of one element: the lane size of opc, or that of a load-and-replicate.
lane(opc, size) ==
  LET scale == opc \div 2
  IN  CASE scale = 3 -> size
        [] scale = 2 /\ Bit(size, 0) -> 3
        [] OTHER -> scale

\* be_data is the byte order of data accesses, MO_LE (0) or MO_BE (8).  The
\* element access is given be_data + scale as the size.
disas_ldst_single_struct(size, S, opc, Rbit, is_load, is_postidx, is_q, be_data) ==
  LET scale == opc \div 2
      replicate == scale = 3
      selem == 2 * (opc % 2) + Rbit + 1
      index == (8 * is_q + 4 * S + size) \div 2 ^ lane(opc, size)
      element(xs) ==
        CASE replicate ->
               Do(<<"mem">>) \o FpAccess("fp_write", xs, 0, 3) \o FpAccess("fp_write", xs, 1, 3)
          [] ~replicate /\ is_load ->
               Do(<<"mem">>) \o insert_vec_element(xs, index, be_data + lane(opc, size))
          [] OTHER -> do_vec_st(xs, index, be_data + lane(opc, size))
  IN  IF \/ scale = 3 /\ (~is_load \/ S = 1)
         \/ scale = 1 /\ Bit(size, 0)
         \/ scale = 2 /\ (Bit(size, 1) \/ (Bit(size, 0) /\ S = 1))
      THEN unallocated_encoding
      ELSE FpChecked(Loop(selem, element) \o PostIndex(is_postidx))

\* The loads and stores.
disas_ldst ==
  {unallocated_encoding} \cup disas_ldst_reg
  \cup {disas_ldst_excl(rt, rt2, rs, lasr, pair, store, excl, size) :
          rt, rt2, rs \in Reg, lasr, pair, store, excl \in BOOLEAN, size \in 0 .. 3}
  \cup {disas_ld_lit(rt, v, opc) : rt \in Reg, v \in BOOLEAN, opc \in 0 .. 3}
  \cup {disas_ldst_pair(rt, rt2, index, v, load, opc) :
          rt, rt2 \in Reg, index, opc \in 0 .. 3, v, load \in BOOLEAN}
  \cup {disas_ldst_multiple_struct(res, size, opcode, store, post, q) :
          size \in 0 .. 3, opcode \in 0 .. 15, res, store, post, q \in BOOLEAN}
  \cup {disas_ldst_single_struct(size, S, opc, Rbit, load, post, q, be_data) :
          size \in 0 .. 3, load, post \in BOOLEAN, opc \in 0 .. 7, S, q, Rbit \in 0 .. 1,
          be_data \in {0, 8}}
=============================================================================
