---------------------------- MODULE A64DataProc -----------------------------
(***************************************************************************)
(* C3.4 and C3.5 of translate-a64.c: data processing on general registers. *)
(* The TCG operations themselves are one "op"; what the handlers differ in *)
(* is which encodings they refuse, how many auto-freed temporaries they    *)
(* take and which shift and field widths they hand to TCG, whose shifts,   *)
(* rotates and deposits are only defined inside the 64 bit word.           *)
(***************************************************************************)
EXTENDS A64Effects

-----------------------------------------------------------------------------
(* Immediate operands *)

disas_pc_rel_adr(rd) == cpu_reg(rd) \o Do(<<"op">>)

\* The destination is taken before the shift field is looked at.
disas_add_sub_imm(rd, setflags, shift) ==
  When(setflags, cpu_reg(rd))
  \o IF shift \in {0, 1} THEN Do(<<"op">>) ELSE unallocated_encoding

\* Element size of a bitmask immediate: highest bit of immn:NOT(imms).
wmask_len(immn, imms) ==
  LET v == immn * 64 + (63 - imms)
  IN  CHOOSE len \in -1 .. 6 : /\ v < 2 ^ (len + 1)
                               /\ len >= 0 => v >= 2 ^ len

\* The bits of the immediate: s + 1 ones rotated right by r inside an element
\* of e bits, replicated over the word; {} when the fields are reserved.
\* The element is built as in the code, by shifting the run of ones right by
\* r and left by e - r and masking with the element.
logic_imm_decode_wmask(immn, imms, immr) ==
  LET len == wmask_len(immn, imms)
      e == 2 ^ len
      s == imms % e
      r == immr % e
      run == 0 .. s
      element == IF r = 0 THEN run
                 ELSE ({b - r : b \in run} \cup {b + (e - r) : b \in run})
                        \cap (0 .. e - 1)
  IN  IF len < 1 \/ s = e - 1 THEN {}
      ELSE {b \in 0 .. 63 : b % e \in element}

disas_logic_imm(sf, opc, is_n, wmask_ok, rn, rd) ==
  IF ~sf /\ is_n THEN unallocated_encoding
  ELSE When(opc = 3, cpu_reg(rd)) \o cpu_reg(rn)
       \o IF wmask_ok THEN Do(<<"op">>) ELSE unallocated_encoding

disas_movw_imm(sf, opc, pos, rd) ==
  cpu_reg(rd)
  \o IF ~sf /\ pos >= 32 THEN unallocated_encoding
     ELSE CASE opc \in {0, 2} -> Do(<<"op">>)
            [] opc = 3        -> deposit(pos, 16)
            [] OTHER          -> unallocated_encoding

\* The aliases (extend, shift right, shift left) first, then the general move
\* of a field; SBFM then sign extends it by two shifts of 64 - (pos + len).
disas_bitfield(sf, n, opc, ri, si, rn, rd) ==
  LET bitsize == IF sf THEN 64 ELSE 32
      pos == IF si >= ri THEN 0 ELSE bitsize - ri
      len == IF si >= ri THEN (si - ri) + 1 ELSE si + 1
      asr == si = 63 \/ (si = 31 /\ ri <= si)
      move == deposit(pos, len)
              \o When(opc = 0, shift_by(64 - (pos + len), 64))
      code ==
        CASE opc = 0 /\ ri = 0 /\ si \in {7, 15, 31} -> Do(<<"op">>)
          [] opc = 0 /\ asr                          -> shift_by(ri, 64)
          [] opc = 2 /\ ri = 0 -> Asserted(si + 1 \in 1 .. 64, Do(<<"op">>))
          [] opc = 2 /\ ri # 0 /\ asr                -> shift_by(ri, 64)
          [] opc = 2 /\ si + 1 = ri /\ si # bitsize - 1 -> shift_by(bitsize - 1 - si, 64)
          [] OTHER -> move
  IN  IF sf # n \/ ri >= bitsize \/ si >= bitsize \/ opc > 2
      THEN unallocated_encoding
      ELSE cpu_reg(rd) \o read_cpu_reg \o code

\* An extract from bit 0 is a move: a shift left by the whole width would be
\* undefined.
disas_extract(sf, n, op21, op0, imm, same, rm, rd) ==
  LET bitsize == IF sf THEN 64 ELSE 32
  IN  IF sf # n \/ op21 # 0 \/ op0 \/ imm >= bitsize
      THEN unallocated_encoding
      ELSE cpu_reg(rd)
           \o CASE imm = 0          -> cpu_reg(rm) \o Do(<<"op">>)
                [] imm # 0 /\ same  -> cpu_reg(rm) \o shift_by(imm, bitsize)
                [] OTHER -> read_cpu_reg \o read_cpu_reg
                            \o shift_by(imm, 64) \o shift_by(bitsize - imm, 64)

disas_data_proc_imm ==
  {unallocated_encoding}
  \cup {disas_pc_rel_adr(rd) : rd \in Reg}
  \cup {disas_add_sub_imm(rd, f, shift) : rd \in Reg, f \in BOOLEAN, shift \in 0 .. 3}
  \cup {disas_logic_imm(sf, opc, is_n = 1, logic_imm_decode_wmask(is_n, imms, 1) # {}, rn, rd) :
          sf \in BOOLEAN, opc \in 0 .. 3, is_n \in 0 .. 1, imms \in 0 .. 63, rn, rd \in Reg}
  \cup {disas_movw_imm(sf, opc, 16 * hw, rd) :
          sf \in BOOLEAN, opc, hw \in 0 .. 3, rd \in Reg}
  \cup {disas_bitfield(sf, n, opc, ri, si, 0, rd) :
          sf, n \in BOOLEAN, opc \in 0 .. 3, ri, si \in 0 .. 63, rd \in Reg}
  \cup {disas_extract(sf, n, op21, op0, imm, same, rm, rd) :
          sf, n, op0, same \in BOOLEAN, op21 \in 0 .. 1, imm \in 0 .. 63, rm, rd \in Reg}

-----------------------------------------------------------------------------
(* Register operands *)

\* shift_reg_imm: a 32 bit rotate goes through 32 bit temporaries.
shift_reg_imm(sf, shift_i) == shift_by(shift_i, IF sf THEN 64 ELSE 32)

\* MOV and MVN (ORR, ORN with the zero register) are special-cased.
disas_logic_reg(sf, opc, shift_type, rm, shift_amount, rn, rd) ==
  IF ~sf /\ shift_amount >= 32 THEN unallocated_encoding
  ELSE cpu_reg(rd)
       \o IF opc = 1 /\ shift_amount = 0 /\ shift_type = 0 /\ rn = 31
          THEN cpu_reg(rm) \o Do(<<"op">>)
          ELSE read_cpu_reg
               \o When(shift_amount # 0, shift_reg_imm(sf, shift_amount))
               \o cpu_reg(rn) \o Do(<<"op">>)

disas_add_sub_ext_reg(imm3, setflags, rd) ==
  IF imm3 > 4 THEN unallocated_encoding
  ELSE When(setflags, cpu_reg(rd)) \o read_cpu_reg_sp \o read_cpu_reg \o Do(<<"op">>)

disas_add_sub_reg(sf, imm6, shift_type, rd) ==
  cpu_reg(rd)
  \o IF shift_type = 3 \/ (~sf /\ imm6 > 31) THEN unallocated_encoding
     ELSE read_cpu_reg \o read_cpu_reg \o shift_reg_imm(sf, imm6) \o Do(<<"op">>)

\* op_id is sf:op54:op31:o0; every use of a register asks for it again.
disas_data_proc_3src(op_id, rd, rn, ra, rm) ==
  LET sf == op_id >= 64
      is_sub == Bit(op_id, 0)
      is_high == Bit(op_id, 2)
  IN  IF op_id \notin {0, 1, 64, 65, 66, 67, 68, 74, 75, 76}
      THEN unallocated_encoding
      ELSE IF is_high THEN cpu_reg(rd) \o cpu_reg(rn) \o cpu_reg(rm) \o Do(<<"op">>)
      ELSE cpu_reg(rn) \o cpu_reg(rm) \o cpu_reg(rd)
           \o When(ra # 31 \/ is_sub, cpu_reg(ra)) \o Do(<<"op">>)
           \o When(~sf, cpu_reg(rd) \o cpu_reg(rd) \o Do(<<"op">>))

disas_adc_sbc(bits_10_15, op, rm, rn, rd) ==
  IF bits_10_15 # 0 THEN unallocated_encoding
  ELSE cpu_reg(rd) \o cpu_reg(rn) \o When(op, new_tmp_a64) \o cpu_reg(rm) \o Do(<<"op">>)

\* The operand register is only looked up when it is not an immediate.
disas_cc(bit_29, bits_10_4, is_imm, y, rn) ==
  IF ~bit_29 \/ bits_10_4 THEN unallocated_encoding
  ELSE (IF is_imm THEN new_tmp_a64 ELSE cpu_reg(y)) \o cpu_reg(rn) \o Do(<<"op">>)

\* CSET and CSETM use neither source register.
disas_cond_select(s_op2, else_inv, else_inc, rm, rn, rd) ==
  IF s_op2 THEN unallocated_encoding
  ELSE cpu_reg(rd)
       \o When(~(rn = 31 /\ rm = 31 /\ else_inc # else_inv),
               cpu_reg(rn) \o read_cpu_reg)
       \o Do(<<"op">>)

\* handle_clz, handle_cls and handle_rbit differ in the helper they call.
handle_clz_cls_rbit(rn, rd) == cpu_reg(rd) \o cpu_reg(rn) \o Do(<<"op">>)

handle_rev64(sf, rn, rd) ==
  IF ~sf THEN unallocated_encoding ELSE cpu_reg(rd) \o cpu_reg(rn) \o Do(<<"op">>)

handle_rev32(sf, rn, rd) ==
  cpu_reg(rd) \o (IF sf THEN read_cpu_reg ELSE cpu_reg(rn)) \o Do(<<"op">>)

handle_rev16(rd) == cpu_reg(rd) \o read_cpu_reg \o Do(<<"op">>)

\* The switch has no default: opcodes above 5 emit nothing at all.
disas_data_proc_1src(s_or_opcode2, sf, opcode, rn, rd) ==
  IF s_or_opcode2 THEN unallocated_encoding
  ELSE CASE opcode \in {0, 4, 5} -> handle_clz_cls_rbit(rn, rd)
         [] opcode = 1 -> handle_rev16(rd)
         [] opcode = 2 -> handle_rev32(sf, rn, rd)
         [] opcode = 3 -> handle_rev64(sf, rn, rd)
         [] OTHER -> <<>>

handle_div(is_signed, sf, rm, rn, rd) ==
  cpu_reg(rd)
  \o (IF ~sf /\ is_signed
      THEN new_tmp_a64 \o new_tmp_a64 \o cpu_reg(rn) \o cpu_reg(rm)
      ELSE read_cpu_reg \o read_cpu_reg)
  \o Do(<<"op">>)

handle_shift_reg(rm, rd) ==
  cpu_reg(rd) \o read_cpu_reg \o cpu_reg(rm) \o Do(<<"op">>)

handle_crc32(has_crc, sf, sz, rm, rn, rd) ==
  IF ~has_crc \/ (sf /\ sz # 3) \/ (~sf /\ sz = 3) THEN unallocated_encoding
  ELSE When(sz # 3, Asserted(sz \in 0 .. 2, new_tmp_a64))
       \o cpu_reg(rm) \o cpu_reg(rn) \o cpu_reg(rd) \o Do(<<"op">>)

disas_data_proc_2src(s, sf, opcode, has_crc, rm, rn, rd) ==
  CASE s                          -> unallocated_encoding
    [] ~s /\ opcode \in {2, 3}    -> handle_div(opcode = 3, sf, rm, rn, rd)
    [] ~s /\ opcode \in 8 .. 11   -> handle_shift_reg(rm, rd)
    [] ~s /\ opcode \in 16 .. 23  -> handle_crc32(has_crc, sf, opcode % 4, rm, rn, rd)
    [] OTHER                      -> unallocated_encoding

disas_data_proc_reg ==
  {unallocated_encoding}
  \cup {disas_logic_reg(sf, opc, st, rm, sa, rn, rd) : sf \in BOOLEAN,
          opc, st \in 0 .. 3, sa \in 0 .. 63, rm, rn, rd \in Reg}
  \cup {disas_add_sub_ext_reg(imm3, f, rd) : imm3 \in 0 .. 7, f \in BOOLEAN, rd \in Reg}
  \cup {disas_add_sub_reg(sf, imm6, st, rd) :
          sf \in BOOLEAN, imm6 \in 0 .. 63, st \in 0 .. 3, rd \in Reg}
  \cup {disas_data_proc_3src(op_id, rd, rn, ra, rm) :
          op_id \in 0 .. 127, rd, rn, ra, rm \in Reg}
  \cup {disas_adc_sbc(b, op, rm, rn, rd) : b \in 0 .. 1, op \in BOOLEAN, rm, rn, rd \in Reg}
  \cup {disas_cc(b29, b, imm, y, rn) : b29, b, imm \in BOOLEAN, y, rn \in Reg}
  \cup {disas_cond_select(b, inv, inc, rm, rn, rd) :
          b, inv, inc \in BOOLEAN, rm, rn, rd \in Reg}
  \cup {disas_data_proc_1src(b, sf, opcode, rn, rd) :
          b, sf \in BOOLEAN, opcode \in 0 .. 63, rn, rd \in Reg}
  \cup {disas_data_proc_2src(b, sf, opcode, crc, rm, rn, rd) :
          b, sf, crc \in BOOLEAN, opcode \in 0 .. 63, rm, rn, rd \in Reg}
=============================================================================
