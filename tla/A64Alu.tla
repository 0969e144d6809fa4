------------------------------- MODULE A64Alu -------------------------------
(***************************************************************************)
(* What the code emitted by translate-a64.c and the helpers of helper-a64.c *)
(* compute for data-processing instructions.  The flags of the guest are    *)
(* held in four words as in CPUARMState: N is the top bit of NF, Z is        *)
(* ZF = 0, C is CF (0 or 1) and V the top bit of VF.  The operations of      *)
(* softfloat are external, with their results before rounding.               *)
(***************************************************************************)
EXTENDS Integers, FiniteSets, FiniteSetsExt, Bitwise, TLC

CONSTANTS W,                   \* bits of a word (32 in the code)
          Operands,            \* the contents of registers
          Floats,              \* operands of FP instructions
          ExpBits, FracBits,   \* of a float
          Polynomial,          \* of CRC32 and CRC32C
          Lane,                \* bits of the narrow elements of a vector
          VRegs, HalfBytes     \* vector registers, and bytes of half of one

ASSUME AluAssumption ==
  /\ W \in Nat /\ W >= 4 /\ Operands \subseteq 0 .. 2^(2 * W) - 1
  /\ Floats \subseteq 0 .. 2^(1 + ExpBits + FracBits) - 1
  /\ {ExpBits, FracBits, Lane, VRegs, HalfBytes} \subseteq Nat \ {0}

VARIABLES X, NF, ZF, CF, VF, fz, fpsr, R, insn

aluvars == <<X, NF, ZF, CF, VF, fz, fpsr, R, insn>>

Arch == INSTANCE A64Arch WITH
  pstate <- [N |-> NF >= 2^(W - 1), Z |-> ZF = 0, C |-> CF = 1, V |-> VF >= 2^(W - 1)]

-----------------------------------------------------------------------------
(* Flags. *)
bitsize(sf) == IF sf THEN 2 * W ELSE W
extrl(x) == x % 2^W
extrh(x) == x \div 2^W
andc(n, x, y) == x & (2^n - 1 - y)
add2(n, al, ah, bl, bh) ==
  LET s == al + bl + (ah + bh) * 2^n
  IN [lo |-> s % 2^n, hi |-> (s \div 2^n) % 2^n]

gen_set_NZ64(result) == [NF |-> extrh(result), ZF |-> extrl(result) | extrh(result)]
NZ(sf, result) == IF sf THEN gen_set_NZ64(result) ELSE [NF |-> result, ZF |-> result]
Overflow(sf, flag) == IF sf THEN extrh(flag) ELSE flag

gen_logic_CC(sf, result) == NZ(sf, result % 2^bitsize(sf)) @@ [CF |-> 0, VF |-> 0]

gen_add_CC(sf, t0, t1) ==
  LET n == bitsize(sf)
      a == t0 % 2^n
      b == t1 % 2^n
      sum == add2(n, a, 0, b, 0)
  IN NZ(sf, sum.lo) @@ [dest |-> sum.lo, CF |-> extrl(sum.hi),
                        VF |-> Overflow(sf, andc(n, sum.lo ^^ a, a ^^ b))]

gen_sub_CC(sf, t0, t1) ==
  LET n == bitsize(sf)
      a == t0 % 2^n
      b == t1 % 2^n
      result == (a - b) % 2^n
  IN NZ(sf, result) @@ [dest |-> result, CF |-> IF a >= b THEN 1 ELSE 0,
                        VF |-> Overflow(sf, (result ^^ a) & (a ^^ b))]

gen_adc(sf, t0, t1) ==
  LET dest == (t0 + t1 + CF) % 2^(2 * W)
  IN IF sf THEN dest ELSE extrl(dest)

\* The carry of the first addition is the high half of the second.
gen_adc_CC(sf, t0, t1) ==
  LET n == bitsize(sf)
      a == t0 % 2^n
      b == t1 % 2^n
      first == add2(n, a, 0, CF, 0)
      sum == add2(n, first.lo, first.hi, b, 0)
  IN NZ(sf, sum.lo) @@ [dest |-> sum.lo, CF |-> extrl(sum.hi),
                        VF |-> Overflow(sf, andc(n, sum.lo ^^ a, a ^^ b))]

Deposit(x, k, bit) == x - ((x \div 2^k) % 2) * 2^k + (bit % 2) * 2^k
gen_get_nzcv ==
  Deposit(Deposit(Deposit(NF & 2^(W - 1), W - 2, IF ZF = 0 THEN 1 ELSE 0), W - 3, CF),
          W - 4, VF \div 2^(W - 1))

gen_set_nzcv(rt) ==
  LET nzcv == extrl(rt)
  IN [NF |-> nzcv & 2^(W - 1), ZF |-> IF nzcv & 2^(W - 2) = 0 THEN 1 ELSE 0,
      CF |-> (nzcv & 2^(W - 3)) \div 2^(W - 3), VF |-> (nzcv & 2^(W - 4)) * 2^3]

-----------------------------------------------------------------------------
(* Shifts, divisions and bit counts. *)
exts(len, x) == ((x % 2^len) + (IF (x % 2^len) >= 2^(len - 1) THEN 2^(2 * W) - 2^len ELSE 0))
signed(x) == IF x >= 2^(2 * W - 1) THEN x - 2^(2 * W) ELSE x
sar(x, s) == (signed(x) \div 2^s) % 2^(2 * W)
rotr(n, x, s) == (x \div 2^s) + ((x * 2^(n - s)) % 2^n)

ext_and_shift_reg(in, option, shift) ==
  LET len == (2 * W) \div 2^(3 - (option % 4))
      out == IF option >= 4 THEN exts(len, in) ELSE in % 2^len
  IN (out * 2^shift) % 2^(2 * W)

shift_reg(src, sf, type, amount) ==
  LET dst == CASE type = "LSL" -> (src * 2^amount) % 2^(2 * W)
               [] type = "LSR" -> src \div 2^amount
               [] type = "ASR" -> sar(IF sf THEN src ELSE exts(W, src), amount)
               [] type = "ROR" -> IF sf THEN rotr(2 * W, src, amount) ELSE rotr(W, extrl(src), amount)
  IN IF sf THEN dst ELSE extrl(dst)

udiv64(num, den) == IF den = 0 THEN 0 ELSE num \div den

\* C's division rounds to zero; the quotient of LLONG_MIN by -1 is no int64_t.
int64(q) == IF q \in -(2^(2 * W - 1)) .. 2^(2 * W - 1) - 1 THEN q % 2^(2 * W) ELSE "overflow"
Truncated(x, y) == LET q == (IF x < 0 THEN -x ELSE x) \div (IF y < 0 THEN -y ELSE y)
                   IN IF (x < 0) = (y < 0) THEN q ELSE -q
sdiv64(num, den) ==
  LET min == 2^(2 * W - 1)
  IN CASE den = 0 -> 0
       [] num = min /\ den = 2^(2 * W) - 1 -> min
       [] OTHER -> int64(Truncated(signed(num), signed(den)))

clz(n, x) == CHOOSE k \in 0 .. n : x < 2^(n - k) /\ (k = n \/ x >= 2^(n - k - 1))
clrsb(n, x) == clz(n, IF x >= 2^(n - 1) THEN 2^n - 1 - x ELSE x) - 1
revbit(n, x) == MapThenSumSet(LAMBDA k : ((x \div 2^k) % 2) * 2^(n - 1 - k), 0 .. n - 1)

cpu_reg_value(r, sf) == IF sf THEN X[r] ELSE extrl(X[r])

handle_div_value(i) ==
  LET operand(r) == IF i.op = "SDIV" /\ ~i.sf THEN exts(W, X[r]) ELSE cpu_reg_value(r, i.sf)
      quotient == IF i.op = "SDIV" THEN sdiv64(operand(0), operand(i.rm))
                  ELSE udiv64(operand(0), operand(i.rm))
  IN IF i.sf THEN quotient ELSE extrl(quotient)

handle_count_value(i) ==
  LET n == bitsize(i.sf)
      x == X[0] % 2^n
  IN CASE i.op = "CLZ" -> clz(n, x) [] i.op = "CLS" -> clrsb(n, x) [] i.op = "RBIT" -> revbit(n, x)

\* zlib's checksum complements the accumulator and the result, Linux's only the
\* result; the bytes are taken from a little-endian buffer.
ones(x) == x ^^ (2^W - 1)
shift_register(acc, val, bits, p) ==
  LET reg[k \in 0 .. bits] ==
        IF k = 0 THEN acc
        ELSE IF (reg[k - 1] + (val \div 2^(k - 1))) % 2 = 1 THEN (reg[k - 1] \div 2) ^^ revbit(W, p)
        ELSE reg[k - 1] \div 2
  IN reg[bits]
zlib_crc32(acc, val, bits) == ones(shift_register(ones(acc), val, bits, Polynomial["CRC32"]))
linux_crc32c(acc, val, bits) == ones(shift_register(acc, val, bits, Polynomial["CRC32C"]))

crc32_64(acc, val, bytes) == ones(zlib_crc32(ones(acc), val, bytes * (W \div 4)))
crc32c_64(acc, val, bytes) == ones(linux_crc32c(acc, val, bytes * (W \div 4)))

handle_crc32_value(i) ==
  LET bytes == 2^i.sz
      val == X[i.rm] % 2^(bytes * (W \div 4))
  IN IF i.op = "CRC32" THEN crc32_64(extrl(X[0]), val, bytes) ELSE crc32c_64(extrl(X[0]), val, bytes)

-----------------------------------------------------------------------------
(* The integer instructions. *)
SetFlags(f) == /\ NF' = f.NF
               /\ ZF' = f.ZF
               /\ CF' = f.CF
               /\ VF' = f.VF
KeepFlags == UNCHANGED <<NF, ZF, CF, VF>>

Arithmetic(i, f) == X' = [X EXCEPT ![i.rd] = f.dest] /\ SetFlags(f)
Result(i, value) == X' = [X EXCEPT ![i.rd] = value] /\ KeepFlags

disas_add_sub_value(i) ==
  \/ /\ i.op = "ADDS"
     /\ Arithmetic(i, gen_add_CC(i.sf, X[0], X[i.rm]))
  \/ /\ i.op = "SUBS"
     /\ Arithmetic(i, gen_sub_CC(i.sf, X[0], X[i.rm]))
  \/ /\ i.op = "ADDX"
     /\ Arithmetic(i, gen_add_CC(i.sf, X[0], ext_and_shift_reg(cpu_reg_value(i.rm, i.sf), i.option, i.shift)))

\* SBC adds the complement of the whole register.
disas_adc_sbc_value(i) ==
  LET rm == IF i.op \in {"SBC", "SBCS"} THEN 2^(2 * W) - 1 - X[i.rm] ELSE X[i.rm]
  IN \/ /\ i.op \in {"ADC", "SBC"}
        /\ Result(i, gen_adc(i.sf, X[0], rm))
     \/ /\ i.op \in {"ADCS", "SBCS"}
        /\ Arithmetic(i, gen_adc_CC(i.sf, X[0], rm))

disas_logic_value(i) ==
  /\ i.op = "ANDS"
  /\ LET rd == IF i.sf THEN X[0] & X[i.rm] ELSE extrl(X[0] & X[i.rm])
     IN Arithmetic(i, gen_logic_CC(i.sf, rd) @@ [dest |-> rd])

disas_data_proc_value(i) ==
  \/ /\ i.op \in Arch!Shifts
     /\ Result(i, shift_reg(cpu_reg_value(0, i.sf), i.sf, i.op, X[i.rm] & (bitsize(i.sf) - 1)))
  \/ /\ i.op \in Arch!Divides
     /\ Result(i, handle_div_value(i))
  \/ /\ i.op \in Arch!Counts
     /\ Result(i, handle_count_value(i))
  \/ /\ i.op \in Arch!Checksums
     /\ Result(i, handle_crc32_value(i))

handle_sys_nzcv(i) ==
  \/ /\ i.op = "MRS"
     /\ X' = [X EXCEPT ![i.rt] = gen_get_nzcv] /\ KeepFlags
  \/ /\ i.op = "MSR"
     /\ SetFlags(gen_set_nzcv(X[i.rt])) /\ UNCHANGED X

-----------------------------------------------------------------------------
(* Floats: softfloat, on operands, with the flags it raises. *)
signalling(a, b) == {e \in {"invalid"} : Arch!IsSNaN(a) \/ Arch!IsSNaN(b)}
squash(x) == IF fz /\ Arch!IsDenormal(x) THEN x - Arch!Frac(x) ELSE x
squashed(a, b) == {e \in {"idc"} : squash(a) # a \/ squash(b) # b}

float_muladd(a, b, c, halve) ==
  CASE Arch!IsNaN(a) \/ Arch!IsNaN(b) -> Arch!NaN
    [] Arch!IsInf(a) \/ Arch!IsInf(b) -> Arch!Inf((Arch!Sign(a) + Arch!Sign(b)) % 2)
    [] OTHER -> Arch!Num((Arch!Finer(c) + 2 * Arch!Value(a) * Arch!Value(b)) \div (IF halve THEN 2 ELSE 1))

float_compare(a, b) ==
  CASE Arch!IsNaN(a) \/ Arch!IsNaN(b) -> "unordered"
    [] Arch!Value(a) < Arch!Value(b) -> "less"
    [] Arch!Value(a) = Arch!Value(b) -> "equal"
    [] Arch!Value(a) > Arch!Value(b) -> "greater"

-----------------------------------------------------------------------------
(* The FP helpers. *)
SignBit == 2^(ExpBits + FracBits)
float_two == 2^(ExpBits + FracBits - 1)
float_three == float_two + 2^(FracBits - 1)
float_one_point_five == (2^(ExpBits - 1) - 1) * 2^FracBits + 2^(FracBits - 1)
chs(x) == x ^^ SignBit
ZeroTimesInfinity(a, b) == (Arch!IsZero(a) /\ Arch!IsInf(b)) \/ (Arch!IsInf(a) /\ Arch!IsZero(b))

float_rel_to_flags(res) ==
  CASE res = "equal" -> 2^(W - 2) + 2^(W - 3)
    [] res = "less" -> 2^(W - 1)
    [] res = "greater" -> 2^(W - 3)
    [] OTHER -> 2^(W - 3) + 2^(W - 4)

vfp_cmp(a, b) == gen_set_nzcv(float_rel_to_flags(float_compare(squash(a), squash(b))))

vfp_mulx(a, b) ==
  IF ZeroTimesInfinity(a, b) THEN Arch!Num(Arch!Finer(float_two | ((a ^^ b) & SignBit)))
  ELSE float_muladd(a, b, 0, FALSE)

recpsf(a, b) ==
  IF ZeroTimesInfinity(a, b) THEN Arch!Num(Arch!Finer(float_two))
  ELSE float_muladd(chs(a), b, float_two, FALSE)

rsqrtsf(a, b) ==
  IF ZeroTimesInfinity(a, b) THEN Arch!Num(Arch!Finer(float_one_point_five))
  ELSE float_muladd(chs(a), b, float_three, TRUE)

neon_compare(op, a, b) ==
  CASE op = "FCMEQ" -> float_compare(a, b) = "equal"
    [] op = "FCMGE" -> float_compare(b, a) \in {"less", "equal"}
    [] op = "FCMGT" -> float_compare(b, a) = "less"

frecpx(a) ==
  LET exp == Arch!Exp(a)
      mask == 2^ExpBits - 1
  IN IF Arch!IsNaN(a) THEN Arch!NaN
     ELSE Arch!Num(Arch!Finer((a & SignBit) | ((IF exp = 0 THEN mask - 1 ELSE andc(ExpBits, mask, exp)) * 2^FracBits)))

\* Narrowing by two bits, rounded to zero, in a status of its own.
float64_to_float32(m) == [r |-> m \div 4, exflags |-> {e \in {"inexact"} : m % 4 # 0}]
FcvtxSharedStatus(m) ==
  LET narrow == float64_to_float32(m)
      exflags == narrow.exflags \cup fpsr
  IN [r |-> IF "inexact" \in exflags THEN narrow.r | 1 ELSE narrow.r, exflags |-> exflags]
fcvtx_f64_to_f32(m) ==
  LET narrow == float64_to_float32(m)
  IN [r |-> IF "inexact" \in narrow.exflags THEN narrow.r | 1 ELSE narrow.r,
      exflags |-> narrow.exflags \cup fpsr]

FpOperation(i) ==
  LET a == squash(i.a)
      b == squash(i.b)
      signals == i.op \in {"FCMPE", "FCMGE", "FCMGT"} /\ float_compare(a, b) = "unordered"
      flags == squashed(i.a, i.b) \cup signalling(i.a, i.b) \cup {e \in {"invalid"} : signals}
  IN /\ fpsr' = fpsr \cup flags
     /\ UNCHANGED X
     /\ \/ /\ i.op \in Arch!FpCompare
           /\ SetFlags(vfp_cmp(i.a, i.b))
           /\ UNCHANGED R
        \/ /\ i.op \in Arch!VectorCompare
           /\ R' = Arch!Num((0 - (IF neon_compare(i.op, a, b) THEN 1 ELSE 0)) % (2 * SignBit))
           /\ KeepFlags
        \/ /\ i.op \in Arch!FpArithmetic
           /\ R' = CASE i.op = "FMULX" -> vfp_mulx(a, b)
                     [] i.op = "FRECPS" -> recpsf(a, b)
                     [] i.op = "FRSQRTS" -> rsqrtsf(a, b)
           /\ KeepFlags

FpUnary(i) ==
  /\ \/ /\ i.op = "FRECPX"
        /\ R' = frecpx(i.a)
        /\ fpsr' = fpsr \cup signalling(i.a, i.a)
     \/ /\ i.op = "FCVTXN"
        /\ R' = Arch!Num(fcvtx_f64_to_f32(i.m).r)
        /\ fpsr' = fcvtx_f64_to_f32(i.m).exflags
  /\ KeepFlags /\ UNCHANGED X

-----------------------------------------------------------------------------
(* Vectors: four lanes in a doubleword, added in pairs without a carry from   *)
(* one pair to the next.                                                      *)
Repeat(mask) == mask + mask * 2^(2 * Lane)
elementmask == Repeat(2^Lane - 1)
nsignmask == Repeat(2^(Lane - 1))
wsignmask == Repeat(2^(2 * Lane - 1))
DWord == 2^(4 * Lane)

neon_addlp_s8(a) ==
  LET widen(x) == (((((x & elementmask) ^^ nsignmask) | wsignmask) - nsignmask) % DWord) ^^ wsignmask
      tmp1 == widen(a)
      tmp2 == widen(a \div 2^Lane)
      res == andc(4 * Lane, tmp1, wsignmask) + andc(4 * Lane, tmp2, wsignmask)
  IN (res % DWord) ^^ ((tmp1 ^^ tmp2) & wsignmask)

neon_addlp_u(a) == (a & elementmask) + ((a \div 2^Lane) & elementmask)

neon_addlp_s16(a) ==
  LET int16(k) == LET x == (a \div 2^(k * Lane)) % 2^Lane
                  IN IF x >= 2^(Lane - 1) THEN x - 2^Lane ELSE x
      reslo == (int16(0) + int16(1)) % 2^(2 * Lane)
      reshi == (int16(2) + int16(3)) % 2^(2 * Lane)
  IN reslo | (reshi * 2^(2 * Lane))

movcond(chosen, x, y) == IF chosen THEN x ELSE y
int32(x) == IF x >= 2^(W - 1) THEN x - 2^W ELSE x
gen_minmax_32(op, x, y) ==
  CASE op = "SMAX" -> movcond(int32(x) >= int32(y), x, y)
    [] op = "UMAX" -> movcond(x >= y, x, y)
    [] op = "SMIN" -> movcond(int32(x) <= int32(y), x, y)
    [] op = "UMIN" -> movcond(x <= y, x, y)

\* The byte that an index reads, as the half register and the byte of it.
simd_tbl(rn, numregs, index) ==
  LET elt == (rn * 2 + (index \div HalfBytes)) % (2 * VRegs)
  IN IF index < 2 * HalfBytes * numregs
     THEN <<"byte", elt \div 2, (elt % 2) * HalfBytes + (index % HalfBytes)>>
     ELSE <<>>

VectorOperation(i) ==
  /\ R' = CASE i.op \in Arch!VectorMinMax -> Arch!Num(gen_minmax_32(i.op, i.x, i.y))
            [] i.op = "TBL" -> simd_tbl(i.rn, i.numregs, i.index)
            [] i.op = "UADDLP" -> Arch!Num(neon_addlp_u(i.v))
            [] i.op = "SADDLP" /\ i.bytes -> Arch!Num(neon_addlp_s8(i.v))
            [] i.op = "SADDLP" /\ ~i.bytes -> Arch!Num(neon_addlp_s16(i.v))
  /\ KeepFlags /\ UNCHANGED <<X, fpsr>>

-----------------------------------------------------------------------------
AluInit ==
  /\ X \in [0 .. 1 -> Operands]
  /\ \E nzcv \in 0 .. 15 : LET f == gen_set_nzcv(nzcv * 2^(W - 4))
                           IN NF = f.NF /\ ZF = f.ZF /\ CF = f.CF /\ VF = f.VF
  /\ fz \in BOOLEAN
  /\ fpsr \in SUBSET {"idc", "invalid", "inexact"}
  /\ R = <<>>
  /\ insn = <<>>

\* One instruction.
Execute(i) ==
  /\ insn' = i
  /\ UNCHANGED fz
  /\ \/ /\ i \in Arch!Integer \cup Arch!Extended \cup Arch!Checksum \cup Arch!System
        /\ \/ disas_add_sub_value(i)
           \/ disas_adc_sbc_value(i)
           \/ disas_logic_value(i)
           \/ disas_data_proc_value(i)
           \/ handle_sys_nzcv(i)
        /\ UNCHANGED <<fpsr, R>>
     \/ i.op \in Arch!FpArithmetic \cup Arch!FpCompare \cup Arch!VectorCompare /\ FpOperation(i)
     \/ i.op \in {"FRECPX", "FCVTXN"} /\ FpUnary(i)
     \/ i \in Arch!Vector /\ VectorOperation(i)

-----------------------------------------------------------------------------
\* What the emitted code and the helpers leave in the registers and in the four
\* flag words is, for every instruction and after every sequence of them, what
\* the architecture says: the two-step addition of ADCS loses no carry, SDIV of
\* the smallest integer by -1 is defined, the table of TBL wraps around from
\* the last vector register to the first, the packed addition of SADDLP carries
\* nothing into the next pair, and an inexact narrowing does not depend on the
\* exceptions an earlier instruction has left in the FPSR.
ImplementsArch == Arch!Spec
=============================================================================
