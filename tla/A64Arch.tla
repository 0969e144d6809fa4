------------------------------ MODULE A64Arch -------------------------------
(***************************************************************************)
(* What data-processing instructions of A64 do to the registers and flags   *)
(* of the guest, in integers: the abstract specification of A64Alu.  A word *)
(* register has W bits, a doubleword register 2 * W; a float has a sign,    *)
(* ExpBits of exponent and FracBits of fraction, and the result of an       *)
(* operation is given before it is rounded.                                 *)
(***************************************************************************)
EXTENDS Integers, FiniteSets, FiniteSetsExt

CONSTANTS W,
          Operands,           \* the contents of registers
          Floats,             \* operands of FP instructions
          ExpBits, FracBits,
          Polynomial,         \* of CRC32 and CRC32C, without its highest term
          Lane, VRegs, HalfBytes  \* vectors: bits of a lane; registers; bytes of half a register

VARIABLES X,       \* the general registers
          pstate,  \* N, Z, C and V
          fz,      \* FPCR.FZ
          fpsr,    \* cumulative exceptions
          R,       \* what an FP or vector instruction has computed
          insn     \* the last instruction

----------------------------------------------------------------------------
SetsFlags == {"ADDS", "SUBS", "ADCS", "SBCS", "ANDS"}
Shifts == {"LSL", "LSR", "ASR", "ROR"}
Divides == {"UDIV", "SDIV"}
Counts == {"CLZ", "CLS", "RBIT"}
Checksums == {"CRC32", "CRC32C"}
FpArithmetic == {"FMULX", "FRECPS", "FRSQRTS"}
FpCompare == {"FCMP", "FCMPE"}
VectorCompare == {"FCMEQ", "FCMGE", "FCMGT"}
VectorMinMax == {"SMAX", "UMAX", "SMIN", "UMIN"}

Integer == [op : SetsFlags \cup {"ADC", "SBC"} \cup Shifts \cup Divides \cup Counts,
            sf : BOOLEAN, rd : 0 .. 1, rm : 0 .. 1]
Extended == [op : {"ADDX"}, sf : BOOLEAN, rd : 0 .. 1, rm : {1}, option : 0 .. 7, shift : 0 .. 2]
Checksum == [op : Checksums, sz : 0 .. 3, rd : 0 .. 1, rm : 0 .. 1]
System == [op : {"MRS", "MSR"}, rt : 0 .. 1]
Fp == [op : FpArithmetic \cup FpCompare \cup VectorCompare, a : Floats, b : Floats]
      \cup [op : {"FRECPX"}, a : Floats] \cup [op : {"FCVTXN"}, m : 0 .. 15]
Vector == [op : {"SADDLP", "UADDLP"}, bytes : BOOLEAN, v : 0 .. 2^(4 * Lane) - 1]
          \cup [op : VectorMinMax, x : 0 .. 2^W - 1, y : 0 .. 2^W - 1]
          \cup [op : {"TBL"}, rn : 0 .. VRegs - 1, numregs : 1 .. VRegs, index : 0 .. 2 * VRegs * HalfBytes]
Insns == Integer \cup Extended \cup Checksum \cup System \cup Fp \cup Vector

----------------------------------------------------------------------------
(* Integers. *)
Bits(sf) == IF sf THEN 2 * W ELSE W
UInt(x, n) == x % 2^n
SInt(x, n) == LET u == UInt(x, n) IN IF u >= 2^(n - 1) THEN u - 2^n ELSE u
BitAt(x, k) == (x \div 2^k) % 2
Bool(b) == IF b THEN 1 ELSE 0

AddWithCarry(n, x, y, c) ==
  LET u == UInt(x, n) + UInt(y, n) + c
      r == UInt(u, n)
  IN [r |-> r, N |-> r >= 2^(n - 1), Z |-> r = 0, C |-> u # r, V |-> SInt(x, n) + SInt(y, n) + c # SInt(r, n)]

Not(x) == 2^(2 * W) - 1 - x

(* A value of at most 8, 16, 32 or 64 bits is extended and then shifted. *)
ExtendReg(x, n, option, shift) ==
  LET len == Min({(2 * W) \div 2^(3 - (option % 4)), n - shift})
  IN (IF option >= 4 THEN SInt(x, len) ELSE UInt(x, len)) * 2^shift

Sum(i) ==
  LET n == Bits(i.sf)
      x == X[0]
      y == X[i.rm]
      c == Bool(pstate.C)
  IN CASE i.op = "ADDS" -> AddWithCarry(n, x, y, 0)
       [] i.op = "SUBS" -> AddWithCarry(n, x, Not(y), 1)
       [] i.op \in {"ADC", "ADCS"} -> AddWithCarry(n, x, y, c)
       [] i.op \in {"SBC", "SBCS"} -> AddWithCarry(n, x, Not(y), c)
       [] i.op = "ADDX" -> AddWithCarry(n, x, ExtendReg(y, n, i.option, i.shift), 0)

Conjunction(i) ==
  LET n == Bits(i.sf)
      r == MapThenSumSet(LAMBDA k : BitAt(X[0], k) * BitAt(X[i.rm], k) * 2^k, 0 .. n - 1)
  IN [r |-> r, N |-> r >= 2^(n - 1), Z |-> r = 0, C |-> FALSE, V |-> FALSE]

(* Floor of the quotient for a shift, and its rounding to zero for a division. *)
Quotient(x, y) == IF y = 0 THEN 0
                  ELSE LET q == (IF x < 0 THEN -x ELSE x) \div (IF y < 0 THEN -y ELSE y)
                       IN IF (x < 0) # (y < 0) THEN -q ELSE q

Other(i) ==
  LET n == Bits(i.sf)
      x == X[0]
      s == X[i.rm] % n
      leading(k) == \A j \in k .. n - 2 : BitAt(x, j) = BitAt(x, n - 1)
  IN CASE i.op = "LSL" -> UInt(x, n) * 2^s
       [] i.op = "LSR" -> UInt(x, n) \div 2^s
       [] i.op = "ASR" -> SInt(x, n) \div 2^s
       [] i.op = "ROR" -> UInt(x, n) \div 2^s + UInt(x, s) * 2^(n - s)
       [] i.op = "UDIV" -> Quotient(UInt(x, n), UInt(X[i.rm], n))
       [] i.op = "SDIV" -> Quotient(SInt(x, n), SInt(X[i.rm], n))
       [] i.op = "CLZ" -> n - Max({0} \cup {k \in 1 .. n : BitAt(x, k - 1) = 1})
       [] i.op = "CLS" -> n - 1 - Min({k \in 0 .. n - 1 : leading(k)})
       [] i.op = "RBIT" -> MapThenSumSet(LAMBDA k : BitAt(x, k) * 2^(n - 1 - k), 0 .. n - 1)

ExecuteInteger(i) ==
  LET added == i.op \in {"ADDS", "SUBS", "ADC", "ADCS", "SBC", "SBCS", "ADDX"}
      s == IF added THEN Sum(i) ELSE Conjunction(i)
  IN /\ X' = [X EXCEPT ![i.rd] = UInt(IF added \/ i.op = "ANDS" THEN s.r ELSE Other(i), Bits(i.sf))]
     /\ pstate' = IF i.op \in SetsFlags \cup {"ADDX"} THEN [f \in DOMAIN pstate |-> s[f]] ELSE pstate
     /\ UNCHANGED <<fpsr, R>>

(* The remainder of the accumulator and the value, as polynomials over the     *)
(* integers modulo 2 whose highest term is the lowest bit, by the polynomial.  *)
Reflect(x, n) == MapThenSumSet(LAMBDA k : BitAt(x, k) * 2^(n - 1 - k), 0 .. n - 1)
Plus(x, y, n) == MapThenSumSet(LAMBDA k : ((BitAt(x, k) + BitAt(y, k)) % 2) * 2^k, 0 .. n - 1)

Remainder(dividend, p, n) ==
  LET rest[k \in 0 .. n] == \* less the multiples of p at the places W + k and above
        IF k = n THEN dividend
        ELSE IF BitAt(rest[k + 1], W + k) = 1 THEN Plus(rest[k + 1], (2^W + p) * 2^k, W + n)
        ELSE rest[k + 1]
  IN rest[0]

ExecuteChecksum(i) ==
  LET n == (W \div 4) * 2^i.sz
      dividend == Plus(Reflect(X[0], W) * 2^n, Reflect(X[i.rm], n) * 2^W, W + n)
  IN /\ X' = [X EXCEPT ![i.rd] = Reflect(Remainder(dividend, Polynomial[i.op], n), W)]
     /\ UNCHANGED <<pstate, fpsr, R>>

(* NZCV is in the top four bits of a word. *)
ExecuteSystem(i) ==
  /\ IF i.op = "MRS"
     THEN /\ X' = [X EXCEPT ![i.rt] = Bool(pstate.N) * 2^(W - 1) + Bool(pstate.Z) * 2^(W - 2)
                                      + Bool(pstate.C) * 2^(W - 3) + Bool(pstate.V) * 2^(W - 4)]
          /\ UNCHANGED pstate
     ELSE /\ LET x == X[i.rt]
             IN pstate' = [N |-> BitAt(x, W - 1) = 1, Z |-> BitAt(x, W - 2) = 1,
                           C |-> BitAt(x, W - 3) = 1, V |-> BitAt(x, W - 4) = 1]
          /\ UNCHANGED X
  /\ UNCHANGED <<fpsr, R>>

----------------------------------------------------------------------------
(* Floats. *)
Sign(x) == x \div 2^(ExpBits + FracBits)
Exp(x) == (x \div 2^FracBits) % 2^ExpBits
Frac(x) == x % 2^FracBits
AllOnes == 2^ExpBits - 1
IsNaN(x) == Exp(x) = AllOnes /\ Frac(x) # 0
IsSNaN(x) == IsNaN(x) /\ Frac(x) < 2^(FracBits - 1)
IsInf(x) == Exp(x) = AllOnes /\ Frac(x) = 0
IsZero(x) == Exp(x) = 0 /\ Frac(x) = 0
IsDenormal(x) == Exp(x) = 0 /\ Frac(x) # 0

(* The value, in units of the smallest denormal.  Results are in a finer unit, *)
(* in which the product of two values and half of it are integers.           *)
Value(x) == (IF Sign(x) = 1 THEN -1 ELSE 1)
            * (IF Exp(x) = 0 THEN Frac(x) ELSE (2^FracBits + Frac(x)) * 2^(Exp(x) - 1))
One == 2^FracBits
Finer(x) == 2 * One * Value(x)
NaN == <<"nan">>
Inf(sign) == <<"inf", sign>>
Num(v) == <<"num", v>>

Input(x) == IF fz /\ IsDenormal(x) THEN x - Frac(x) ELSE x
Raised(i) == {e \in {"idc"} : fz /\ (IsDenormal(i.a) \/ IsDenormal(i.b))}
             \cup {e \in {"invalid"} : IsSNaN(i.a) \/ IsSNaN(i.b)}

(* (offset + a * b) / half, where infinity times zero counts as special. *)
Fused(a, b, negate, offset, half, special) ==
  LET sign == (Sign(a) + Sign(b) + Bool(negate)) % 2
      times == IF negate THEN -1 ELSE 1
  IN IF IsNaN(a) \/ IsNaN(b) THEN NaN
     ELSE IF (IsInf(a) /\ IsZero(b)) \/ (IsZero(a) /\ IsInf(b)) THEN Num(special)
     ELSE IF IsInf(a) \/ IsInf(b) THEN Inf(sign)
     ELSE Num((2 * One * One * offset + times * 2 * Value(a) * Value(b)) \div half)

FpResult(i) ==
  LET a == Input(i.a)
      b == Input(i.b)
      minus == IF Sign(a) # Sign(b) THEN -1 ELSE 1
  IN CASE i.op = "FMULX" -> Fused(a, b, FALSE, 0, 1, minus * 4 * One * One)
       [] i.op = "FRECPS" -> Fused(a, b, TRUE, 2, 1, 4 * One * One)
       [] i.op = "FRSQRTS" -> Fused(a, b, TRUE, 3, 2, 3 * One * One)

Less(a, b) == Value(a) < Value(b)
VectorResult(i) ==
  LET a == Input(i.a)
      b == Input(i.b)
  IN /\ ~IsNaN(a) /\ ~IsNaN(b)
     /\ CASE i.op = "FCMEQ" -> Value(a) = Value(b)
          [] i.op = "FCMGE" -> ~Less(a, b)
          [] i.op = "FCMGT" -> Less(b, a)

ExecuteFp(i) ==
  LET a == Input(i.a)
      b == Input(i.b)
      unordered == IsNaN(a) \/ IsNaN(b)
      signals == i.op \in {"FCMPE", "FCMGE", "FCMGT"} /\ unordered
  IN /\ fpsr' = fpsr \cup Raised(i) \cup {e \in {"invalid"} : signals}
     /\ pstate' = IF i.op \notin FpCompare THEN pstate
                  ELSE [N |-> ~unordered /\ Less(a, b), Z |-> ~unordered /\ Value(a) = Value(b),
                        C |-> unordered \/ ~Less(a, b), V |-> unordered]
     /\ R' = IF i.op \in FpArithmetic THEN FpResult(i)
             ELSE IF i.op \in FpCompare THEN R
             ELSE Num(IF VectorResult(i) THEN 2^(1 + ExpBits + FracBits) - 1 ELSE 0)
     /\ UNCHANGED X

(* The exponent is complemented; the largest finite one for zero. *)
ExecuteRecpx(i) ==
  /\ R' = IF IsNaN(i.a) THEN NaN
          ELSE Num(Finer(Sign(i.a) * 2^(ExpBits + FracBits)
                         + 2^FracBits * (IF Exp(i.a) = 0 THEN AllOnes - 1 ELSE AllOnes - Exp(i.a))))
  /\ fpsr' = fpsr \cup {e \in {"invalid"} : IsSNaN(i.a)}
  /\ UNCHANGED <<X, pstate>>

(* Narrowing by two bits, rounded to odd: of the two neighbours of a value    *)
(* that is not exact, the odd one, so that rounding again is not rounding    *)
(* twice.                                                                    *)
ExecuteCvtx(i) ==
  LET exact == i.m % 4 = 0
  IN /\ R' = IF exact THEN Num(i.m \div 4)
             ELSE Num(CHOOSE r \in {i.m \div 4, i.m \div 4 + 1} : r % 2 = 1)
     /\ fpsr' = fpsr \cup {e \in {"inexact"} : ~exact}
     /\ UNCHANGED <<X, pstate>>

----------------------------------------------------------------------------
(* Vectors.  Neighbouring lanes are added into a lane twice as wide. *)
Lanes(v, k) == (v \div 2^(k * Lane)) % 2^Lane

VectorSum(i) ==
  LET value(k) == IF i.op = "SADDLP" THEN SInt(Lanes(i.v, k), Lane) ELSE Lanes(i.v, k)
  IN MapThenSumSet(LAMBDA k : UInt(value(2 * k) + value(2 * k + 1), 2 * Lane) * 2^(2 * k * Lane), 0 .. 1)

(* Of two words. *)
MinMax(i) ==
  LET value(x) == IF i.op \in {"SMAX", "SMIN"} THEN SInt(x, W) ELSE x
      m == IF i.op \in {"SMAX", "UMAX"} THEN Max({value(i.x), value(i.y)}) ELSE Min({value(i.x), value(i.y)})
  IN UInt(m, W)

(* A byte of the table: register and byte in it; or none. *)
TableByte(i) ==
  IF i.index < 2 * HalfBytes * i.numregs
  THEN <<"byte", (i.rn + i.index \div (2 * HalfBytes)) % VRegs, i.index % (2 * HalfBytes)>>
  ELSE <<>>

ExecuteVector(i) ==
  /\ R' = IF i.op = "TBL" THEN TableByte(i)
          ELSE Num(IF i.op \in VectorMinMax THEN MinMax(i) ELSE VectorSum(i))
  /\ UNCHANGED <<X, pstate, fpsr>>

----------------------------------------------------------------------------
Init ==
  /\ X \in [0 .. 1 -> Operands]
  /\ pstate \in [{"N", "Z", "C", "V"} -> BOOLEAN]
  /\ fz \in BOOLEAN /\ fpsr \subseteq {"idc", "invalid", "inexact"} /\ R = <<>> /\ insn = <<>>

Execute(i) ==
  CASE i.op = "FRECPX" -> ExecuteRecpx(i)
    [] i.op = "FCVTXN" -> ExecuteCvtx(i)
    [] i.op \in FpArithmetic \cup FpCompare \cup VectorCompare -> ExecuteFp(i)
    [] i.op \in {"SADDLP", "UADDLP", "TBL"} \cup VectorMinMax -> ExecuteVector(i)
    [] i.op \in Checksums -> ExecuteChecksum(i)
    [] i.op \in {"MRS", "MSR"} -> ExecuteSystem(i)
    [] OTHER -> ExecuteInteger(i)

Next == insn' \in Insns /\ Execute(insn') /\ UNCHANGED fz

Spec == Init /\ [][Next]_<<X, pstate, fz, fpsr, R, insn>>
=============================================================================
