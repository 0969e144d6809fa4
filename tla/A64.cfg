SPECIFICATION MCLiveSpec
CONSTANT TMP_A64_MAX = 16
CONSTANT features = {"V8_AES", "V8_SHA1", "V8_SHA256"}
CONSTANT W = 4
CONSTANT Operands <- MCOperands
CONSTANT Floats <- MCFloats
CONSTANT ExpBits = 2
CONSTANT FracBits = 2
CONSTANT Polynomial <- MCPolynomial
CONSTANT Lane = 2
CONSTANT VRegs = 3
CONSTANT HalfBytes = 2
CONSTANT insns <- AllInsns
CONSTANT max_insns = 3
CONSTANT PAGE_INSNS = 4
CHECK_DEADLOCK FALSE
INVARIANT OnlyBigElementsAbort
INVARIANT FpAccessCheckedButCrypto
INVARIANT TrapsHaveNoEffect
INVARIANT SourcesReadFirst
INVARIANT FinishesCleanly
INVARIANT AssertsHold
INVARIANT LeavesWithPc
INVARIANT StepTraps
INVARIANT BranchRecorded
PROPERTY ImplementsArch
PROPERTY Terminates
