# A TLA+ verification project for Branch_prediction_whats_left

The repository extracts branch records (pc, target, taken/not taken) from a
program that runs under QEMU, and evaluates branch predictors on them. This
directory holds TLA+ models of the code, the TLC runs that check them and the
TLAPS proofs about them. Paths below are relative to the repository; `SHM` is
`src_and_configurations/Src_for_shm_tage`, `CBP` is `other_files/cbp2016.eval`.

## 1. Inventory

| Component | State | Operations | Interacts with |
|---|---|---|---|
| Shared-memory channel, client: `HELPER(printer)` in `SHM/qemu_src_shm/helper-a64.c:65-148` | statics `firstTime`, `cnt`, handles | one call per executed branch: attach, or store a record, publish a sector, or wait | QEMU's generated code calls it; shared memory and three semaphores with the server |
| Shared-memory channel, server: `SHM/src_predictor_shm/server.c` | `status`, `nextToRead`, `nextToWrite`, two sectors of NDATA cells, semaphores `statusMutex`, `clientWrote`, `serverRead` | set-up, loop over sectors, hand a sector back, finish | calls the TAGE predictor for each record |
| TAGE tables: `get_prediction.h`, `update_predictor.h`, `tage_predictor.h`, `common_var.h` | `bimodal`, `tagPred`, `altBetterCount`, `clock`, `clock_flip`, and the lookup that one call leaves to the next | `get_prediction`, `update_predictor` | fed by `server.c` or by `predictor.c` (same code in `BP_read_from_file/TAGE_PREDICTOR`) |
| TAGE histories: same files | `ghr`, `phr`, the compressed histories | end of `update_predictor`, `compute_history` | inputs of the index and tag hashes |
| Bimodal predictor: `BP_read_from_file/BIMODAL_PREDICTOR/branch.c` | table of 1024 chains, two counts | `bimodal_implementation`, `size_counter` | reads the trace file |
| Trace file: `Src_qemu_tofile/helper-a64.c:39-66`, `acquire`, `predictor.c:117-124`, dump `UINT64_TO_READABLE/read.c` | static buffer of 42 records; the file; the dump's block | buffered append; one record per `acquire`; one block per `fread` | QEMU sessions on one side, predictors and dump on the other |
| A64 translator: `SHM/qemu_src_shm/translate-a64.c` | `DisasContext`, the code emitted for one block | decoder, one handler per encoding class, the translation loop | emits the calls of `HELPER(printer)` that make the branch records |
| A64 run-time helpers: rest of `SHM/qemu_src_shm/helper-a64.c` | flags and FP status of the guest | divide, CRC, table lookup, FP compare, estimate, convert | called by the emitted code |
| CBP trace reader and simulator: `CBP/sim/bt9.h`, `bt9_reader.h`, `main.cc`, `predictor_gshare.h` | node and edge tables, a window of two half buffers over the edge sequence, counts | parse, advance, predict, count | feeds any of the predictors |
| CBP simulated predictor: `CBP/sim/predictor.cc` | six TAGEs over path spectra, COLT, combiner, corrector, histories | `GetPrediction`, `UpdatePredictor`, `TrackOtherInst` | `main.cc` |
| Submission `StephenPruett/cbp64KB` | tables dealt out among histories, victim cache, loop predictor, corrector | the same three, and `reconfigure` | `main.cc` |
| Submission `DanielJimenez2/cbp64KB` | TAGE, loop predictor, perceptron over features of the past | the same three | `main.cc` |
| Demo client and server, socket version, other submissions, Dhrystone, CoreMark, bare-metal guest | | see section 6 | |

What is hard here, and what correctness means:

* **Channel.** Two processes share memory and three semaphores. Each looks at
  `status` under the mutex, releases it, works on a sector without any lock, and
  later changes `status` on the strength of what it saw. Correct means: never
  both on one sector; the predictor gets the stored records once and in order;
  neither `switch` takes its error exit; nobody waits for ever while the other
  runs; records are dropped no more often than the protocol implies.
* **TAGE.** One long sequential computation whose tables are touched by
  training, allocation and periodic reset in turn. Correct means: useful entries
  protected, unused entries reclaimed, a constant branch learnt; an incremental
  fold equal to the fold of the last outcomes.
* **Bimodal.** Each branch once in the right chain.
* **Trace.** A buffer that is lost when QEMU stops, sessions that append to one
  file, readers that run at the same time.
* **Translator.** Some two hundred handlers each make their own checks, in their
  own order. Correct means: no encoding reaches an assertion; an instruction that
  traps has had no effect; no source is read after the destination in its place
  was written; whichever way the emitted code takes, it leaves the block with the
  PC stored, and an immediate branch makes exactly one record; what the emitted
  code computes is what the architecture says.
* **Championship predictors.** Prediction and update are separate calls which
  compute the same indices twice, with histories, thresholds and table
  assignments that move in between. Correct means: what is trained is what was
  read; the histories are what their names say; storage is neither lost nor used
  twice.

The hazards, each at its line, are in `PROJECT.json`.

## 2. Modules

| Module | Models | Uses |
|---|---|---|
| `ShmTransfer` | the channel: server set-up, server loop, whole helper call; its inductive invariant | |
| `MCShmTransfer` | the channel with one marked record, for TLC | `ShmTransfer` |
| `BranchStream` | what the channel promises: a lossy bounded FIFO of blocks | |
| `ShmTransferProofs` | theorems about the channel | `ShmTransfer`, `BranchStream` |
| `Tage` | the TAGE tables | |
| `TageAging` | `Tage` with the number of resets an entry has seen | `Tage` |
| `TageLearning` | `Tage` fed by a program that settles | `Tage` |
| `TageProofs` | theorems about the tables | `TageAging` |
| `TageHistory` | `compute_history` and the registers it is fed from | |
| `TageHistoryProofs` | theorems about the compressed histories | `TageHistory` |
| `Bimodal` | the chained bimodal table and its report | |
| `BimodalProofs` | theorems about the chains | `Bimodal` |
| `TraceFile` | writer sessions, trace file, reading predictor, dump | |
| `TraceFileProofs` | theorems about the trace | `TraceFile` |
| `MCFileReaders` | trace file, bimodal table and histories in one instance, for TLC | `TraceFile`, `Bimodal`, `TageHistory` |
| `A64Effects` | the effects a handler can have, and the helpers of the translator | |
| `A64Branch`, `A64LoadStore`, `A64DataProc`, `A64Fp`, `A64SimdMove`, `A64SimdShift`, `A64SimdTwo`, `A64SimdThree` | the handlers, section by section of the encoding, and the decode table of the vector instructions | `A64Effects` |
| `A64Insn` | the top of the decoder; one instruction: its effects one after the other | all of these |
| `A64Block` | the translation loop and one path through what it emits | |
| `A64BlockProofs` | theorems about blocks of any length | `A64Block` |
| `A64Alu` | what emitted code and helpers compute | `A64Arch` |
| `A64Arch` | the abstract specification of `A64Alu` | |
| `MCA64` | model-checking instance of instructions, arithmetic and blocks | `A64Insn`, `A64Alu`, `A64Block` |
| `Bt9Reader` | records of the trace format; header, tables and window of the reader | |
| `Gshare`, `CbpEval`, `CbpEvalProofs`, `MCCbpEval` | gshare; `main.cc` with any predictor; its theorems; trace files to start with | `Bt9Reader` |
| `PoTage`, `PoTagePredictor`, `MCPoTage` | one TAGE with its path histories; the predictor of `CBP/sim` | |
| `CbpProgram` | the branches a submission is given, and its random draws | |
| `HpsTage`, `HpsSide`, `HpsPredictor` | Pruett's TAGE with its reconfiguration; loop predictor and corrector; predictor | `CbpProgram` |
| `MppPredictor` | Jimenez's predictor and the features of its perceptron | `HpsSide`, `CbpProgram` |
| `Submissions` | a program given to either of the two | `HpsPredictor`, `MppPredictor` |
| `SubmissionsProofs` | theorems about the two submissions | `Submissions` |
| `MCSubmissions` | both submissions on small programs | `Submissions` |

Wrong variants of a definition stand in front of it, with a comment that says
what is wrong; each property is known to fail when its variant is substituted
(`mutants` in `PROJECT.json`).

### ShmTransfer

`cpc` and `spc` are the program counters of helper and server; each action is
one system call or one run of statements that touches shared state, so every
interleaving that matters to the other side is a behaviour. `status` is read by
each `switch` in one step (`ServerSwitch`, `ClientSwitch`) and written in
another, so that the mutex is what makes the pair atomic. The records' contents
are opaque. `sent`, `analysed` and `lost` are history variables: the records
stored, those given to the predictor, the calls that returned without storing.

The shared-memory object may be left over from an earlier session with any
flags in it (`Init`). Semaphore names are fresh, as the repository's README asks
for every launch; the committed sources even disagree on them (`-x1` in
`server.c:23-25`, `-x0` in `helper-a64.c:50-52`), and the model takes them to be
the same. The set-up calls and the attaching calls may fail, and the process
then exits. `sem_wait` interrupted by a signal is not modelled (its result is
ignored where the code calls it in the loop).

A helper call that finds `status = 3` waits on `serverRead` and returns: the
record of that call is dropped. It also waits only once, so the posts that
`serverRead` has accumulated let calls through one by one, each dropping a
record. The attaching call drops its record too.

### Tage, TageAging, TageLearning

`Predict` is `get_prediction`, `Update` is `update_predictor` up to the reset
logic; `look` carries what the first leaves in `struct predictor` for the second
and is reset to `NoLook` in between, because nothing reads it there. The index
and tag of each bank are arbitrary inputs of `Predict`: an over-approximation of
every hash, history and program, so invariants hold for the real ones.
`high` stands for `randNo > 33`. Three oddities are kept as they are:

* `bank_store` holds bank i in slot i and -1 elsewhere, but is read as if it
  were packed. It has NUMTAGTABLES - 1 slots, and slot 3 is used when all four
  banks miss; in the committed binary that slot is padding (the array lies at
  -0x30(%rbp), the next object at -0x18), so the model gives it a slot.
* line 97's `if` ends in a semicolon, so the loop that ages useful entries never
  runs: `Allocate` has no such branch. `FailedAllocationAges` says what the
  comment at line 100 says, and fails; `UsefulLostByProvider` says how entries
  lose usefulness instead.
* line 86 of `get_prediction.h` is always true; `UsesProvider` keeps its form.

`TageAging` adds `resets[b][x]`, the number of resets an entry has seen since its
`u` last grew. `TageLearning` adds a program that goes any way for `MaxWander`
branches and then always the same way, with lookups that stay arbitrary.

### TageHistory

A register is a function from bit positions to {0, 1}, so `compute_history`'s
shift, carry, exclusive-or and mask are one function constructor. It is run
twice: on the outcomes themselves (`exactHist`), which is what `FoldExact`
judges, and on the `ghr` that the code keeps, in which the in-place shift leaves
the last outcome and copies of the one before. `LastOutcomesFolded` demands of
the fold of that register what `common_var.h:42-43` says of it, and fails;
`NothingLeaves`, which is proved, says what becomes of the fold instead. The
write to `ghr[GHRLNGTH]` falls into the padding between `ghr` and `phr`.

### Bimodal, TraceFile

`Bimodal` takes `APHash(PC) % 1024` to be any function, chosen in `Init`. `ideal`
is a history variable: the counter each branch would have if it had its own. In
`TraceFile` a session's branches are kept in `executed`, and where the trace
ended when it began in `start` (both history variables); stopping QEMU, or a
failing `fopen` (the helper then calls `fwrite` on a null stream), loses the
buffer. `cicle`, whose test is always true for fewer than 2^31 buffers, is left
out. Predictor and dump open the trace in a step of their own; neither looks at
what `fopen` returns, and without a trace its first `fread` gets a null stream
(`Opened`, outcome `"crashed"`). `Dump` is one `fread` of `read.c` and what is
printed of the block, read or not; the first block that cannot be filled leaves
what the stack held.

### A64Effects to A64Insn

A handler is an operator from the fields of an instruction to the sequence of
effects that the C function has: checks it makes, temporaries it takes, bytes of
vector registers it reads and writes, memory accesses, write-back, helper calls,
jumps and exits in the emitted code. Loops over elements are unrolled by `Loop`,
since the order of their reads and writes is the point. The TCG operations in
between are one effect, `"op"`. `disas_a64_insn` is the set of the sequences of
every encoding, over all fields that a handler looks at; the numbers of the
vector registers are left out and taken to be equal, the worst case for
aliasing. `A64Insn` runs one sequence, an effect per step, with FP accesses
trapped or not. `be_data` is 0 or 8 (`MO_BE`), and FMOV between registers comes
with every combination of its fields. A load that writes a general register does
so right after its access (`"gpr_write"`), before a second access of the same
instruction. The helpers of the cryptographic extension are given the numbers of
vector registers (`"crypto_helper"`).

### A64Block

`gen_intermediate_code_internal_a64` fetches instructions, any of those that
`disas_a64_insn` yields (as their control flow only), until something ends the
block, and appends the exit that `is_jmp` asks for. In the same step an execution
path goes through what is emitted: at a conditional jump it is chosen whether
the path jumps, and code the path does not take is translated all the same. So
the translator's state (`pstate_ss`, `is_jmp`, the `goto_tb` slots) and the
path's (`pc`, `ss_clear`, `printed`) can disagree, which is what can go wrong.

### A64Alu and A64Arch

`A64Alu` computes with the flags in four words, as `CPUARMState` keeps them, and
with the formulas of the translator (carry by double-width addition, overflow by
exclusive-or, shifts by masked amounts, divisions with their two exceptions) and
of the helpers (`fcvtx`, `frecpx`, `mulx`, `neon_ceq`, `simd_tbl`, CRC, ...).
`A64Arch` says in integers and exact fractions what the instructions do to
registers and flags. `ImplementsArch` is the refinement, under a mapping of the
four words to N, Z, C and V. Softfloat's operations are external: both sides give
results before rounding, in a unit finer than the format's. Integer instructions
run from every pair of `MCOperands` and either carry; after one that sets the
flags, one that reads them runs, so that flags are judged by their use.

### Bt9Reader, Gshare, CbpEval

A line of a trace is the words in front of `#` and those of the comment; a word
is a string with a number, with parts, or with neither, so that every `stoi` that
throws and every enumeration that has no word for its value is a case. Ids are
the result of `stoi` put into a `uint32_t` (`Unsigned`, `Index`): a negative
numeral is a number at the top of the range, of `IdSpan` values (2^32 in the
code), and `++max_id` of the last of them is 0 (`OrderVerdicts`), so that the
order vector is made empty and then written at that id, which is `"segv"`.
`resize` to another large number may also fail, which is `"abort"`. The empty key
and the deleted key of the hash maps are the last two addresses of `AddrSpan`.
Each line is a step, in the tables as in the edge sequence: the loop that fills
the window is the stage `"fill"`, entered when the reader is made and again by
every shift. A trace that the reader refuses ends in `"exit"` or `"abort"`;
dereferencing what is not there, and writing outside a vector, is `"segv"`.
`CbpEval` takes the predictor as a constant with its three functions; the run
gives it `Gshare`. `EveryBranchOnce` compares what the predictor was fed with the
file itself: `SequenceLines` are the lines of the edge sequence and `Place` is
the number of such lines up to one.

### PoTage, PoTagePredictor

Path histories in circular buffers, the compressed histories that follow them,
allocation, post-prediction and COLT are modelled as they are. Of combiner and
corrector, the model keeps which counters a prediction reads and which an update
trains (a hash is kept as what is hashed); the sums that decide whether there is
training are drawn from `SUMS`. `BEYOND` is what `postp_index` may find behind
the end of its two-element array.

### HpsTage to MppPredictor

The state of a component is a record, its member functions are operators on it,
and the pseudo-random draws and the correctors' sums are inputs, fixed per
behaviour by `CbpProgram`. The exclusive-or of C is the recursive function `xor`,
since the proof system knows no bitwise operators. `e.fresh`, `e.same` and
`e.lastRun` are history fields of table and loop entries; `past` is the exact
past that the features are judged against.

## 3. Runs

| Run | Checks | Shows |
|---|---|---|
| `shm` | `SectorExclusive`, `InOrder`, `NoStatusError`, `NoDeadlock`, `LossBounded`, `ImplementsStream`, `CallReturns`, `ServerFinishes`, `GuestFreezes` | all interleavings, with leftover flags and a client that may start first; calls return while the server runs, the server finishes, then the guest blocks in the helper for good |
| `tage` | `UsefulBitsAge`, `UsefulProtected`, `Learns` | replacement of at most one entry, never a useful one; three resets clear a useful counter that does not grow (two do not); finitely many mispredictions once all branches go one way |
| `tage_allocation` | `FailedAllocationAges` (violated) | a failed allocation ages nothing |
| `file_readers` | `TraceFaithful`, `DumpStutters`, `OneEntryPerBranch`, `LoneBranchExact`, `FoldExact` | what restarts, failures and concurrent readers can do to the trace; chains, and the one case in which a branch has its own counter; `compute_history` is the fold of the last outcomes, given an exact register |
| `history_fold` | `LastOutcomesFolded` (violated) | with the code's register it is not |
| `a64` | `OnlyBigElementsAbort`, `FpAccessCheckedButCrypto`, `TrapsHaveNoEffect`, `SourcesReadFirst`, `FinishesCleanly`, `AssertsHold`, `LeavesWithPc`, `StepTraps`, `BranchRecorded`, `ImplementsArch`, `Terminates` | every handler on every encoding; every data-processing operation of `A64Alu` on boundary operands; every sequence of control flow in a block, under single step, breakpoints and block linking |
| `a64_big_endian` | `NeverAborts` (violated) | big-endian loads and stores of single elements abort the translator |
| `a64_crypto` | `FpAccessChecked` (violated) | AES and SHA instructions reach vector registers without the check |
| `cbp_eval` | `EveryBranchOnce`, `GraphClosed` | every edge sequence of up to eight entries, every small damage to a trace, negative numerals among it, and short edge lines in a trace without node 0 |
| `cbp_iterations` | `OneIterationPerBranch` (violated) | `numIter` is not the number of branches read |
| `potage` | `HistoriesFolded`, `TrainsWhatItRead`, `StealsSoundly` | wrapped histories, retraced indices, stolen entries |
| `submissions` | `StorageConserved`, `UnusedIsFresh`, `TrainsItsReads`, `LoopConfident`, `FeaturesExact` | reconfiguration, replacement, loops, features |

Parts that share no state and are checked with one instance are in one run: each
behaviour of `MCFileReaders` and of `MCA64` runs one part and leaves the others
at their start, so the states are a sum, not a product. A run that expects a
violation checks what a comment of the repository says; section 5 has the
findings, and a property next to it, in a run that passes or proved, says what
holds instead.

Bounds. *Channel*: NDATA = 2 has a first and a last cell; five records wanted are
two and a half sectors, so each sector is reused, both become full, and the
server stops in the middle of one. No step looks at a record's contents, so one
marked record among others that are alike, at any place of the stream, shows a
swap, a repetition or a stale cell wherever it happens (`MCShmTransfer`). Nothing
bounds the client: after the server has stopped it blocks. *TAGE*: two banks give
a provider, an alternate and a hole in `bank_store`; one index per table is the
worst case of aliasing; two tags give hit and miss; a period of 2 lets the resets
meet every counter value. A program that does not settle is not bounded
otherwise, and the VIEW leaves `altBetterCount` out for it, which no guard
depends on (lemma `ProviderAlwaysUsed`); one that settles does so within
`MaxWander` = 4 branches, so that "from any tables" means those reachable in
four. *Histories*: 4 outcomes in 3 bits leave a remainder, and ten branches let
each outcome enter, wrap and leave. *Bimodal*: three branches over two rows give
an empty, a lone and a shared row under every hash; seven records saturate a
counter. *Trace*: buffers of 3, seven branches, three sessions: two flushes, a
cut in every position and a restart after each; readers open at any moment,
before there is a trace too. *Translator*: every encoding
occurs; registers are 16 bytes as in the code and `TMP_A64_MAX` is
16. A block has up to three instructions and a page four, so that page end,
instruction limit and branch end it in turn. *ALU*: words of 4 and doublewords of
8 bits; 12 register values at the boundaries of both; 16 floats of 5 bits, of
each sign zero, denormals, normal numbers, infinity, signalling and quiet NaN;
vector lanes of 2 bits, 3 registers of 4 bytes so that a table wraps; polynomials
of degree 4. *Reader*: a window of 4, so that sequences of 0 to 8 end before, at
and after each shift; the damaged traces replace each word, by -1 and -2 among
others, drop, double and cut at each line; 16 ids and 64 addresses leave room
between the small and the negative ones. *PoTage*: two path lengths, a buffer of
8, 9 branches: it wraps. *Submissions*: 4 tables over 2 histories, snapshots
every 6 predictions; programs of two branches, a call, a return and a jump with
any outcomes, and a loop of three or four iterations, cut after 16 to 24
branches; two orders of random draws.

`CHECK_DEADLOCK FALSE` is used where the system stops: the guest blocks once the
server is done, and the other models end with their input.

Fairness. `FairSpec` of `ShmTransfer` assumes weak fairness of the server's
set-up, of the server's loop and of the steps of a helper call (the kernel runs
both processes), and of the guest making another call (it goes on executing
branches). No strong fairness is needed for the mutex: whoever holds it releases
it after a few steps and then works or waits outside it. `TageLearning` assumes
that the loop that calls the predictor goes on, `LiveSpec` of `A64Block` that the
translator, a sequential function, does. Liveness is checked by TLC only.

## 4. Proofs

All theorems are for every value of the constants under the named assumptions,
which TLC evaluates in the runs: sizes are positive naturals and the compressed
length fits the register, history lengths grow and counters are as wide as they
must be to hold what the code stores (`TransferAssumption`, `TageAssumption`,
`HistoryAssumption`, `BimodalAssumption`, `TraceAssumption`, `BoundsAssumption`,
`BufferOK`, `TageOK`, `LoopOK`), files are sequences of lines (`FilesOK`), an id
has more than two values (`SpansOK`), and the control flow that handlers emit is
ordered (`InsnsAssumption`, below). In each component the property a run checks
is not inductive by itself; the strengthening stands at the end of the
component's module (of the submissions', in `SubmissionsProofs`), and TLC finds
that it holds on the run's instance.

`ShmTransferProofs` proves `Spec => []ChannelInv` (`ChannelInvariant`) and from
it `TypeCorrect`, `SectorsExclusive`, `AnalysedInOrder`, `StatusInRange`,
`DeadlockFree`, `LossIsBounded`, and that the channel implements `BranchStream`
(`Refinement`). The safety properties are not inductive: that the two sides are
on different sectors depends on `status` agreeing with the two indices
(`FlagsAgree`), which depends on `status` changing under the mutex only
(`MutualExclusion`) and on what each side learnt before it released the mutex
still being true (`StillTrue`: only the server leaves 3, only the client leaves
0). `Contents` says where each record of the stream lies, `Progress` how far the
server is, `Paid` that each dropped record has used up a post of `serverRead`,
`WakeUps` that whoever waits has reason to or a post is due. `SetupOrder` covers
the time before `serverRead`, the last thing the server creates, exists. The
refinement maps `published` and `released` to expressions over `sent`, `cnt` and
`status`; every step is a step of `BranchStream` or stutters.

`TageProofs` proves `TageTypeCorrect`, `UsefulEntriesProtected` (the search for a
victim starts below the provider, since every slot of `bank_store` is a bank
below it or -1, and takes the first entry with `u = 0`), `UsefulKept` (an entry
loses usefulness only as a provider and at a reset, where the source promises
more), and `UsefulBitsReset` from `AgesInvariant`: after n resets without growth
`u` is at most `AgeBound(n, clock_flip)`. The bound must know which bit went
last: a decrement can set the bit just cleared (2 to 1), but not raise the
counter, so the other turn's bound still holds, and the third reset has nothing
left.

`TageHistoryProofs` proves `HistoryFolds` (`FoldExact`) and `HistoryKeepsAll`
(`NothingLeaves`) from `HistoryInv`, which adds only that `ghr[0]` is the last
outcome. No induction over the history is needed, because the fold is stated as
the parity of a set of branches (`Taken`) and not by recursion: one branch more
renumbers the members of that set by one, adds the newest and takes out the one
that has become too old (`TakenLow`, `TakenShift`, `TakenHigh`), and the rotation
of the register is the same renumbering modulo `targetLength`
(`NextRemainder`). The lengths need not divide each other.

`BimodalProofs` proves `BimodalOneEntry` and `BimodalLoneExact` from `TableInv`,
which adds that a chain holds branches of its row only, each once (`Chained`), and
that a branch without an entry has an untouched counter (`NewIsInitial`); and the
action property `BimodalEntriesStay`: a step at most appends one entry to one
chain, so that the head that predicts for a row stays the same branch for ever.

`TraceFileProofs` proves `TraceIsFaithful` and `DumpIsStuttering` from `TraceInv`.
What a session has in the file is measured from `start`; `Buffered` says that the
running session has executed exactly what it wrote and what is in its buffer,
`FileWhole` that the file ends with a whole buffer, also after a kill, and
`DumpPosition` that the dump stands between two buffers and holds the last one
it read.

`A64BlockProofs` proves `BlockAsserts`, `BlockLeaves`, `BlockSteps` and
`BlockRecords` from `BlockInv`, for blocks and pages of any number of
instructions, any mixture of single step, breakpoints and linking, and any set of
instructions whose control flow is `WellFormed`: jumps lead forward to a label, an
exit is last, a record stands directly in front of the exit it is for, and so on
(`InOrder`). That the handlers keep this order is not assumed of the code but
evaluated by TLC, for the control flow of every encoding that `disas_a64_insn`
yields. `Remaining` carries the order over to what is left of the instruction
being translated, together with how many labels the path still has to skip;
`Recording` says that the path holds a record only in front of the exit that
spends it, `Ending` what each value of `is_jmp` implies about the path, `Slots`
that an emitted `goto_tb` slot is not used by an exit to come.

`CbpEvalProofs` proves `EveryBranchIsFedOnce` (`EveryBranchOnce`) and
`LoadsAreKnown` from `ReaderInv`, for every trace file (any sequence of lines,
`FilesOK`), every even window (`BufferOK`) and every predictor. The property says
nothing about what is in the window; the invariant does. `InSection` places the
reader between the words that open the sections, so that the lines it takes for
entries are those of the file's edge sequence. `InWindow` says that the window
starts at a multiple of half its size, that it was last filled for the iterator
standing in its middle (`FilledFor`), and that it is full unless the sequence has
ended: hence an entry that `OutOfRange` lets through is there. `EntriesRead` says
that entry n lies in cell (n - 1) % `buffer_size` until the window has passed it;
fewer than `buffer_size` entries in a row have different cells
(`RemaindersDiffer`). `FedBranches` is the property for the entries passed.
`EdgesKnown` gives `LoadsAreKnown`: the edge that is loaded and its two nodes are
in the order vectors, in damaged files too. `GraphIsClosed` (`GraphClosed`) needs
`SectionsKept` besides: a node or edge line is in its table from the moment it is
read and in the order vector, whose ids are exactly the table's, from the end of
its section; and `VectorsKept`, which carries each vector through its
construction. The verdicts on the fields of an edge line and the width of an id
leave two ways to touch what is not there, and the theorem names both: an edge
line that breaks off before its nodes in a file without node 0 (`EdgeRead`), and
a record that has the last id of the type, for which the size of the vector wraps
to 0.

`SubmissionsProofs` proves three properties of the championship submissions, for
all sizes of tables, all history lengths, every program and every order of random
draws and sums. `LoopConfidence` (`LoopConfident`) follows from `LoopInv`: while
an entry knows a number of iterations it has counted the current run from its
beginning, hence what it compares with that number is the run's true length; an
entry that forgets the number loses its confidence in the same step.
`UnusedEntriesFresh` (`UnusedIsFresh`) follows from `TageInv`. The mark is a full
useful counter over an undecided prediction, and nearly every part writes one of
the two counters. An entry trained, as provider or as alternate, loses its
usefulness when its counter is undecided afterwards (`SettledEntryInv`), which
for the alternate depends on there being one whenever it is trained
(`PredictionInv`); ageing passes over marked entries and leaves no useful counter
full (`AgedEntryInv`); allocation and the victim cache write new entries only
(`Allocated`). What is not local is usefulness gained in step 4, which could
complete the mark: the entry gains it only when its own direction was right, and
then the training before has moved its counter away from undecided. That takes
`ProviderInv`, that the direction predicted is that of the provider's counter
from the prediction to step 3 of the update, with allocations and a
reconfiguration in between. `AllocateFromInv` follows the search for free entries
from history to history by a least counterexample, since the search is a
recursive function; `TwoPower` is what is needed of the counters' widths.
`CorrectorsTrainTheirReads` (`TrainsItsReads`) follows from `ReadsInv`: between a
prediction and its update, `read` is the set of counters indexed by the present
histories, so that indices computed again at the update are the same; the
exception, the loop predictor's prediction as the one corrected, is the case in
which the argument fails (`CountersByPrediction`).

Only model-checked:

* liveness (`CallReturns`, `ServerFinishes`, `GuestFreezes`, `Learns`,
  `Terminates`): out of the proof system's reach;
* the properties of `A64Insn`: they are claims about each of the effect sequences
  that the handlers yield, a large finite set that TLC goes through completely, so
  that a proof for other sequences would say nothing about this code;
* `ImplementsArch` and the properties of `PoTagePredictor`: the models compute
  with bitwise operators, of which the proof system has no theory;
* `StorageConserved`: that storage is dealt out to the last table is about sums
  over the histories after a fold of doublings, and `FeaturesExact` about filtered
  and searched sequences; both results need induction over data.

## 5. Where the code and its documentation disagree

All of these are visible in the modules.

Channel, traces and the repository's predictors:

* README.md:297 "both data exchange and order are preserved": a call that finds
  the memory full waits and returns without storing its record
  (`helper-a64.c:115-117`). Order is preserved (`InOrder`); the loss is bounded
  (`LossBounded`).
* `helper-a64.c:119` "first time, wait that server create shm": `sem_open`
  without `O_CREAT` fails and QEMU exits when the server is not there yet.
* README.md:95 "On misprediction one entry is allocated": `bank_store` has holes
  (`update_predictor.h:115-126`), and a free entry in bank 1 only is not found.
* `update_predictor.h:97` against the comment at 100 "If no new entry allocated
  decrement the counter of all components": finding of `tage_allocation`.
* `update_predictor.h:178-179` against `common_var.h:42-43`: the in-place shift
  overwrites the history it shifts; finding of `history_fold`.
* `read.c:18` and `predictor.c:21` do not look at the result of `fopen`; started
  before there is a trace, they hand a null stream to `fread`.
* README "weak correct": a not-taken branch allocates `pred = 3`, which
  `get_prediction` reads as taken. `Learns` shows that such entries are trained
  out.
* `update_predictor.h:68`: the check for a new entry looks at counters that have
  just been trained. `get_prediction.h:86`: the alternate prediction is never
  used on a hit.
* README.md:261: `branch.c:96` trains the counter of the chain's head, not the
  branch's own. `size_counter` (60-75) counts an empty row as one entry.
* README.md:255 "every block that translates a branch instruction":
  `disas_uncond_b_reg` (BR, BLR, RET) has no call of the helper. The record's pc
  is `s->pc`, which is already that of the next instruction.

Translator (QEMU's own code):

* 2811 and 2813 give `be_data + scale` to the element accessors as the size of the
  element. With big-endian data that is no case of their switches, and QEMU aborts
  (`g_assert_not_reached`): finding of `a64_big_endian`. `OnlyBigElementsAbort`
  says that these are the only instructions that abort.
* The crypto handlers (10908-11080) give vector registers to helpers without
  `fp_access_check`, against the comment at 434-440: finding of `a64_crypto`.
  `FpAccessCheckedButCrypto` says that every other handler makes the check first
  and that where FP accesses trap no register is written through the accessors.
* LDP Xn, Xm, [Xn] (2184-2187) loads its base before the second access, which may
  fault; run again, it starts from another address. The architecture leaves the
  case open and no comment promises more, so that it is an exception in
  `TrapsHaveNoEffect` and not a finding: at an access a general register has been
  loaded only if the access is the last of its instruction.
* Unallocated FMOV combinations (5276-5279) emit UNDEF and go on with the FP check
  and the move, where every other handler returns. What follows the exception in
  the emitted code is never reached, and `emitted` counts only what is.
* `8 << ctz32(imm5)` with imm5 = 0 shifts by 32 before the value is refused.

Championship code:

* `main.cc:170` "Here numIter will be equal to number of branches read": a
  sequence that is empty, or ends where the window is shifted, costs one
  iteration more; finding of `cbp_iterations`.
  `getFieldValueStr` leaves the value of the previous field behind
  (`main.cc:130-137`); an indented header line keeps the tail of its key;
  numerals out of range are not caught. Node and edge ids are `int` numerals put
  into `uint32_t`, and id -1 makes `++max_id` 0 and is then written outside the
  order vector (`bt9_reader.h:1051, 1267-1273, 1324, 1483-1489`). An edge line
  that breaks off before its nodes, in a file without node 0, follows a null
  pointer (`bt9_reader.h:1463-1465`). `GraphClosed` names both.
* `sim/predictor.cc`: TBias2 and SB2 are trained at the indices of TBias1 and SB1
  (1204, 1210); YGEHL is predicted with 10 tables and trained with 15 (1838,
  1770); `postp_index` reads `ctr[2]` of a two-element array (776-789);
  `allocfail` is not reset after the clearing it triggers; `initSC` clears
  `ghist[0]` only. `TrainsWhatItRead` states exactly the first two exceptions.
* Pruett: `FoldedHistory` arrays have `numHistories` entries and are indexed from
  1 to `numHistories`; `VictimCache::search` masks the index and `insert` does
  not; several members are read before they are set (`active_v`, `numInserted`,
  `T_slhist`, `HSTACK`); the corrector is trained with TAGE's prediction although
  it was read with the loop predictor's, the exception in `TrainsItsReads`; a
  prediction made under one configuration may be trained under the next.
* Jimenez: `UpdatePredictor` passes `OPTYPE_JMP_DIRECT_COND` whatever the branch
  (2197); `OPTYPE_CALL_DIRECT_UNCOND` is tested twice and the indirect call never
  (1950); `predictorsize` overwrites the bits of the corrector's histories; a
  table size of 0 would divide by zero in `get_index`.

## 6. Not modelled

* A session that reuses semaphore names (`server.c:79-105`): README.md:286 rules
  it out, and `sem_init` on a semaphore with waiters is undefined.
* The XOR of the index and tag hashes of the repository's TAGE: arbitrary inputs
  instead, an over-approximation.
* The accuracy reports and statistics of all predictors: floating-point division
  and printing that nothing reads back.
* Softfloat, TCG, zlib and the rest of QEMU are external. Rounding is
  softfloat's; icount's `gen_io_start` and `gen_io_end`, which bracket system
  register accesses, and logging are left out. Flag arithmetic of CCMP is a
  handler's `"op"` only. `Src_qemu_tofile/translate-a64.c` is the same file but
  for comments and blanks, and is not mapped a second time.
* Weights of the perceptrons and correctors and their sums: thousands of
  counters whose values only decide a sign; the sign is an input, and which
  counters take part is modelled. The final choice between correctors is a
  function of these signs. The ASSERTs on frequencies in `predictor.cc` are not
  checked.
* The other submissions: `StephenPruett/cbp8KB` is the same code with other
  parameters; the 8KB and unlimited variants of Jimenez, `DanielJimenez1`,
  `AndreSeznecLimited` and the two of 2014 combine the same TAGE, loop predictor,
  corrector and perceptron with other tables; `AndreSeznecUnlimited` and
  `AndreSeznec_CBP4_Unlimited` hold `sim/predictor.cc` without the dump to
  `tracex.txt`. Most of the lines that the map does not cover are here.
* `other_files/client-server_SHM` runs the protocol of `ShmTransfer` with a
  terminal in place of the guest; `client-server_socket` is an abandoned trial
  with one blocking request at a time.
* Dhrystone, CoreMark and the bare-metal guest: third-party programs that
  produce branches.
