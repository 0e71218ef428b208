# Verification of circom-witnesscalc

circom-witnesscalc turns a Circom circuit into a *computation graph* at build
time (`build-circuit`) and calculates the witness of the circuit for given
inputs from that graph (`calc-witness`, or `gw_calc_witness` through a C
interface).

    circuit ─circom compiler─▶ program ─builder─▶ nodes ─optimize─▶ nodes ─serialize─▶ graph file
                                                                                          │
    inputs (JSON) ─deserialize_inputs─▶ input buffer ◀─sizes, places──────────────── deserialize
                                             └───────────▶ evaluate ◀─────────────────────┘
                                                              └──▶ witness (wtns)

Paths below are relative to `src/src/` unless they begin with `src/`.

## 1. Inventory

| part | source | state it keeps | operations | what makes it correct |
|---|---|---|---|---|
| field operators | `graph.rs:38-226, 301-769`, `field.rs` | none | `eval` on 256-bit words, `eval_fr` on field elements | both versions agree; every operation returns a value; order, shifts and bit operations are what Circom defines |
| optimizer | `graph.rs:342-619` | nodes, witness positions | `optimize`: `tree_shake`, `propagate`, `value_numbering`, `constants`, `tree_shake`, `montgomery_form` | the witness stays the same on every input; internal checks never fail; nothing unused and nothing that is seen to be doubled is left; the inputs stay where their buffer is sized |
| evaluation | `graph.rs:367-391` | values so far | `evaluate` | backward references only, input positions within the buffer |
| unoptimized evaluation | `bin/build-circuit.rs:2252-2303` | values so far | `evaluate_unoptimized` | it shows what the optimized graph will calculate |
| messages | `storage.rs:20-135`, `graph.rs:147-234`, `src/protos/messages.proto` | none | conversions of nodes and operations | a node comes back as it was written |
| graph file | `storage.rs:137-249` | the bytes of the file | `serialize_witnesscalc_graph`, `deserialize_witnesscalc_graph` | what was written is read back; a part of a file is not taken for a whole one |
| write-back reader | `storage.rs:251-307` | bytes given back | `read`, `write` | it is a byte stream |
| inputs | `lib.rs:117-239`, `bin/build-circuit.rs:1945-2001` | input buffer, places of inputs | `init_input_signals`, `deserialize_inputs`, `get_inputs_size`, `populate_inputs` | each Input node reads the element it was made for |
| circuit builder | `bin/build-circuit.rs` | nodes, node of each signal; per template: variables, components | symbolic run of templates and functions | the graph computes what the circuit computes |
| C interface | `lib.rs:28-103`, `src/include/graph_witness.h`, `src/examples/calc_witness.c` | heap blocks, client's status | `gw_calc_witness`, `gw_free_status` | no block is lost or used by one who does not have it |

The parts interact through data that outlives them: the builder hands the
vector of nodes to the optimizer in memory; `build-circuit` and `calc-witness`
are different processes and meet in the graph file only; the places of inputs
are fixed before the optimization and used after it.  There are no threads and
no callbacks.  What makes the code hard is

* *two versions of one thing*: operators for folding and for evaluation, three
  evaluators of expressions in the builder, sizes computed before and after
  the optimization;
* *references into a vector that is rewritten*: renumbering and merging;
* *protocols over a sequence of calls*: a component that runs when its last
  input is set, signals that are set once, bytes that are read and given back,
  memory that passes to a client;
* *failure in the middle*: a panic, a file that is cut, a call that fails
  halfway;
* *an order that nobody chose*: hash maps, short reads.

`PROJECT.json` lists the single hazards with their lines and the properties
that watch them.

## 2. Modules

| module | models | proofs |
|---|---|---|
| `FieldOps` | every operator, twice: `Eval`, `UnoEval`, `TresEval` on words, `EvalFr`, … on field elements; a panic is a value | |
| `ConstantFolding` | a small register machine that runs the same computation both ways | `ConstantFolding_proofs` |
| `Graph` | nodes, `BackRefs` (`assert_valid`), renumbering, `evaluate`, `get_inputs_size`, `random_eval` | `Graph_proofs` |
| `Optimizer` | `optimize`, one action per pass or loop step | `Optimizer_proofs` |
| `Builder` | `run_template`, `run_function` and all they call | `Builder_proofs` |
| `NodeMessages` | nodes as protobuf messages, both ways | `BuildCircuit_proofs` |
| `BuildCircuit` | `main` of build-circuit: composes `Builder`, the unoptimized evaluation, `Optimizer` and `NodeMessages` | `BuildCircuit_proofs` |
| `CircuitSemantics` | abstract: an interpreter of the same compiled programs on numbers | |
| `ByteStream` | abstract: what a reader of a file relies on | |
| `WriteBackReader` | `read` and `write` of the reader, short reads and errors included; implements `ByteStream` | `Storage_proofs` |
| `GraphStorage` | the writer, chunk by chunk, its crashes, and a reader that opens the file at any time | `Storage_proofs` |
| `CalcWitness` | the way of an input value from the input file to the node that reads it | `CalcWitness_proofs` |
| `CApi` | `gw_calc_witness`, `prepare_status`, `gw_free_status` and a client | `CApi_proofs` |

`MC*` modules give the constants their values for TLC.  Definitions that a
comment calls *a variant for the mutation runs* are not part of a model: each
is one of its definitions with a plausible mistake, and shows that the property
it is paired with in `PROJECT.json` would notice that mistake.

### Correspondence

Positions in sequences are counted from 1; the code counts from 0.  Every
`panic!`, `assert!`, `unwrap` and index out of range is an explicit outcome.

*FieldOps.*  The field has `M` elements, a word `Limbs * LimbBits` bits.  `Eval`
follows `Operation::eval` case by case, including what it leaves unreduced
(shifts, bit operations, `Idiv`, `Mod`); `ShrFr` moves limbs and carries bits
between them as `shr` does.

*Optimizer.*  The state is the node vector, the witness positions, the pass
(`pc`), the loop variable of the pass (`cursor`) and the marks of `tree_shake`.
`Shake`/`Mark`/`Sweep` are the three loops of `tree_shake`, `Propagate`/
`FoldNode`/`FoldEnd` that of `propagate`; the other passes touch each node on
its own and are one action each.  Every pass begins with `assert_valid`
(`GoTo`).  `random_eval` draws random numbers and takes nodes with the same
number for equal; the model takes the outcome that has all but negligible
probability, in which two numbers are the same exactly when they are the same
polynomial in the draws.

*WriteBackReader, GraphStorage.*  A read is `Start` (from the buffer), some
`Fill`s (from the underlying reader, as short as it likes) and `Finish`, or
`Fail` when the underlying reader reports an error: what the read has taken until
then is lost, as it is in the code (`?` at `storage.rs:286`).  The caller's buffer
is one of zeros, and it may give back any end of it, zeros included, which
is what `read_message_length` does at the end of a file.
`GraphStorage` uses the byte stream and models each write of the writer as a
chunk that a crash may cut at any byte.  A number is the sequence of its digits
(`Left`, `Digits`, `Number`): seven bits each in a varint, with a mark on all but
the last, eight in the count and the offset; the file is the concatenation of the
chunks (`UpTo`), which the writer counts up to the metadata (`Offset`).  Messages are sequences of numbers; that
the protobuf library decodes what it has encoded is taken from it, what a
message does with bytes that are missing (phantom zeros) is not.

*NodeMessages.*  A message has the field of the `oneof` that is set, the number
of the operation and the positions, which lose what is beyond their bits
(`Indexes`, 2^32 in the code).  The three tables of numbers are written out as
they are: one way in `graph.rs`, the other in `storage.rs`.

*CalcWitness.*  A file is absent, malformed, JSON but no object, or an object
whose values are strings, numbers, arrays or something else; a string that
is no number has a value that is no word.  `ReadSample` is the file given to
build-circuit with `-i`, `Declare` one round of the loop of
`init_input_signals`; `Optimize` keeps any set of nodes that has the first input, and is
otherwise what `Optimizer` shows of it (order kept, references valid), and adds
an operation to stand for those of the circuit; `Populate(n)` is one round of the
loop over a hash map, in any order; `EvaluateNode` one round of the loop of
`evaluate`.

*Builder.*  A frame is a call of `run_template` or `run_function`, with its
variables, its components, a list of things still to do and the values already
calculated; the nesting of Rust calls is this list.  One action is one step of
one arm of `process_instruction`, `process_function_instruction` or of an
evaluator of expressions: `Calc*` opens an expression, `Apply*` closes it,
`Put*` stores, `Finish*` continues an instruction when its operands are there.
The three evaluators of the code (operands, templates, functions) share these
actions and are told apart where the code tells them apart: what they accept,
what they fold, and when they append a node for a constant.  `Expressions` and `Instructions`
are those of the programs, nested ones included.

*BuildCircuit.*  The builder and the optimizer work on the same two variables,
`nodes` and `outputs`, as they do on the same two vectors in `main`; `pass` is
the `pc` of the optimizer, `source` what it was given.  The optimizer is an instance of
`Optimizer_proofs`, so that what is proved about it can be cited of the build.  The graph that is
read back (`LoadedNodes`) is calculated from the messages alone.

*CApi.*  The heap is a set of blocks, a pointer is a block, null or garbage.
A panic of `calc_witness` and a failing `malloc` end the process.

## 3. Runs

| run | question | bounds |
|---|---|---|
| `fold_sound` | do folding and evaluation agree, do comparisons, right shift and conjunction do what they are for? | all pairs of elements for M = 47 and 8-bit words of four limbs, one operation or one after another |
| `fold_total` (violated) | does every operation return at witness time, as `graph.rs:106` says? | M = 47, two limbs, all operations but `Pow` |
| `optimize` | the properties of the optimizer | M = 5; all graphs of two inputs or constants and two operations of several kinds, a family with three operations, one with operations that panic, and one with three inputs, of which some are dropped |
| `optimize_stops` (violated) | does the builder stop only on graphs that would stop evaluation? | the last of these families |
| `reader` | is `WriteBackReader` a byte stream, does every read return? | files of up to 5 distinct bytes, reads of up to 4, an error at any of them |
| `storage` | is a whole file read back, what can be missing of another? | messages with lengths of one and two bytes, up to two nodes; all pairs of an old and a new graph, all points of a crash and of opening |
| `storage_truncated` (violated) | is a file that is cut refused? | the same |
| `calc_witness` | does each node read its input? | up to two inputs of one or two elements, all files with missing, additional, short and long entries and with entries of every JSON type; words 0..63, numbers 0..7, M = 5; every set of kept nodes, every order |
| `calc_witness_all` (violated) | are complete inputs accepted? | the same |
| `build` | does the graph compute the circuit, and does the graph in the file? does the file keep the graph? what can stop the builder, the optimizer and the printing of the graph? | 651 programs in five families, of which 341 build a graph, every input in a field of 5; sample inputs 0, 2 and 3; messages with ten positions |
| `builder_returns` (violated) | the same for functions that return in a loop | two calls of one function |
| `capi` | can a client that follows the example go wrong? | four blocks, calls without end |

Why these bounds are enough.  M = 47 with 8-bit words has the shape of the real
numbers: the modulus leaves two bits of a word free, half of it is not a power
of two, and four limbs give the right shift inner limbs to carry through.  With M = 5
every function of two field elements is still evaluated on all inputs, and 5 has
negative numbers (3, 4).  A node that is merged, folded or dropped needs
at most one operation below it and one above to show a wrong reference; the
family of three operations has longer chains, and in that of three inputs one is dropped before, between or
behind others.  The reader's files are longer than
its longest read, so that bytes given back and bytes of the file meet in one
read.  `Radix = 4` makes lengths of one and two bytes occur with messages of a
few bytes; `MaxVarint = 3` is longer than the shortest message, so that a
length takes bytes from the next message and beyond the end of the file, as ten
bytes do in the code.  Two inputs are enough for one to be behind the other
in the buffer and in the hash map; a word of 64 values with limbs of 8 has numbers
that are refused as numbers and accepted as strings, and strings that are beyond the
field.  The builder's programs contain every instruction and every address the
builder knows, components with countdowns of one store, of two, of an array, in
loops and by mapped addresses, nested components, functions that call
functions, arrays as arguments and results (into variables and into
components by either kind of address), and divisions by inputs and constants
that are 0.  All families contain programs the builder refuses; of the 341
programs it does not refuse, 23 leave a signal of the witness without a value.  Graphs have
7 to 24 nodes before the optimization and 3 to 10 after it, so that the longest
needs all of the ten positions a message can tell apart.  The client never holds
more than two blocks.

Deadlock is not checked where programs end: the modelled programs run to an
end state and stop there.

Fairness.  Only `reader` states it: a read that has begun goes on (`WF` of
`Fill` and of `Finish`), since it is a loop inside one call, and the underlying
reader returns at least a byte until its end.

## 4. What the violated runs show

* `fold_total`: `shl` converts a word to a field element with `unwrap`
  (`graph.rs:634`); a shift whose result is between the modulus and the next
  power of two panics, and so do `bit_or` and `bit_xor` at the modulus itself,
  although "we always should return something on the circuit execution"
  (`graph.rs:106`).  For the same operations folding gives words that
  are not reduced, so that `FoldingIsEvaluation` holds for the others only.
* `optimize_stops`: `Idiv` and `Mod` by a constant zero stop the builder
  (`graph.rs:97`), where evaluation gives 0 and `Div` is folded to 0
  (`graph.rs:69-77`).  For the same reason `-print-unoptimized` panics on a
  circuit that divides integers by an input that is 0, which all inputs are when
  there is no `-i`.
* `storage_truncated`: `read_message_length` does not look at how much it has
  read (`storage.rs:187`) and gives back zeros that are not in the file; a file
  cut in its metadata may be read as a graph.  `OnlyTheEndIsLost` shows that
  this is the worst that happens: no node is missing, and all but the last are right.
* `calc_witness_all`: an input that no node reads any more makes the buffer too
  short for it (`lib.rs:157`).
* `builder_returns`: the loop of a function drops the result of a return
  in its body (`bin/build-circuit.rs:1338-1341`).

Seen while modelling, and not worth a run: `storage.rs:11` says the count of
nodes has 4 bytes, it has 8 (`storage.rs:145`); a successful
`gw_calc_witness` fills the status with `GW_ERROR_CODE_ERROR` and "test error"
(`lib.rs:98`); the assertion that witness signals are set looks at the number of
the signal and not at its node (`bin/build-circuit.rs:2228`); raw `<` in
`build_binary_op_var` (`bin/build-circuit.rs:1762`) compares without sign, which
its operands, addresses, never show.

## 5. Theorems

The assumptions are those named in the modules, and TLC evaluates each of them:
every element of the field but 0 has an inverse and four times the modulus fits a
word (`FieldAssumption`); the powers of two and of the size of a limb are what their
definition by the next lower one says (`PowersAssumption`: the provers do not know
exponentiation); the optimizer's sources are graphs
with backward references, whose outputs are nodes, whose Input nodes have a number and whose constants are not yet in
Montgomery form (`ValidSource`; `BuildCircuit_proofs` shows that the builder's graphs
are such, but for witness signals without a value);
what the builder is given is what the Rust types of the compiler's output can hold, with an operand for
each index and a size for each argument (`ProgramsAssumption`); what a file of inputs
gives a node is a word (`SampleAssumption`); the messages of a file consist of bytes, that
of a node is never empty, the length of each has a varint (64 bits in the code), and so does
the number of nodes and the offset of the metadata in eight bytes (`StorageAssumption`, `OffsetAssumption`); the
inputs of a main component have different names, and files are what a JSON parser can
return (`LayoutAssumption`).

**`ConstantFolding_proofs`**, for every field, word and length of a computation.  With all
operations: `RegistersTyped` (folding keeps words, evaluation keeps field elements),
`ShrDivides` (the right shift that moves limbs and carries bits between them is a division
by a power of two: `MovedLimbs` gives the sum of the limbs that are left, `CarryStep` what
carrying adds to each) and `BandBelow`.  With all operations but powers, shifts, disjunction
and exclusive or (`Arithmetic`): `FoldingSound` (folding is evaluation), `EvaluationReturns` (no operation of these panics
at witness time), `FoldingStops` (folding panics in the integer divisions only, where
evaluation gives 0), `ComparisonsSigned`.  The invariant `Agree` says that all registers hold
the *same field element* in both versions, but for one that a division has just stopped.  This is
stronger than agreement modulo `M`, which would not be inductive: `Idiv`, `Mod` and the
comparisons tell a word from its residue.  `DifferenceAgrees` is a case
in which the versions calculate differently: folding adds the complement `M - b` as a word,
evaluation subtracts in the field.

**`Graph_proofs`**: the induction and the recursion over 0..N that the other proofs need, as
facts about sets (`Induction`, `Recursion`, from the least element of a set of numbers);
words as sums of their bits (`BitsAddUp`: a word is the sum of its bits); what each operation
gives (`EvalType`); keeping a set of positions renumbers them by a bijection that respects
their order (`RankIsBijective`), and when no other node stands between two Input nodes, the buffer
sized from the first run of them ends with the highest input that is left (`BufferSize`).  The values of a graph, and what it draws, are
recursive functions of the model: they exist and are the only ones that satisfy the equation of each
node (`ValuesFound`, `ValuesUnique`, `DrawnFound`, `DrawnUnique`).  Sums over a finite set do not
depend on the order in which they are taken (the lemmas `Total…`), and so what a polynomial in the draws is worth
is a ring homomorphism (`AddVal`, `SubVal`, `MulVal`).

**`Optimizer_proofs`**, for every source graph: `TypeCorrect`, `ChecksNeverFail` (no `assert_valid`
fails, no reference is missing when it is renumbered) and `NothingUnusedIsWritten`.  The invariant
`IInv` adds to these what each pass relies on: references
are backwards at every step and outputs are nodes; while `tree_shake` marks,
all that used nodes beyond the cursor refer to is marked (`MarkedSoFar`); and from
the second `tree_shake` on every node is used.  The second is needed for
`Sweep`: a reference of a kept node is kept since marking has gone past it.
`value_numbering` is safe since the first node that draws the same value is never later than
the node itself (`FirstEqualIsEarlier`).
`OnlyUnrunnableIsRefused` follows from `OpsAreTheSources`: no pass makes an operation that the
source did not have.  `InputsStayCovered` is what `get_inputs_size` relies on without saying so: if
the inputs of the source are next to each other, so are those that are left, and the buffer has a
place for each.  Its invariant, `InputsInv`, is that a pass either keeps all Input nodes where they are
(`SameInputs`) or renumbers some of them in their order (`KeptInputs`); that `constants`
replaces none needs that what an Input node draws is no constant (`InputsDraw`).  Constants stay words through all passes, for every operation (`WordsStay`).

What `optimize` is for are `ArithmeticIsPreserved` and `NothingIsDrawnTwice`, for source graphs of any
size whose constants are field elements and that have no `Shl`, `Shr`, `Bor` and `Bxor`
(`IsFieldGraph`).
The invariant of the first, `MeaningInv`, says that the graph of every step gives the outputs the
values the source gives them; its lemmas follow each pass: a node that is replaced by one of the
same value (`ReplacingKeepsMeaning`: folding, constants, Montgomery form), references that move to
an equal node (`MovedValue`), nodes that are swept (`SweptValues`).  For `value_numbering` this is
`EqualDraws`: nodes that draw the same polynomial have the same value on every input, since
each draw stands for the value of the first node that made it.  The invariant of the second,
`TwiceInv`, says that from `value_numbering` on no two nodes draw the same polynomial, which the last
two passes and `tree_shake` keep.  It does not say that no two nodes are always equal: `Neg(x)` and
`0 - x` draw differently and both stay.  The hypothesis is needed: TLC finds graphs that
`optimize` changes with a constant beyond `M`, with `Shl`, `Shr`, `Bxor` and
`Bor` on constants each: folding keeps the word that evaluation reduces (section 4).  So for graphs
with these operations nothing is claimed of the optimized graph but what the other theorems say.

**`Builder_proofs`**, for every set of compiled programs: `SignalsKeepTheirNodes`: none of the
three places that set signals replaces the node of one that has one; `TypeCorrect` and
`ReferencesPointBack`: every reference in the state, and every operand of a node, is a node that
was there when it was written down.  Neither of these two is inductive, since an item of a frame reads as
many values from the end of the frame's list as it was written for and takes each of them for what
it should be: an operation takes two nodes, a store to a signal as many nodes as the
store's size, a call as many lists as there are arguments.  The invariant `IInv` therefore
gives each item an effect on the *shape* of that list (how many values each entry has,
and whether all must be nodes: `Need`, `Gives`, `Effect`), and says of the frame that runs that its
items chain from the shape it has to the empty one (`Ready`), and of each frame
that waits for a function that they do once the result is there (`Waits`).  A lemma
for each action shows that the items it pushes have the effect of the item it takes off.

**`BuildCircuit_proofs`**, for a whole build of any compiled program.  What the three parts promise
one by one is of use only if each gives the next one what that relies on; the invariant
`BuildInv` says where a build is and what the parts have established so far: the builder's `IInv`
while nothing has been optimized (`Waiting`, `Stopped`), then the optimizer's `IInv` with its meaning
and where its nodes come from (`Optimizing`), then the messages of a valid graph (`Written`).  The
step from one to the next is `StartKeeps`: a graph of the builder is a `ValidSource`, unless a
signal of the witness has no node; such a build goes to `Refused`, where nothing but
the first assertion of `tree_shake` can come.  From it follow

* `OnlyUnsetSignalsStop`, `NodesReferBackInBuilds`, `SignalsAreSetOnceInBuilds` and `BuildTypeCorrect`;
* `FileKeepsEveryGraph`: the graph that calc-witness reads is the one that was written, for any
  program, if a message can tell the positions apart (`PositionsFit`); and `LoadedComputesTheWitness`:
  it computes the witness that the builder's graph stands for, if that one is an `IsFieldGraph` as above.  They
  rest on `NodeComesBack` and `GraphComesBack` (what the writer makes of a node, the
  reader turns into the same node, for every operation and every graph of at most `Indexes` nodes)
  and the second on the optimizer's meaning;
* `PrintingStops`, with no hypothesis at all: the first node at which `evaluate_unoptimized` panics
  (`FirstPanic`) is a division of words, and which ones is said by `OnlyDivisionPanics`;
* `PrintedWitness`: what is printed is what is calculated later, on inputs of the field, for
  graphs of field elements without `Shl`, `Shr`, `Bor`, `Bxor`, `Pow` and `Id` (`Elementary`).  What
  was printed fits each node's operation on words (`PrintedInv`, the invariant), so, node by node, it
  fits the operation in the field (`PrintedValue`, from `OperationsAgree`), and there is one
  such sequence only (`ValuesUnique`).  `Pow` and `Id` have no field version: a graph with one
  has no value to compare with before it is folded.

**`CalcWitness_proofs`**, for any number of inputs of any length, any files and any order of
the hash map: `TypeCorrect`, `BufferIsLongEnough`, `InputsReachTheirNodes`,
`OrderDoesNotMatter`.  Its invariant follows the positions through the phases: the builder's
nodes are 1 and one Input node per place, in order (`BuilderNodes`); the optimizer keeps
that order, so that nothing but the first and the last node can be another kind and the
first run of Input nodes is all of them (`OptimizedNodes`), which is what `get_inputs_size`
relies on without saying so; the places of different inputs are disjoint
(`PlacesOfInputs`), so that no round of the loop of `populate_inputs` overwrites what another
one wrote (`FilledBuffer`).

**`Storage_proofs`**, of the reader: `TypeCorrect`, and `ReaderIsByteStream`: every step of the reader,
with any short reads and errors, is a step of `ByteStream` or none, under the refinement that
takes the bytes given back (which the code keeps in reverse) before those of the file.

Of the graph file, for graphs of any number of nodes, messages of any length and
any size of a digit: `FileTypesCorrect`, `RoundTripHolds`, `OffsetIsOfMetadata`, `OnlyTheEndIsLostHolds`.
A number is found again from its digits (`NumberOfDigits`), hence a varint in a buffer that
is filled with anything behind it (`VarintDecoded`); conversely the digits of what is decoded are those
that were read (`DecodedDigits`), so that the bytes given back after a number that takes fewer bytes
than were read for it were all zeros (`DecodedGivesBack`).  The invariant `FileInv` has a part for each process:

* the writer (`WriterInv`): its file is the first `written` chunks of the whole file, and a file it
  has left is a beginning of it; `ptr` is the position of the next chunk, and stays that of the metadata.
  `OnlyTheEndIsLost` would not be inductive without it, since it says of what is
  read that the writer wrote it;
* the reader (`ReadsGraph`), if what it has opened begins the file of a graph: it is *in step*
  (`AtLength`, `AtMessage`: the stream stands at the next length or message of that graph, with
  nothing but zeros behind the end of the file, and all nodes so far are right), or the file has ended within a
  length (`CutOff`), or within a node, which may then be wrong (`Lost`).  Once it is not in step, all that is
  left is blank, and the next length is 0: an empty message, which is no node.  So only one node
  can be wrong, the last, and a reader that has met it can accept nothing but the metadata: that is
  why no more than the end is lost.  Where the file is whole neither of the two can be.

**`CApi_proofs`**, for any set of blocks: `TypeCorrect`, `ClientsAreSafe` and `CallsDoNotLeak`.
Its invariant says for each place in a
call exactly which blocks are on the heap and which pointers hold them; the two
pointers are different blocks, without which freeing one would not leave the other.

Only model-checked, and why:

* the countdown of `ComponentsWaitForTheirInputs`, which needs of the compiler that it counts the
  stores of a component right and that every address it computes stays within the signals of
  the component it is for;
* the builder against the interpreter (`GraphComputesTheCircuit`, `WitnessIsTheCircuits`), which is
  recursive;
* that the inputs of the builder's graph are next to each other, which `InputsStayCovered` starts from:
  `init_input_signals` appends them one after another, to the constants of the compiler and before any template
  runs;
* liveness of the reader.

## 6. Not modelled

The Circom compiler (external: its output is the input of `Builder`), the
encoder and decoder that are generated for the protobuf messages (external: messages are
sequences of values), the writing of the wtns file (one call of another library), `parse_args`
and progress messages of the two command lines, the layout of what `-print-unoptimized`
prints, and the test script.  `-v` may add nodes for an expression it prints a second time
(`bin/build-circuit.rs:783`); it is left out.  A call whose result goes nowhere
(`ReturnType::Intermediate`, `todo!` at 633 and 1366) is modelled as what it is, a panic, by a call to
a signal.  The countdown of a component that would fall below 0 panics in a build that checks for
overflow and wraps in one that does not (2370): `PutSubcomponent` has both outcomes.

## 7. Plan

Done, in this order: operators; optimizer; graph file; inputs; builder; C interface; the
builder, the optimizer and the conversion to messages composed, up to the witness of
the circuit; errors of the underlying reader; types and numbers in input files; the proofs of
section 5, those of the composed build last.

Left, models:
1. compose `GraphStorage` with `WriteBackReader` in the place of the byte stream, which
   `ReaderIsByteStream` justifies leaving out so far;
2. evaluation in `CalcWitness` on all the nodes the optimizer leaves.

Left, proofs:
1. `ComponentsWaitForTheirInputs`, from assumptions on compiled programs: the countdown of a
   component is the number of signals its stores set, and no address, which is computed while
   the builder runs, leaves the signals of its component.
