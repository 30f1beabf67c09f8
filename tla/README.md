# DynVec (intelligent-unroll): specification and proofs

DynVec compiles a small expression over sparse data,

    y[row_ptr[i]] += data[i] * x[column_ptr[i]]

into vector code that is specialised for the *contents* of the index arrays.
It looks at every column of `Vector` (4, 8 or 16) consecutive indices, sums each
column up in three masks, groups columns with equal masks, lays the arrays out
again in the order of the groups, and generates one loop for each group. The
groups live in hash tables, the arrays, the code and the sizes of ranges are made
by separate walks over them, and the generated loops only move pointers forward.
Nothing at run time notices when two of these parts disagree: the result is a wrong sum.

This directory holds TLA+ modules of the whole pipeline, from the text of a lambda and
the file of a matrix to the sums that are compared at the end, TLC runs on small
instances, and TLAPS proofs, for every size and every input, about the feature table,
the arrays that are laid out from it, the code of a column, the loops that run over the arrays,
the parser, the worklist that orders the statements, the reader of matrices and the two
applications. The proofs about columns, arrays and loops come together in one result: what the vector
code and the scalar loop behind it compute is the lambda, for every content of the index arrays, if no two
features of the table have one hash.

## 1. Inventory

| Component | Source | State it keeps | Operations | Correct when |
|---|---|---|---|---|
| Feature extraction | `tools_set/tools_set.cpp` 28-295, `tools_set.hpp`, `configure.hpp` | `gather_map`, `scatter_map`, `reduction_map`: an `Info` per column | `generate_*_info_elem`, `generate_info` | the Info says enough to gather, reduce and store the column |
| Feature hash | `hash/hash_feature_table.hpp`, `tools_set.cpp` 296-326 | none | `HashCombine`, `get_feature_hash` | different features have different keys |
| Feature table, write patterns | `tools_set.cpp` 329-401 | `same_feature_map`, `same_feature_range_map` | `combin_same_feature_together`, `combin_same_write_pattern_together` | every column is in exactly one place; a range writes one location |
| Shuffle tables | `bit2addr/bit2addr.cpp` | tables of one mask | `get_max_len`, `generate`, `generate_compress` | the tree leaves the sum of a run in its first lane |
| Data transformation | `transform_data/transform_data.cpp` | new arrays, `need_data_num` | `malloc_new_data`, `rearrange_elem`, `rearrange_all` | arrays are filled within their size, in the order the code reads them |
| Optimization pass | `pass/state_optimization.cpp` | the statements of one loop, caches per name | `pass_(Load/Gather/Scatter/Add/Block/LetStat)`, `optimization_state` | each loop does what the seed does, and moves each pointer by what was laid out |
| Code generation | `llvm_lib/llvm_codegen.cpp` | LLVM values by variable, a **static** dispatch table | one `CodeGen_` per statement | vector operations mean what the pass assumes |
| Driver, applications | `intelligent_unroll/intelligent_unroll.cpp`, `app/spmv.cpp` | pointers to everything above | `compiler`, `spmv_dynvec`, `check_equal` | vector function + scalar remainder = the scalar program |
| PageRank | `app/pagerank.cpp`, `pagerank_read` in `csr_matrix.cpp` | edges, divisors, sums | read, plain loop, compiled columns, scalar loop | a node's rank is given away whole |
| Expression parser | `parse/parse.cpp`, `node/node.hpp` | the tree, `gather_set`, `scatter_set`, `load_set`, ..., a **static** position | tokenizer, recursive descent | the tree is the text; the sets say what it reads |
| Code seed | `node/node2state.cpp` | a worklist over the tree, `need_node_` | `generate_func`, `generate_code_seed`, `find_var_from_node_tree` | every node is emitted before its operands (and then reversed), once |
| Other passes | `pass/state_{pass,formulation,replace,redirect_var}.cpp` | renamed variables | formulation, traversal, redirection | a loop's constants are its own |
| Statements, types | `statement/*`, `type/*`, `ir_func.hpp` | trees | constructors with `CHECK`s, printing | the CHECKs never fail |
| LLVM library | `llvm_lib/llvm_module.h`, `llvm_common.*` | an LLVM module, a JIT | thin wrappers | external |
| Matrix reader | `io_matrix/csr_matrix.cpp`, `mmio.c` | counters, CSR arrays | `matrix_read_csr`, `mm_read_banner`, `mm_read_mtx_crd_size` | the arrays are the matrix, with the mirror images of a symmetric one |
| Timers, PAPI, logs, scripts | `Timer/`, `util/`, `log/`, `calculate.py` | counters | measuring, printing | no result depends on them |

How they interact: `compiler()` parses the expression into a tree and the sets that
say which array is loaded, gathered or scattered; the worklist turns the tree into
statements, formulation makes them vector statements; `generate_information`
extracts the features of every column, builds the feature table and splits off
ranges; `transform_data` walks both maps and fills the new arrays;
`optimization_state` walks both maps again and builds one loop per bucket from
the *first* column of the bucket, all of them from the one formulated seed and its
variables, which redirection then renames loop by loop; LLVM makes a function of it. `spmv_dynvec`
calls the function, then runs a scalar loop over the elements behind the last
whole column. Everything runs on one thread; the hard behaviours are therefore
not interleavings of threads but

* agreement of independent traversals (order of two `unordered_map`s; counting and
  writing by separate case analyses; a code shape decided from one column and data
  written for all of them),
* several loops made from shared, mutable variables, and indices read once for several
  uses,
* stale or partial data (a bucket whose columns were all erased but whose entry
  stays, keys that stand for masks without being compared to them, per-name caches,
  function-local statics),
* numeric edges (run lengths that are no power of two, ends of ranges, remainders,
  `need_data_num` of type `int`),
* giving up half-way (`LOG(FATAL)`, `CHECK`).

`PROJECT.json` lists them at their lines under *hazards*, with the properties
that cover each or the reason none does yet.

## 2. Modules

```
Features ── Bit2Addr ── VectorCode ── DynVec ── MCDynVec ── MCCollision
   │                        │           │ INSTANCE FeatureTable  (Table!)
   │                        │           │ INSTANCE TransformData (Transform!)
   │                        └─ Kernel ──┤ INSTANCE Kernel        (Run!)
   │                                    └ INSTANCE Accumulate    (Abstract!)
   └─ HashCombine ── FeatureHash ── MCFeatureHash
FeatureTable ── MCFeatureTable
      └──────── FeatureTable_proofs
VectorCode ── VectorCode_proofs
DynVec, VectorCode_proofs ── DynVec_proofs      INSTANCE FeatureTable_proofs (FT!)
                                  └── DynVecRun_proofs ── DynVecAdds_proofs

Nodes ── Parser ─────────────────────────────────┐
   └──── CodeSeed ───────────────────────────────┼─ FrontEnd ── MCFrontEnd
Statements ── SeedStatements ── Optimization ── CodeGen ┘   │ INSTANCE Compiler (Seeding!)
Parser, CodeSeed ── Compiler
Compiler, Parser_proofs ── Compiler_proofs

CsrMatrix ── Applications ── MCApplications
                   └── Applications_proofs
```

Three compositions cut the program where one part hands few data to the next:
**FrontEnd** goes from the text to the values a loop stores, for any lambda and with the
Infos of the columns chosen freely; **DynVec** goes from index arrays to sums, for the
lambda of spmv, with the Infos extracted; **Applications** goes from a file to the comparison of
the sums, with the compiled function as what DynVec shows it to be.

**Accumulate** is what the program promises: every element's product is added to
its row exactly once, in any order and grouping. It is the loop body of the scalar
program (`spmv_dynvec`'s remainder loop) without order. Addition is symbolic: a
location of `y` holds the *bag* of products added to it, so a lost, repeated or
misread product shows, and the order of floating-point additions does not.
(`spmv_local`, the reference of the application, starts its sum at `y_ptr[i]` and then
adds it to `y_ptr[i]`; it agrees with this only for the zero `y` the application
starts from, so the remainder loop and not `spmv_local` is what is translated.)

**Features** translates the `generate_*_info_elem` functions: order type, change
mask, the indices and the permutation words kept, and the rounds of a reduction of rows
in disorder. An Info is a record `[order, mask, index, perm]`.

**HashCombine**, **FeatureHash**: 64-bit arithmetic in four 16-bit limbs (TLC's
integers have 32 bits), the key `get_feature_hash` makes for spmv, and the loop that
fills the table with keys: of a table in `Tables` that has columns of some features, and of one column more.

**FeatureTable**: the two loops that build the table. Each iteration of each loop in
the code is an action.

| Code | Here |
|---|---|
| `combin_same_feature_together`, one iteration | `CombinSameFeature` |
| `unordered_map` walked by `combin_same_write_pattern_together` | `todo`, any order |
| test of the first column, early `continue` | `BeginBucket` |
| loops over `begin_index` and `j` in `..._elem` | `ExtendRun`, `TakeRun` |
| compaction, `erase`, the entry in the range map | `EndBucket` |

A feature and a location are opaque values, the hash any function.

**Bit2Addr**: runs of a mask, the shuffles of each round of the tree, the compressing
shuffle.

**TransformData**: `rearrange_all` on the four arrays of spmv (`data`, `gather` =
`column_ptr`, `scatter` and `reduction` = `row_ptr`), an array at a time, a column per step;
counting (`NeedOf`) and writing (`EntriesOf`) are separate definitions as they are
in the code. `visit`/`offset` record where each column's entries begin.

**VectorCode**: what the generated code for one column computes: the five shapes of a
gather, the three of a reduction, the three of a store, in terms of what
`CodeGen_` makes of `Shuffle`, `Reduce`, `Scatter`, ... Reading past an
array or past `x` gives `Garbage`.

**Kernel**: the generated function: a loop for each bucket, a double loop for each
bucket of ranges, the pointers of the four arrays, and the scalar loop behind it.
One action is one iteration of a loop.

**DynVec** composes them: `phase` is the call `compiler()` is in. It adds the
hand-overs: the orders in which the maps are walked to lay the arrays out (`FixMapOrder`), to make the loops
(`EndTransform`) and to list the sizes of the ranges (`EndCode`); the first
column of a bucket, also of an emptied one, which fixes the loop (`FirstColumn`); the two
ways of giving up (`unsupported` for `LOG(FATAL)`, `check_failed` for the `CHECK` of
`Select`).

**Nodes** is the tree of `node.hpp`: nodes are numbered as they are made, and `need_node`
counts users. **Parser** is `ParseClass`. A text is a sequence of tokens; calls of
`ParseInputExpr` within one another are a stack of what waits for their result.

| Code | Here |
|---|---|
| `get_next_token`, static `index` | `TokenAt`, `Past`, `Read`, `index` |
| the loop of `Parse` | `BeginParse`, `ParseEnd`, `ParseTypeWrong`, and one action per section |
| one turn of the loops of `ParseInput`, `ParseLambda` | `ParseDeclaration`, `ParseLambda` |
| `ParseInputExpr` up to its first inner call, after each inner call | `Operand`, `EndIndex`, `Operator`, `EndRight` |
| `ParseExpr`, after the subscript, after the data | `ParseExpr`, `EndSubscript`, `EndData` |
| `LOG(FATAL)`, a null pointer followed | `Stop("fatal")`, `Stop("crash")` |

**CodeSeed** is the worklist: `TakeNode` is one turn of its loop up to the first operand,
`FindVar` one call of `find_var_from_node_tree`. **Statements** gives every constructor of
`statement.hpp` with its `CHECK`s and the type of its result. **SeedStatements** has the
variables of `generate_func`, the statement of each node and `FormulationPass`.
**Optimization** has `OptimizationPass` (`PassGather`, `PassLoad`, `PassAdd`, `PassScatter`),
`OptimizationInnerReducePass` (`RangeLoop`) and `RedirectVarPass`, each as an operator on a
record that holds the pass's own state: the variables and their current types,
`load_index`, the statements made. **CodeGen** goes through the statements as
`LLVMCodeGen` does, keeps what value each variable holds, and refuses what the code
or LLVM refuses: an unknown variable, a constant defined twice, a value used outside the loop
that defines it, unequal operands, a permutation there is no instruction for. Values are
*terms*: `stored` is the expression the loop computes.

**FrontEnd** composes these: `pc` is where `compiler()` is. `CallAgain` is a second call
in the same process, in which only the static variables keep their values: the position
of the tokenizer and the dispatch table of `CodeGen`.

**Compiler** is `compiler()` as the parser and the worklist see it: the two of them as they are,
and the stages around them as steps that leave the tree and the lists alone, or end the
process. It is what `FrontEnd` shows to outsiders: `FrontEnd` implements it (`ImplementsCompiler`),
and since it uses no recursive operator the proofs can be about it.

**CsrMatrix** is `matrix_read_csr`: each of its loops is an action (`ReadEntry`,
`CountMirror`, `Scan`, `Fill`). **Applications** adds `main` of both programs:
the row of every slot, `pagerank_read`, the plain loop, the columns of the compiled
function, the scalar loop and `check_equal`. A location of `y` holds the bag of terms added
to it.

The modules with names in **_proofs** have the theorems of section 4, each those of the module
it is named after. `DynVecRun_proofs` and `DynVecAdds_proofs` go on with `DynVec`; `Parser_proofs` begins with the
lemmas on users of a node, which `Compiler_proofs` needs for the worklist as well, and `VectorCode_proofs`
with the lemmas on sums and sequences that all of `DynVec` needs.

The **MC** modules define inputs. `JoinedAnywhere`, `CircleNumOfAll` and the other
definitions with a comment that begins with "Mutant" are wrong versions of the
definition that follows them. They are used by no specification: PROJECT.json pairs each
with the property that fails once it takes the place of the right one.

## 3. Runs

| Run | Instance | Checks |
|---|---|---|
| `feature_table` | 5 columns, 3 features (two that write one location, one of which collides with the third), 2 locations; all inputs, all orders: 153,248 states | `TableTypeOK`, `ColumnPlacedOnce`, `RangeWritesOneLocation`, `TableBuilt` |
| `feature_hash` | all 1,408 features of a column of four lanes, in one table; the 130 features of columns of eight lanes that write one location, and beside them each of the other 17,030 | `BucketForEachFeature` |
| `one_column_4` | 1 column of 4 lanes and 1 element behind it; all 625 vectors of indices below 5, all supported rows below 3; float and double: 360,820 states | `ResultOfLambda`, `ImplementsAccumulate` |
| `one_column_8` | 1 column of 8 lanes and 1 element; all 256 vectors of two rows, all steppings, a family in disorder; float and double: 99,627 states | `FilledWithinMalloc`, `ImplementsAccumulate` |
| `one_column_16` | 1 column of 16 lanes and 1 element; one location, and rows in disorder up to four rounds | `ImplementsAccumulate` |
| `kinds_4` | 3 columns of 4 lanes and 1 element; each of nine kinds for each column, all orders of the maps: 107,001 states | `StreamsAligned`, `RangesWriteOneRow`, `ResultOfLambda` |
| `ranges_4` | 4 columns of 4 lanes, each of one location or with rows in disorder; float and double: 43,516 states | `StreamsAligned`, `ColumnsVisitedOnce`, `ImplementsAccumulate`, `Termination` |
| `kinds_8` | 2 columns of 8 lanes and 2 elements, reductions of different numbers of rounds; float and double: 29,810 states | `StreamsAligned`, `ImplementsAccumulate`, `Termination` |
| `front_end` | 99 programs: 16 lambdas on AVX512 and AVX2, three of float and int (PageRank's among them), texts cut short or not supported; each Info of each index in one loop, pairs of loops for two of the texts; called twice: 52,081 states | `CodeComputesExpression`, `StreamsAdvance`, `PlainCompiles`, `DispatchIsCurrent`, `ParsedAsWritten`, `UsageMatchesTree`, `TreeIsParsed`, `OperandsBeforeUse`, `EmittedOnce`, `NothingLeftOut`, `ImplementsCompiler`, `Termination` |
| `applications` | matrices of up to 3 rows with up to 3 entries in all orders, general and symmetric, with and without values; graphs of 3 nodes with up to 3 edges; refused headers; columns of 2 elements: 15,931 states | `EntriesPlaced`, `SumsAgree`, `RankGivenAway`, `SlotsWrittenOnce` |
| `collision` | 2 columns of 8 lanes, the real hash | violation of `ImplementsAccumulate` |
| `select_types` | 1 column of 8 double lanes | violation of `SelectTypesEqual` |

`ImplementsAccumulate` is the refinement: `done` is mapped to the elements of the
columns that have been stored. It is a step property: every step of the program that
changes `y` adds exactly the products of the columns it stores. `ResultOfLambda` says
the same of the end state and covers the remainder. `StreamsAligned`
relates every pointer, at every iteration, to where `TransformData` put the entries of
the next column. `ColumnsVisitedOnce` says of the order of the visits that no column is in
it twice and none is missing: what a range takes from a bucket is neither kept by it nor
lost, whatever is in the ranges before.

The arrays, the loops and the sizes of the ranges come from separate walks over the two `unordered_map`s. That these have one
order is not assumed: `MapOrders` gives a walk the order of the last one only if the map has the keys it
had then, else any. What makes it the same is that the later walks are over the very maps of the earlier ones,
as `const` references, and nothing is inserted or erased in between; were one of them made over a copy,
`StreamsAligned` would fail (`MapOrdersAny`). The walks that fill the four arrays, one behind the other in
`rearrange_all`, are taken as one.

`RangesWriteOneRow` says what a range needs: y is read before its first column and stored
behind its last, with one location, so all the elements in it must have one row. `combin_same_write_pattern_together_elem`
looks at less than that: at the first column of the bucket, and at `data_index_[0]` of the others. `RangeWritesOneLocation` is
about these first locations alone. The rest is up to the key, and `feature_hash` shows with the real hash that no column
of eight lanes in such a bucket can be of another feature, whatever other collisions there are (finding 1).

`Termination` says how the program ends, not just that it does, from the columns alone (`Refused`, `ZerosDiffer`): one column
that cannot be served, anywhere, ends the work, after whatever has been summarised, laid out or generated; and nothing
else does, neither the order of a map nor which column happens to be the first of its bucket, nor a bucket
that has been emptied. As the columns of a bucket share the fate of its first one, this also depends on the key.

`CodeComputesExpression` compares the term a loop stores with the term of the tree, each
`x[c[i]]` replaced by the instructions that bring its lanes for the Info at hand. That these
instructions do bring those lanes is what the runs of `DynVec` show on arrays.
`StreamsAdvance` says the same of the pointers: after a column each has moved by the
entries that `TransformData` lays out for it. `PlainCompiles` says that no `CHECK`, no
`FATAL` and no instruction LLVM would refuse is met on the way. All three are about `Plain` lambdas,
`y[r[i]] +=` a term over arrays of one type, which

* do not use an index array as data, nor read `y` again;
* do not gather at the index they scatter to;
* read no data array twice;
* are float or double.

Each of these conditions is needed. Without the first the `CHECK`s stop
`y[r[i]] += y[i]`. Without the second `x[r[i]]` is left as it would be stored, a scalar
or the lanes of the masked load, and is multiplied in the wrong shape or the wrong lanes. Without the third
`d[i] * d[i]` multiplies the entries of two columns, because every `Load` moves the pointer on.
Without the last an int lambda stops in a `CHECK`. The run contains these
texts, so that dropping a condition from `Plain` makes TLC show each. No
document of the code promises such lambdas; the hazards list them. `y[i] += d[i]`
never compiles at all: its load of `y` belongs to no set and is dropped. Of plain
lambdas there is one that does not compile, reductions of doubles in disorder (finding 2,
`FloatZero`).

`ImplementsCompiler` is the refinement of `Compiler`: from the first call to the last step of
the second, each step of `FrontEnd` is one of the parser, of the worklist, or of a stage
that touches neither. In particular the tree the worklist starts from is the one the
parser left, and code is made from it only when the queue is empty.

`DispatchIsCurrent` holds for a reason that its reader should know: a second call never
gets to the code generator. The tokenizer stays at the end of the first text, finds no
lambda, and the process ends with `max_bits_` zero. Were the position reset (the
mutant does so), the static table would call the first, destroyed `LLVMCodeGen`. Whoever
repairs one has to repair the other.

`EntriesPlaced` compares the slots with the entries of the file as bags, so that a lost,
doubled or misplaced entry shows; `SlotsWrittenOnce` is the step property behind it.
`SumsAgree` is `check_equal` itself. `RankGivenAway` relates the divisors counted at one
end of the edges to the terms added at the other.

**Why the bounds are enough.** A column's code depends on its own Infos and, through the
pointers, on how much was read before. One column per width therefore covers the
code shapes; for four lanes that is every gather there is (only differences of
indices and whether one load reaches them matter: five indices give both), for
eight every mask of two rows. Three columns cover two buckets and a bucket of two
with another between them; four columns of one location cover ranges at the
start, the middle and the end of a bucket, two ranges in one bucket and emptied
buckets. Five columns in `FeatureTable` hold, in one bucket, a range, a lone column
and another range. The masks themselves are the key in these runs (`MasksAsKey`), so
that they show the code right *up to the hash*; `feature_hash` shows that the
real hash separates all features of four lanes, and those of eight that matter for
ranges, `collision` that it does not all of them. Walks with steps of 0 and 1 give every
mask of a column in order, and the features in disorder differ only in whether one load reaches the indices and in
the number of rounds. In `front_end` a loop is made from the seed alone; what loops have in common
is the seed's variables with the types the last loop left, so two loops show what any
number does. Two rounds of a reduction in disorder show the third: a round
only reads the last one's sum and its own permutation. Three entries are enough for a
row with two of them next to an empty row, for an image that falls in a row filled before and
one filled later, and for a diagonal entry between them; columns of two elements give
remainders of zero and one.

**Files.** The readers check neither that a file is complete nor that indices are in range;
the files of the runs are and do, except graphs with more or fewer edges than their header says,
which end in the phase `undefined`. Values are overwritten by random ones in the
code (`rand() % 10`, under a comment that says they are set to 1), so a slot's value stands
for itself after the reader is done.

**Fairness.** Each specification is one sequential program: weak fairness of its
whole next-state relation (`WF_vars(Next)`, `WF_table_vars(TableNext)`), that is, the
thread goes on while it can. Nothing more is assumed: the orders of the maps are
arbitrary and not fair. `FrontEnd` assumes weak fairness of the two parts that loop
over something that changes, the parser (`ParseStep`) and the worklist (`CodeSeedStep`), and
shows that both end, whatever the text. `CHECK_DEADLOCK FALSE` is set because the programs end.

### Findings

1. *Two features, one key.* Columns are grouped by the 64-bit value of
   `HashCombine` alone (`tools_set.cpp:337`) and get the code of the first column of
   the group. The gather masks `0xcf` and `0xf5` of two stepping columns of eight lanes, with rows
   of mask `0x29`, have one key; the second column reads the wrong elements of `x`.
   The run `collision` shows it with the arrays in `MCCollision`.
2. *A CHECK that fails for doubles.* `pass_(Add)` selects between a vector of
   float zeros and the products whatever their type (`state_optimization.cpp:417`); the
   constructor of `Select` insists on equal types (`statement.hpp:794`). For double
   arrays any column of eight lanes with rows in disorder that repeat ends `compiler()`. The run
   `select_types` shows it. The other runs treat it as the end of the program.

## 4. Proofs

All theorems hold for every value of the constants that satisfies the assumptions of the modules.
Each safety property comes from an inductive invariant that TLC had checked
on the runs' instances before it was proved. The proofs need no more than the
library's facts on finite sets, sequences and well-founded order; there is nothing they take
on trust.

### The feature table

`FeatureTable_proofs` proves of `FeatureTable`, for any number of columns, any
features, locations, any hash function (with collisions) and any order of the
walks:

| Theorem | States |
|---|---|
| `Invariance` | `TableSpec => []IInv` |
| `TypeCorrect` | `TableSpec => []TableTypeOK` |
| `PlacedOnce` | `TableSpec => []ColumnPlacedOnce` |
| `RangeOneLocation` | `TableSpec => []RangeWritesOneLocation` |

The only assumption is `TableAssumption` of `FeatureTable`: the number of columns is a
natural number, the hash is a function on the features, and `NoKey` is not one of its values.

The properties are not inductive: that a column appears once in a bucket
says nothing about the one appended next, and a run that is cut says nothing about
the columns before it. `IInv` adds:

* `BucketOK`: a bucket holds columns of its key in ascending order, all already dealt
  with. Ascending order is what excludes duplicates, and what makes "next in the bucket and
  next in the table" mean neighbours.
* `PhaseOK`: no ranges before the walk; a bucket still to be walked has none.
* `IdleOK`: between two scans the scan's variables are at their start.
* `RunOK`: the run being followed is made of neighbours of one location within the
  bucket.
* `DealtOK`: what the scan has kept or given to a range lies before the
  rest of the bucket; so compaction cannot repeat a column.
* `RangesOK`: ranges are apart, ascending, of two columns at least, of one key and one
  location.
* `PlacedOK`: a column is held by the bucket of its key exactly if no range covers it.
  It is stated with `Holds`, which avoids the concatenation in `Held`; `HeldFacts` relates
  the two.

There is one lemma per action (`CombinInv`, `BeginBucketInv`, `ExtendInv`, `TakeInv`,
`EndBucketInv`, ...), with a step per part of `IInv`. `RunFacts` collects what ends a
run, which `TakeInv` needs for both of its cases. `IInv`'s consequences are drawn in the
last two theorems. `TableDone` and `NoneLost` say what the finished table is to its user: buckets
and ranges are apart, and together they have every column.

### From the table to the arrays

`DynVec_proofs` takes this table, as it is instantiated by `DynVec`, on to the arrays of
`transform_data`:

| Theorem | States |
|---|---|
| `Handed` | `Spec => []DynVecInv` |
| `EveryColumnVisitedOnce` | `Spec => []ColumnsVisitedOnce` |
| `ArraysFilledWithinMalloc` | `Spec => []FilledWithinMalloc` |
| `RefinementAddsEachOnce` | `ImplementsAccumulate => []EachAddedOnce` |

The first three have the hypothesis `NoKeyIsNoHash`: `NoKey`, which stands for "no bucket is
being walked" in the model, is not the hash of a feature. (It is no `ASSUME` because TLC cannot
go through all triples of naturals; in the runs `NoKey` is a model value.) They hold with
colliding hashes, too. `InputAssumption`, `SizeAssumption` and `VectorAssumption` are those of the code:
4, 8 or 16 lanes, index arrays of `data_num` elements with indices in range.

`DynVecInv` says for each phase what has been handed to it: until the table is done `IInv`
of the table; from there on that the orders of the visits have every column once (`OrdersOK`), and that the
last walks were over the keys of the maps (`WalksOK`);
of the Infos that an Info of any column fits it (`InfosOK`): an index list of `mask` entries or of one, permutations of
the right number of words; and while arrays are filled that the array
has at most the entries for which the columns visited so far were counted (`FillOK`).

* *Infos.* `GatherInfoFits`, `ScatterInfoFits`, `ReductionInfoFits` compare what
  `rearrange_elem` writes with what `malloc_new_data` counts, case by case. With four lanes the count is a packed
  permutation, which `NibblesArePositive` shows is at least one; with more, the words of up to
  four rounds fit `(Vector * mask) \div 4` (`FlattenLength`).
* *Sums.* `malloc_new_data` sums over columns and `rearrange_all` goes through visits. A sum is taken as
  the size of a set, `Weight`: `g[x]` pairs for each `x`. The sum of the library is defined by recursion
  over subsets; `SumIsWeight` shows that it is this size, by a smallest subset for which it would
  not be. What the visits so far have been counted for is then a part of the whole
  (`VisitAdds`), as long as no column is visited twice.
* *Walks.* `FlattenSeqs` and `FlattenHas`: sequences without common elements, one behind the other,
  have each element of each of them once. `VisitsOnce` uses it three times: for buckets, for the
  ranges of a bucket and for the columns of a range.

`RefinementAddsEachOnce` says what the refinement of `Accumulate` is good for. `ImplementsAccumulate` is about
steps; the theorem draws from it that in every state a location of `y` has the products of the
elements added so far, each once, which `BagOfProducts` carries over a step.
That `DynVec` implements `Accumulate` is the last of its proofs, `DynVecAccumulates`.

### From the arrays to the result

`DynVecRun_proofs` follows the generated code through the arrays:

| Theorem | States |
|---|---|
| `Planned` | `Spec => [](DynVecInv /\ PlanInv)` |
| `EveryElementAdded` | `Spec => []AllElementsAdded` |
| `ResultWhenDone` | `Spec /\ ImplementsAccumulate => []ResultOfLambda` |
| `StreamsStayAligned` | `Spec => [](FeaturesApart => StreamsAligned)` |

They have the hypothesis `NoKeyIsNoHash` of `DynVec_proofs`. `ResultWhenDone` has the refinement of `Accumulate` as a
hypothesis as well, and none on the hash: whatever breaks the result breaks a step. The refinement says that an iteration adds
just the products of its columns, and nothing twice; not that the iterations are enough. That they are is
`EveryElementAdded`: when the function returns, the columns executed and the elements of the remainder loop are all
elements there are. Where features do not collide the hypothesis is proved below, and the result with it.

`transform_data` and the code generator walk the same maps apart from one another. One lays columns
and ranges out in arrays, the other makes a loop for each bucket, with a count, and the code has
only running positions to find its data with. `PlanInv` relates the two:

* `LayoutOK`: `column_order` and `scatter_order` are the buckets one behind the other and then the
  columns, or the first columns, of the moved ranges; each column has the key of its bucket;
* `CodeOK`: the loops generated are the first of the plan (`CodeOf`), with the counts of their buckets;
* `PlaceOK`: `executed` is the number of the columns of the loops before, plus those of the iterations
  done, plus those taken of the range at hand; `range_pointer` counts the ranges begun.

`Before(lens, b)` is the length of the first `b - 1` pieces, `FlattenAt` says where the flattened
sequence has the element of a piece, and `PlacesAre` from these which column stands at `executed`. The tables, the
orders and the maps are constant from here on (`Frame`): the last walks met the keys the maps still have (`WalksOK`),
so the next ones have their order (`WalksStay`). `DoneAdded` takes `PlaceOK` at the end of the last loop: `executed` is the
length of `column_order`, which has every column once by `ColumnsVisitedOnce`.

`StreamsStayAligned` is about the contract that no line of the code states: `rearrange_elem` writes for each column
as many entries as *its* Info asks for, and the generated loop moves its pointers on by what the
Info of the *first* column of the bucket asks for. Its hypothesis `FeaturesApart`, no two features of the table have one
hash, is what the code takes for granted; finding 1 is a table for which it does not hold, and the
runs `kinds_4`, `kinds_8` and `ranges_4` have a key without collisions. `AlignInv` says, phase by phase:

* `StaticOK`: an Info is one `extract_feature` makes, and the feature of a column is its
  three Infos packed, from which order and mask can be read again (`MasksApart`); ranges are found only of features that write one
  location (`RangesEquel`). So two columns of one key have Infos of one order and mask (`SameShape`);
* `RecordingOK`, while `transform_data` runs: each visit of an array is recorded behind the
  one before, with as many entries as `malloc_new_data` counted for it, through the change from one array to the
  next; `RecordedAll` is what is left of it in the end;
* `AlignOK`, while the code runs: each pointer is behind the entries of the columns executed, the one of the scatter
  array behind those of the buckets and of the *ranges* begun, and `executed` counts the columns of
  the ranges begun, except what is left of the one that runs (`ScatterVisitsAre`, `SumOfSizes`).

`EntriesTaken` compares the two sides once, Info by Info; the rest is about where a column stands.

### The code of a column

`VectorCode_proofs` relates what `Features` extracts from a column and what the code made for that Info computes,
for 4, 8 and 16 lanes and every content of the column:

| Theorem | States |
|---|---|
| `GatherBrings` | the gather brings to lane `l` the value of `x` at `idx[l]` |
| `StoreAdds` | gather of `y`, reduction and store together add to each location the lanes whose row it is, and leave the other locations alone |

Both take an Info of which only order and mask are the column's, since that is all the code is made from, and the
entries of the column in the arrays at the place the pointers give (`GatherReads`, `ReductionReads`, `ScatterReads`).
The lanes hold bags of arbitrary sets without common elements, so a lane that is lost, doubled or sent to another row shows.

* *Words.* A permutation is packed into integers and unpacked by the code: bytes, or nibbles with four lanes
  (`WordsUnpacked`, `NibblesUnpacked`), and a mask is a sum of powers of two whose bits are the lanes (`MaskBits`).
* *Gathers.* `ContinueBrings` for the steppings, where a lane's index is the first one plus the changes
  before it (`UptoSteps`, `StepsCount`); `OneLoadBrings` for columns in disorder that one load reaches from the least
  index on; otherwise the gather by index.
* *The tree.* For rows that come in runs, `Ahead(mask, l, p)` is what lane `l` has collected when the
  distance of the shuffles has grown to `p`, if it stands at a multiple of `p` in its run: the lanes from `l` on,
  less than `p` ahead, within the run. `TreeRound` doubles `p`, and when the longest run is reached (`RunsFit`) the first lane of each run has
  its sum; `NthRun` says that the compressing shuffle brings it where the store takes it.
* *Rounds.* For rows in disorder, a round pairs the lanes of one row and moves one of each pair to the other;
  `OwnedRound` says that the lanes still live own between them every lane of their row once. A round leaves at most half
  of them, rounded up (`HalfStay`), which is why as many rounds as the code makes are enough (`RoundsEnough`), and in the
  end the one lane of a row that is stored holds all of it (`OneHolds`).

### The result

`DynVecAdds_proofs` puts the arrays, the plan, the pointers and the code of a column together:

| Theorem | States |
|---|---|
| `ResultIsTheLambdas` | `Spec => [](FeaturesApart => ResultOfLambda)` |
| `RangesStoreOneRow` | `Spec => [](FeaturesApart => RangesWriteOneRow)` |
| `DynVecAccumulates` | `Spec /\ [](phase = "run" => FeaturesApart) => ImplementsAccumulate` |

The hypotheses are `NoKeyIsNoHash` and `FeaturesApart`. The second cannot be dropped: finding 1 is a table with two
features of one key, and the run `collision` shows how the refinement fails there. It is a condition on the table of
the input at hand, not on the hash: a hash that collides on other features does no harm. `AddInv` has the parts

* `InfosAre`: the Infos of a column are those of its slices of the index arrays; `RangesLocated`: the columns of a range
  begin with one row, and by `RangeRows` have no other;
* `HeldOK`: from the place recorded for a visit on there lie the entries `rearrange_elem` writes for that column.
  `StreamsAligned` says that the pointers are at that place, `VisitLies` that the code therefore reads
  these entries, `LoopInfos` that the loop was made for the order and mask of this very column;
* `SumsOK`: `y` holds the products of the elements added (`Sums`), each once. Within a range nothing is stored; the sums of the
  range hold, lane by lane, the products of the columns taken so far, and `loaded` is what `y` held before.

`GroupStored` is `StoreAdds` for a group of columns with one vector of rows: one column of a bucket, or all of a
range. There is a lemma per action of the kernel (`RunColumnSums`, `BeginRangeSums`, `RunRangeColumnSums`,
`EndRangeSums`, `NextLoopSums`, `RunScalarSums`): the sums are those of `AddedElements` before and after, and the
elements added are new ones. This is all that a step of `Accumulate` is. Before the function runs, nothing is added
(`NothingYet`). As `DynVec` has the operators of `VectorCode` twice, also through the instance `Run!`, the module begins with
lemmas that say they are the same.

### The parser

`Parser_proofs`, for every sequence of tokens and every nesting:

| Theorem | States |
|---|---|
| `ParserInvariant` | `ParserSpec => []ParseInv` |
| `ParsedTreeIsShaped` | `ParserSpec => []TreeIsParsed` |
| `ParsedUsageMatches` | `ParserSpec => []UsageMatchesTree` |

There is no assumption. Both properties are about the end of a
parse and `ParseInv` is what holds before it:

* `NodesOK`, `CountOK`: operands are older than their users, and `need_node` is the number of uses;
* `StackOK`: the calls within one another, `ParseExpr` below all others, and the nodes they wait with;
* `LooseOK`: a node with operands that nobody uses yet is held by a call or is the result just
  returned, so that at the end only the root is unused;
* `UsageOK`: what `load_set` and `gather_set` are while the data is read. `load_set` loses an array when it
  is found to be an index; so a load that is no index has its array in `load_set` or among the index
  arrays. `UsageMatchesTree` therefore speaks of texts whose index arrays are not data.
* `DeclsOK`: what is declared has a type.

There is a lemma for each action. `CreateKeeps` is about all that make nodes, `CreateOne` and
`CreateThree` about one node and about the three of a gather; `IndexNodesGrow` says which loads become
indices.

### The worklist

The first half of `Compiler_proofs` is about `CodeSeed`, for any tree a parse can leave (any number of nodes,
any sharing):

| Theorem | States |
|---|---|
| `SeedInvariant` | `SeedSpec => []SeedInv` |
| `SeedOperandsBeforeUse` | `SeedSpec => []OperandsBeforeUse` |
| `SeedEmittedOnce` | `SeedSpec => []EmittedOnce` |
| `SeedNothingLeftOut` | `SeedSpec => []NothingLeftOut` |

There is no assumption on constants. `SeedInit` admits the trees of `ParsedTree`: operands are
older than users, only the root and the nodes without operands may be unused, and `need_node`
counts the uses. That the parser leaves only such trees is `ParsedTreeIsShaped`; the second half of
the module puts the two together.

The code keeps a number per node; the proof keeps the set of uses that number counts. A use is
*pending* until `FindVar` has seen it. `SeedInv` says:

* `PendingOK`: `need_node` is the cardinality of the pending uses;
* `ReadyOK`, `CompleteOK`: a node is in the queue or emitted exactly when it is the root or
  has users and none of its uses is pending;
* `OnceOK`: queue and emitted nodes have no duplicates, and are apart;
* `TreeShape`, `ListsOK`, `TopOK`: the tree keeps its form, queue and emitted nodes are nodes,
  and the node whose operands are being found has been emitted;
* `OperandsBeforeUse` itself, which is inductive with these.

`TakePending` and `FindPending` say how the pending uses change; the cardinality of a
finite set less one element carries `PendingOK` over. For
`NothingLeftOut` suppose that, with the queue empty, an operand of an emitted node is missing. It
has a use that is not seen, so one of its users is missing as well
(`MissingHasMissingUser`). Users are younger than their operands, so there is a youngest missing node,
which has none (`WellFoundedInduction` on the naturals).

### The compiler

The rest of `Compiler_proofs`, for every text and any number of calls in a process:

| Theorem | States |
|---|---|
| `CompilerInvariant` | `CompilerSpec => []CompilerInv` |
| `CompilerParsesTree`, `CompilerUsageMatches` | `CompilerSpec => []TreeIsParsed`, `[]UsageMatchesTree` |
| `CompilerOperandsBeforeUse`, `CompilerEmitsOnce`, `CompilerLeavesNothingOut` | `CompilerSpec => []OperandsBeforeUse`, `[]EmittedOnce`, `[]NothingLeftOut` |

Of the tree nothing is assumed any more. `CompilerInv` has three cases, by `pc`: `InParser`, where `ParseInv`
holds and the lists are empty; `BeforeSeed`, where the tree, if there is one, is a parsed
one; `InSeed`, where `SeedInv` holds, also behind the worklist, since nothing changes tree or lists there. The lemma
on the next call needs no more of the last one than that it is over: all but the position of the
tokenizer is new, and the invariant of the parser says nothing of it.

`FrontEnd` has recursive operators, behind which tlapm has no SMT solver; that its steps are those of `Compiler`
is shown by `ImplementsCompiler` in the run `front_end`, for the texts of that run. The five properties
hold of every specification that implements `Compiler`.

### The reader and the applications

`Applications_proofs`, the reader first:

| Theorem | States |
|---|---|
| `ApplicationsInvariant` | `Spec => []AInv` |
| `ReaderPlacesEntries` | `Spec => []EntriesPlaced` |
| `ReaderWritesOnce` | `Spec => SlotsWrittenOnce`, an action property |
| `KernelAndTailAgree` | `Spec => []SumsAgree` |
| `NodesGiveRankAway` | `Spec => []RankGivenAway` |

They assume what the code takes for granted: files are complete (`FilesAssumption`: as many entries as the header
says, with indices in range), the edges of a graph are between its nodes
(`GraphsAssumption`; there may be more or fewer of them than the header says), and a vector has a lane
(`VectorNumsAssumption`). Sizes, contents, repeated entries and the number of lanes are arbitrary.

`RInv` of the reader counts *places*: the first `h` entries and the images of the first `t`. `Count(h, t, r)`, those
in row `r`, is what `counter[r]` holds in the first two loops. `ScanOK` follows the prefix
sum that overwrites the counts it still needs; `Starts` says that the rows lie one behind the
other. While the arrays are filled, the slot of a place is the start of its row plus the places of earlier
entries there (`SlotOf`), and `FillOK` says that the slots below the counters hold these places and the
others none; so a write hits a free slot (`NewSlotFree`, hence `SlotsWrittenOnce`),
and in the end every slot has the entry of one place (`SlotHasPlace`, `PlacesDiffer`).

`AInv` adds the expanded rows, the neighbours counted by `pagerank_read`, and that `y` and `y_bak` are the sums of
the terms up to where each loop has got to, in whole columns for the compiled function
(`RunKernelStep`) and singly behind it. `GivenAlongEdges` relates the divisor of a node, counted at one end
of the edges, with the terms added at the other. The compiled
function adds its columns in one step here, as in the model; that it adds these and no others is `DynVecAccumulates`.

## 5. Only model-checked, and not modelled

Only model-checked:

* *Liveness*, `TableBuilt` and `Termination`, which the prover does not reach.
* *That the real hash keeps the features of an input apart.* `FeaturesApart` is a hypothesis of the proofs about `DynVec`;
  `feature_hash` shows it for columns of four lanes and for those of eight that write one location,
  `collision` that it fails for some others of eight.
* *What recursive operators compute*: the hash (`BucketForEachFeature`, which also uses bit operations) and the terms and
  statements of `FrontEnd` (`CodeComputesExpression`, `StreamsAdvance`, `PlainCompiles`, `ParsedAsWritten`). They would need
  induction over data, and tlapm loses its SMT solver in modules that reach them.
* *`DispatchIsCurrent`* and *`ImplementsCompiler`*, which are about `FrontEnd` for the same reason.

Abstracted: floating-point values (bags and terms), alignment, instruction selection, the
characters of a text (tokens). The parser of numbers is not in the code either. Integers
are exact but for the hash: `need_data_num` of the code is an `int` that a packed mask of four
lanes is added to, and overflows for about 170,000 such columns, which is outside these bounds.
The read past the end of `x` by the one load of a gather is a garbage lane here, never a fault.

Between the compositions: `FrontEnd` chooses Infos that `DynVec` extracts; `DynVec` has
one lambda, whose statements are those `FrontEnd` derives. `Applications` takes the compiled
function for what `ResultOfLambda` says.

Not modelled, and why:

* *LLVM and the JIT* (`llvm_lib/llvm_module.h`, `llvm_common.*`): external, thin wrappers.
* *Printing* (`statement_print.cpp`), *timers, PAPI, scripts, command lines*: no state a result depends on.
* *`state_replace.cpp`, `csr_spmv`, the writing and the generic reading functions of `mmio.c`*,
  `ComplexReduce`, `DetectConflict`, `InsertElement`, `ExtractElement`: nothing reaches
  them from the two programs.
* *A lambda that gathers at the index it scatters to* in `DynVec` and `TransformData`
  (`transform_data.cpp:324`): the statements made for it are wrong already, as section 3 says, so
  there is no right layout to compare with.

## 6. Plan

Done, in this order: `Features`, `Bit2Addr`, `FeatureTable` with its proofs, `VectorCode`,
`TransformData`, `Kernel`, `Accumulate`, `DynVec`, `HashCombine`; then `Nodes`, `Parser`,
`CodeSeed` with its proofs, `Statements`, `SeedStatements`, `Optimization`, `CodeGen`, `FrontEnd`;
`CsrMatrix`, `Applications`; then the proofs of parser, reader and applications, `Compiler` with its proofs,
and those of `DynVec`, up to the arrays, then of the generated code and of its pointers, then of the code of a
column and of the sums.

Left, in modelling: `need_data_num` with 32 bits (a bound of thousands of columns, so by a lemma
rather than a run: `NeedOf` is at most `4 + 13107` with four lanes).

Left, in proofs: `FrontEnd` with functions in place of its recursive operators, so that `ImplementsCompiler`
could be proved; and `StreamsAdvance`, which would tie the sizes by which the generated loops move their
pointers (`EntriesTaken`) to the statements the passes make.

## 7. Running

    tlc -workers 2 -config FeatureTable.cfg MCFeatureTable
    tlc -workers 2 -config DynVecKinds4.cfg MCDynVec
    tlc -workers 2 -config FrontEnd.cfg MCFrontEnd
    tlc -workers 2 -config Applications.cfg MCApplications
    tlapm FeatureTable_proofs.tla
    tlapm VectorCode_proofs.tla
    tlapm DynVec_proofs.tla
    tlapm DynVecRun_proofs.tla
    tlapm DynVecAdds_proofs.tla
    tlapm Parser_proofs.tla
    tlapm Compiler_proofs.tla
    tlapm Applications_proofs.tla

The longest run, `front_end`, takes about a minute, as do the proofs of the table and the compiler;
those of the parser, the reader and the code of a column take two to four, those of `DynVec` six to twelve each.
