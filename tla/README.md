# A TLA+ model of quuz

quuz is a small embeddable Scheme interpreter in C (`src/`, about 5 900 lines).
This directory holds TLA+ modules that model its core, TLC configurations that
check them on small instances, and TLAPS proofs of some of the properties for
every instance.

quuz is a single thread. What makes it hard is not concurrency but

* a synchronous **cycle collector** (reference counts plus trial deletion) that
  can start inside any `qz_unref`, while a caller is between two assignments;
* **errors** that `longjmp` over any number of C functions, whose references and
  environments must be put right by somebody else;
* **bounded buffers** (16 possible roots, 16 safety entries) shared by nested
  calls, and hash tables and arrays that move when they grow, under their users;
* **walks over structures** that may share cells and be cyclic, guarded by a bit
  in each cell or by nothing.

## 1. Inventory

| Component | State | Operations | Who uses it |
|---|---|---|---|
| cycle collector, `quuz-collector.c` | the info word of every cell (count, color, buffered), `st->root_buffer` | `qz_ref`, `qz_unref`, `qz_collect` | everything that owns a cell |
| hash table, `quuz-hash.c` | pairs, size, capacity | `qz_make_hash`, `qz_hash_get`, `qz_hash_set` | frames of variables, the two symbol tables |
| interpreter state and evaluator, `quuz-state.c` | `st->env`, `st->safety_buffer`, `st->peval_fail`, `st->error_handler`, `st->error_obj` | `qz_eval`, `qz_peval`, `qz_error`, `qz_push_safety`, `qz_pop_safety`, `qz_lookup`, `qz_alloc`, `qz_free` | the driver, the library |
| argument helpers, `quuz-util.c` | none | `qz_get_args`, `qz_eval_list`, `qz_printf` | the library |
| library, `quuz-lib.c` | none of its own; C locals that own references; the current ports | about 200 functions `scm_*` | Scheme programs |
| objects, `quuz-object.c`, `quuz.h` | the bits of a word and of a cell's info word; the symbol tables and `next_sym` | tagging, `qz_make_*`, `qz_equal`, `qz_make_sym` | everything |
| reader, `quuz-read.c`, `quuz.leg` | a stack of partial values | `qz_read` | the driver, `read` |
| writer, `quuz-write.c` | the dirty bit of cells | `qz_write`, `qz_display` | output |
| driver, `quuz-main.c` | the input file | a loop of read, `qz_peval`, print | the user |
| CityHash, `city.cc` | none | `CityHash32` (third party) | the hash table |

How they interact. The library and the evaluator call each other recursively:
`qz_eval` calls a C function with the unevaluated arguments, the C function calls
`qz_eval` for those it wants. References held in C locals across such a call are
also entered in the safety buffer, because an error leaves by `longjmp` to the
innermost `qz_peval`, which releases the entries above the size it remembers and
pops the environments it finds among them. Every `qz_unref` may append to the
root buffer and run a whole collection. The hash tables that hold the variables
are cells of the heap that the collector manages.

What each component must guarantee:

* collector: nothing reachable is freed, nothing freed is touched, counts are
  restored exactly, garbage stays findable, the root buffer never overflows;
* hash table: a search ends and finds exactly what was stored last, through
  reallocations;
* evaluator: after an error, environment, safety buffer, longjmp target and
  handler are those of the `qz_peval` that caught it; no reference is leaked or
  released twice; every error is handled or reported;
* library: each function keeps the discipline of the safety buffer and of
  ownership;
* variables: frames, slots and saved environments implement lexical scoping, also
  across errors and while tables move;
* symbols: two symbols never have the same name, and a name is neither leaked nor
  freed twice;
* writer: everything is printed, the dirty bits it sets it clears, and it returns;
* `equal?`: never says no to what is equal, nor yes to what is not;
* reader: what is read is what the text says; a failed parse leaves nothing behind.

The hazards that follow from this are in `PROJECT.json`, each with its line.

## 2. Modules

| Module | What it is |
|---|---|
| `HeapGraph` | cells, slots, reachability; shared by the two heap modules |
| `AbstractHeap` | what the heap promises: references are taken and dropped, a slot is cleared and filled, and a cell may disappear only when it cannot be reached |
| `Collector` | `quuz-collector.c`, every function, and the interpreter as the mutator |
| `MCCollector` | instances for TLC |
| `CollectorInvariant` | the inductive invariant of the collector |
| `CollectorProofs`, `CollectorPasses`, `CollectorCorrectness` | TLAPS proofs about `Collector`, each extending the one before: types and control, the counts and the steps outside the passes; the steps of the passes; what follows from the invariant |
| `FiniteMap` | what a hash table promises |
| `HashTable` | `quuz-hash.c` |
| `MCHashTable`, `HashTableProofs` | instances for TLC; proofs |
| `Library` | the notation for C functions as sequences of steps on references, safety buffer and environment; the evaluator, the special forms, promises and exceptions written in it |
| `LibraryObjects` | the library functions on numbers, lists, strings, vectors and ports in the same notation |
| `Interpreter` | the state of `quuz-state.c` and a machine that runs those steps on an explicit C stack |
| `Ownership` | the rules that each C function has to keep by itself, and the inductive invariant of `Interpreter` |
| `MCInterpreter`, `InterpreterProofs` | instances for TLC; proofs |
| `InfoWord` | the info word of a cell as bits |
| `Objects` | the two recursive walks over a structure: `quuz-write.c` and `qz_equal` |
| `MCObjects`, `ObjectsProofs` | instances for TLC; proofs |
| `LexicalScope` | what variables promise a Scheme program |
| `Variables` | what frames hold: closures, `let`, `let*`, `define`, `set!`, promises, `qz_lookup`, errors |
| `MCVariables`, `VariablesProofs` | instances for TLC; proofs |
| `Reader` | `quuz-read.c` and `qz_make_sym`, for any calls a grammar may make of it |
| `Grammar` | the calls `quuz.leg` makes for a text, what the text denotes, and that this is read |
| `MCReader`, `ReaderProofs` | instances of `Grammar` for TLC; proofs about `Reader` |

### Collector

The C functions of the collector are recursive. The model keeps the C call stack
in the variable `stack`: a sequence of pending calls, innermost first. A call
that visits the children of a cell pushes one pending call per slot
(`AllChildren`), and what the C function does after the visit is a pending call
of its own (`release_cell`, `free_cell`, the loops over the root buffer). A
pending call reads its slot when it runs, as `all_children` does. One action is
one C function body up to its next call: `DecrementToZero` and
`DecrementToPossibleRoot` are `decrement` with `possible_root`, `ReleaseCell` the
end of `release_cell`, `MarkRootsKeep`/`MarkRootsDiscard`/`MarkRootsDone` the
loop of `mark_roots`, and so on; `PROJECT.json` maps each to its lines. The
variables `rc`, `color` and `buffered` are the fields of the info word.

Cells have `Width` slots, as a pair has two. A vector or a hash is a cell with
more slots, and nothing in the collector depends on the kind. The slots of a
*record* are never visited by `all_children`; a record is a cell without slots,
which leaks what it holds, and is left out.

The mutator is the rest of the interpreter, known only by the references it owns
(`handle`). It makes cells, takes references to what it can read, drops them, and
overwrites slots. Overwriting is `SetSlot`, in the order of the code: `qz_unref`
of the old value, with everything that this may start, and then the assignment
(`Store`).

`exposed` is a history variable. A collection that starts while a pending call
has already given up the count of an edge that is still in the heap sees counts
that are too low. There are two such windows: between `qz_unref(old)` and the
assignment in every overwrite, and in `release_cell` of a cell that is still
buffered, whose children are unref'd before it is blackened. The collection that
starts there subtracts the edge a second time: the assertion on the count fails,
or a live cell is freed. This is a defect of the code (run
`collector_underflow`). `exposed` records that it happened, so that the other
properties can say what holds when it has not.

Reading a freed cell is undefined behaviour. The model stops (`UseAfterFree`),
with one exception. `collect_white` frees a white cell that is outside the buffer
as soon as its children are done, and may come back to it through another slot
of the same garbage cycle (run `collector_revisit`, the second defect). It then
reads the color of a freed cell. In that pass nothing is allocated, the cell was
black when it was freed, and the word it reads either still has its bits or is a
free-list link whose upper bits are zero, which also read as black. So the
model returns, as the program does (`CollectWhiteFreed`), and the read is no `fault`.
It is a touch of freed memory nevertheless: `TouchesFreed` is about what the next
step reads or writes, and `NoFaultButRevisits` says that this one read is the only
such step, where no collection was exposed.

### HashTable

`data`, `capacity` and `size` are the table. `hash_obj` is an arbitrary function
`hash` from keys to words chosen in the initial state. A probe looks at
`((hash[k] + n) % Word) % capacity`: the index is a 32-bit word that wraps, and a
capacity need not divide it. `get_hash` has no exit but a hit, so a
search of the model is defined only if some probe hits, and `ProbeTerminates`
says that one does. `HashSet` is `qz_hash_set`; when the load passes 7/10 it
starts `realloc_hash`, whose loop is one step per pair (`CopyPair`). The qz_unref
calls of `qz_hash_set` are overwrites of slots and are covered by `Collector`.

`realloc_hash` copies no pair whose value is unspecified, so such a key is unbound
after the table has grown (run `hash_forgets`, the third defect). `FiniteMap` says
so: it has a flag `busy`, set by a `Bind` that goes on with a reallocation, and only
while it is set may a key be forgotten (`Forget`), and only one whose value is
unspecified. Under the refinement a key is bound if the table, or the old
table while it is copied, has a pair for it (`MapNow`), and `busy` is `~ Idle`. So
each pair that is copied keeps the map as it is, each pair that is skipped forgets
an unspecified key, and no other step of a reallocation changes anything: a copy
that lost a pair with a value would violate `ImplementsMap`. The dropped pairs are
still counted in `size`, which `LoadBounded` follows.

### Library, LibraryObjects and Interpreter

`Interpreter` is the C stack of the evaluator (`calls`), the environment stack,
the safety buffer and the error state, run by every program at once: at each
`qz_eval` the expression may be a constant or a variable, may fail, or may be a
call of a Scheme function, of any library function, or of a value that cannot be
called. Which branch a condition takes is left open where it depends on data.

What a C function does to references is data in `Library` and `LibraryObjects`: a
sequence of steps
such as `Eval(x)`, `Push(x)`, `Unref(x)`, `Make(x, {y})`, or `Use(x)` where a
value is given to `qz_error`, which takes references of its own. `Maybe`, `Alt` and
`Loop` stand for conditions and loops, `GetArgs` and `EvalList` for `qz_get_args`
and `qz_eval_list`. Each definition has the name of its C function and follows
its statements in order; reads of borrowed references are left out. A new
function is audited by adding its definition, which is what the first line of
`src/TODO` asks for: *Audit library functions and make sure they don't leak
references if qz_error or qz_eval throw.*

Quasiquotation is a template inside a template: the recursion through `qq` is
written as the evaluation of an expression, which gives a reference or an error
just so. The functions that `define-record-type` generates (`make_record`,
`access_record`, `modify_record`, `is_record`) are functions of their own.

A reference is named by the call and the local that own it, and is *held*, *gone*
(released or given away), or neither (the value is no cell). Releasing one that is
gone, using one that is gone in an error, assigning a local that still owns one, popping more entries than there are,
pushing into a full buffer and jumping to a `qz_peval` that has returned are
faults: the program stops in the state in which the C program would be wrong.

The loop of `cleanup_safety_buffer` takes out one entry per step, releases it and, if it
is the environment in force, pops that. Nothing else runs between two of its steps,
and releasing one of its entries twice is a fault like any other.

`longjmp` is one step that drops calls up to the `qz_peval` that
`st->peval_fail` names. What their locals owned stays owned, and nobody but the
safety buffer knows it: that is what `NothingLost` is about. A call frame has a
history field `from`, what the caller expects to find again.

`Ownership` looks at each function alone. `Moves` says what a step does to the locals
that own a reference, to those whose reference was released, and to what the function
has in the safety buffer; `Locals[f]` is the set of states that the function reaches,
whatever its conditions and its calls do. The rules (`KeepsRules`) are what the C code
relies on without saying so: before anything that may raise an error, every reference
that is owned is in the safety buffer (`ExitRules`); a function takes out of the buffer
only what it has put there, releases nothing that it does not own, and assigns no
local that owns something (`NameRules`); the buffer is empty of the function's
own entries where its size is saved, an environment is pushed before the buffer
knows it and popped after, and a handler is installed exactly around a call of
`qz_peval` (`StateRules`). `OwnershipAssumption` says that the evaluator and the
functions in `Functions` keep them. It is a statement about constants: TLC evaluates it
in the run `interpreter`, for all the functions of the run, and a function that
breaks a rule stops the run there.

*What is not followed.* A reference that is given away (`Give`) is in a cell or in a
slot of the state, and the model knows no more of it. That is enough for a function
that does not come back to it. Three that do are in the library, and each is written
so that it breaks the rules and is outside the run:

* `with_file` (`with-input-from-file`, `with-output-to-file`) stores its port in
  `*port_slot` and expects it there after the call. When an inner one fails, and a
  `with-exception-handler` between the two catches that, the cleanup has released the
  inner one's entry, which is the outer one's port (`quuz-lib.c:2473`). The outer one
  then closes and unrefs it again (2480, 2481) and overwrites the inner port in the
  slot, which nobody releases (2478). In the model the slot gives back either the
  function's own port or the inner one;
* `scm_set_b` writes through a slot that may be in a freed table by then (`Variables`
  shows how, run `variables_set`). In the model the old value that it releases is then one that
  it does not own;
* `scm_define_record_type` checks that the name of the type and those of the fields
  are symbols, but not the names of the accessors and modifiers. They become
  keys of the environment's table, which takes no reference to a key
  (`quuz-hash.c:113`): right for a symbol, which is no cell, and one reference too few for a
  string, which the arguments of `define-record-type` also hold (`AnyName` in
  `make_function`).

### InfoWord and Objects

`InfoWord` translates `get_bits` and `set_bits` literally: a word is the set of its
bits that are one, and `set_bits` masks the field it clears but not the value it
puts there.

In `Objects` a program is a short sequence of walks over a structure that does not
change. `stack` holds the pending calls of `write_object`, of the loop over a list
(`WriteList` at a pair, `WriteRest` behind its first), of the loops over vectors and
hashes and of `write_pair` (`WriteSlots`), of `qz_equal` and of its loop over vectors.
What is printed is the set of cells printed out and the set printed as `...`.

Two facts about the code shape the properties. `write_cell` marks the first pair of
a list and then loops over the others without marking them; and `clear_dirty`
stops at the first cell that is not marked. So the marks set below a list's second
or later pair survive the walk. Nothing else survives it (`DirtOnlyBehindTails`);
the next walk prints `...` for what the marks hide, and exactly up to there
(`PrintsUpToMarks`). And a list that is circular through its rests is written for
ever, the only structure that is (`WriteReturns`; the second line of `src/TODO` knows).

`qz_equal` compares the rest of `b` with itself (run `objects_equal`). What its answers
do mean is `EqualAnswers`; `Similar` is the largest
relation that respects types, data and slots, which is equality of the unfolded
structures also where they are cyclic (it is stated as: some relation of different
cells that respects them contains the two). C recursion without end is the fault
`recursion`, reading the type of `()` through `NULL` the fault `null`.

### Variables and LexicalScope

`table` is what the hash table of each frame holds, `capacity` how large it is: a
table that grows moves. `env` is the list `st->env`, `outer` the scope around each
frame's scope, `calls` the pending C calls with what they saved (`env`, the old
`st->env`; `m`, where a slot or an unfinished frame was; `s`, where it was when it was
entered in the safety buffer). At each `qz_eval` the expression is chosen freely, so
the behaviours are those of every program of `MaxSize` expressions. A frame or a
promise that nothing refers to any more may be made again: that is what the collector
does, and `Collector` is where it is shown to do it. `Garbage` is the largest set of
cells that neither the roots nor cells outside the set refer to, and `Reachable` the
rest; `Enclosing(s)` are the scopes that the loop of `qz_lookup` walks through from
`s`, stated as the least set closed under `outer`. Both are written without recursion,
so that they can be reasoned about. `VariablesAssumption` says that data and the two marks for
"nothing" are not cells.

An error returns to the top level in one step that undoes the environments which
the safety buffer knows. `quuz-main.c` stops at the first error that no handler has
handled; the model goes on, as a program that embeds quuz may, and as one does whose
handler returned.

`LexicalScope` knows neither tables nor slots nor C calls. A `let` or a call begins
(`Begin`) by fixing the scope that its new scope will be inside of, the one in force or
the one the procedure was made in, and enters it when the variables have their values
(`Enter`); a `let*` opens its scope first; a promise is forced in the scope that it
was made in (`Reenter`); an error abandons everything. A scope is entered only under
a name that nothing needs, and only the scope in force can be captured. The refinement
maps `active` to `env`, `captured` to the scopes that reachable closures and promises
hold (`MadeIn`), and `pending` to the unfinished frames of `let` and calls (`Filling`): a function
from their nesting depths to the scopes around them. The environment of a pending call
is not looked up in what the call saved but in `env`: the scope that was in force when
the call began is the one that as many calls had entered a scope for
(`EnteredAfter`), so that a saved environment that is not a tail of `env` is a
violation.

### Reader

`Reader` has the calls that the grammar makes of it as a parameter: `Calls(t)` is the
sequence of reader functions for a text, and one action performs one of them. All it
asks of them is `GrammarAssumption`: each begin has its end, nothing is ended that was not begun,
and what is appended is no cell. `Grammar` defines them (`DatumCalls`, comments and
labels included; `append_sym` is the calls it makes) and the cells of an object
(`DatumCells`), by recursion on texts and objects; the configuration gives them to `Reader`,
and TLC evaluates the assumption for the texts of the run. A character that is written
to what is no string or bytevector is a fault, since the code does not look.

`ReaderAssumption` says that the names made by `qz_alloc` differ: it makes them with
`qz_make_sym`. The arrays
have a capacity that doubles (`grow_array`), so that lengths around the capacity are
seen; `cells` counts what was allocated and not freed; `names` is the symbol
table, which is given by `HashTable` as a finite map. A syntax error runs no action
of the grammar and leaves the empty list. `Denoted` is what the text means.

`InBounds` looks at the arrays on the stack, which are the ones that are written, and at the
strings that are directly in a container on the stack, in the symbol table or read: each string
that leaves the stack is there in the next state, and nothing writes to it afterwards.

Datum comments do not work: their datum runs its actions where it stands. Behind
a symbol or a string, as in `(a #; b c)`, it runs into the assertion of `append`
(`FaultsOnlyWhere`; the test at `src/t/qz_read.t:90` is skipped for it); behind a number
it is read as an element.
The label of a datum is dropped, so `(#1#)` is `()` and `(#1# . x)` makes `elide_pair`
write through an unset pointer.

## 3. Runs

| Run | Instance | What it shows |
|---|---|---|
| `collector_small` | 3 cells of 2 slots, root buffer of 2, one reference per cell owned by the mutator, symmetric cells; 413 000 states | types; no failed assertion, and no touch of a freed cell but the read of `collector_revisit`, unless exposed; nothing live is freed; counts exact; garbage findable; buffer consistent and bounded; every step implements `AbstractHeap` or is invisible, until exposed |
| `collector_roomy` | 2 cells, buffer of 3, three references per cell, `FairSpec`, deadlock checked | with a buffer that cannot fill: refinement outright, and every operation returns |
| `collector_underflow` | as the first | **violated**: the assertion at `quuz-collector.c:69` |
| `collector_revisit` | as the first | **violated**: a pass comes back to a cell it freed |
| `hash_map` | 3 keys, a value and the unspecified one, every hash function into 8 of 16 words, capacities 2, 4, 8, deadlock checked; 195 000 states | the table implements `FiniteMap`: storing a key changes no other, and a reallocation forgets keys with an unspecified value and does nothing else; each pair is where a search finds it; searches end; the load stays bounded |
| `hash_forgets` | capacities 4 and 8 | **violated**: a bound key is lost when the table grows |
| `interpreter` | the evaluator and the 58 library functions that keep the rules, calls nested 5 deep, a safety buffer of 5 that fills; 1.2 million states | each of these functions keeps the rules of ownership; no reference in a local is released twice or lost, whatever fails (references stored in cells and slots are not followed); unwinding restores everything; errors are handled or reported |
| `objects` | every structure of 3 cells (pairs, promises, vectors, records, strings of two contents), written twice or compared, `Spec` with fairness; 716 000 states | what is printed and which marks stay; the info word; that write returns; what the answers of `equal?` mean and where it fails |
| `objects_equal` | the same | **violated**: the comment at `quuz-object.c:369` |
| `variables` | programs of 5 expressions, 3 frames, 1 promise, 2 variables, tables that move at the first and the second binding; 156 000 states | lexical scoping: which scope is in force, what is bound in it and which are captured; which steps may take a slot from a `set!`; frames released where they are; promises |
| `variables_set` | programs of 4 expressions | **violated**: `set!` writes to a table that was freed |
| `reader` | 3 levels of data, two texts in a row, arrays of 2 that double, up to 3 symbols; 92 000 states | the datum read is the one written; symbols; bounds; nothing lost |

The violations are defects of the code; `PROJECT.json` has a finding for each. All
were reproduced by running the C code, under the address sanitizer where memory is
concerned.

**Functions that break the rules.** `Library` and `LibraryObjects` also hold functions
that are not in the run. When one is added to `Functions`, `OwnershipAssumption` is false;
with `Interpreter` alone, which does not assume it, TLC shows what goes wrong:

* `NoFault`: `memq`, `memv`, `assq` and the rest of `inner_member` take two entries out of
  the safety buffer that `qz_get_args` has already taken out, and abort at the top
  level (the assertion at `quuz-state.c:332`); `+`, `*` and `-` release an operand that is no
  number before they put it into the error (`quuz-lib.c:1038`); `length`, `reverse` and
  `list-ref` use or hand out what they have released; `make_record` fills fields with
  references it does not own; `with-input-from-file` and `with-output-to-file`, `set!` and
  `define-record-type` release what they do not own any more (section 2);
* `NothingLost`: `vector-set!` with a bad index leaks the element (`quuz-lib.c:114`);
  `unquote`, the functions of records, `list-set!`, `list-copy`, `vector-copy`,
  `vector->list`, `error-object-message`, the `assoc` family, a malformed `case` and
  `with-output-to-file` around one that failed leak.

And an `if` without alternate whose test is false is an error, although the comment
at `quuz-lib.c:172` says that none evaluates to none. The assertion, the freed operand,
the leak and the error of `if` were reproduced in C.

**Bounds.** Three cells are enough for a cycle with something attached, for two
roots in one cycle, and for a cell shared by two slots; a buffer of two fills
while a release is under way. A second reference per cell (14.9 million states)
was checked once and showed nothing new. Three keys in a table that starts with
two pairs pass through two reallocations, and with eight hash values of sixteen
every pattern of collisions and of wrapping around the table and around the word
occurs. Five nested C calls are enough for an error two environments deep inside a
handler's protected call, and for the handler itself to fail.
Three cells make every shape that the walks distinguish: a cell reached twice, a
cycle through firsts, rests or vectors, a marked cell below an unmarked pair, and
two structures that share a part; a second write meets the marks of the first.
Five expressions are enough for a closure called after its scope was left, a table
that moves under a pending `set!` or `let`, and an error in a nested scope; the table
of one pair (`Capacity0`, 4 in the code) moves as early as it can. Arrays of 2
elements (16 in the code) meet lengths 1 to 4: below, at and above their capacity
before and after doubling.

Bounds in guards: `MaxHandles`, `MaxCapacity`, `MaxCalls`, `MaxSize`, `MaxFrames`,
`MaxPromises` and `MaxSymbols`. With three cells at most `MaxHandles` bounds the
counts; `MaxCapacity` stops insertions that would grow the table further; at
`MaxCalls` an expression is a constant, a variable or an error, never a call;
`MaxSize` ends the program; without a free frame or promise no scope is entered and
none is delayed; at `MaxSymbols` nothing more is read.

**Deadlock** is checked in `collector_roomy` and `hash_map`, where it cannot
happen; a full table can still be written to in place. In the other runs the
program stops where it goes wrong or at its end, and with it the model.

**Fairness.** quuz is one thread: a C function that was entered continues. So
`FairSpec` of `Collector` is weak fairness of the collector's steps taken
together, and `Spec` of `Objects` has that of the steps of a walk once it was called.
Nothing is assumed about the mutator or about a program's next call. `Interpreter`
and `Variables` state no liveness: a Scheme program may loop; the reader's
termination is the parser generator's, and that of a reallocation is its counter.

## 4. Proofs

`CollectorProofs` proves for every set of cells, every width, every buffer
capacity of at least one and every bound on handles:

* `ControlInvariant`: `Spec => []ControlInv`;
* `TypeCorrect`: `Spec => []TypeOK`;
* `RootBufferBounded`: `Spec => []BufferBounded`. `possible_root` never writes past
  the array, and the array is full only while `qz_collect` runs. This holds
  through the defects above too.

The bound is not inductive by itself. `possible_root` appends without looking at
the size and relies on the buffer not being full when it is called. `ControlInv`
says why: if the buffer is full, a collection is pending (`FullOnlyInPass`);
above the loops of a collection only visits of its own passes are pending, never
`decrement` (`Layered`); and only `decrement` appends. That the last loop leaves
the buffer empty, and that `mark_roots` compacts in place (`MarkIndexes`), closes
the circle. `StoreLast` and `StoreOwned` say that an overwrite is the outermost
call and that the reference it stores is owned, which the types of the counts
need. The proof has one step per action; lemmas say what replacing the top of
the call stack preserves (`ReplaceTop`, `PopTop`, `QuietStep`).

`CollectorCorrectness` proves that the collector is right, for the same parameters:

* `CollectorSafe`: `Spec => []NoFaultButRevisits` (the assertions hold, and the read of
  a freed cell's color in `collect_white` is the only touch of freed memory);
  `LiveCellsKept`:
  `Spec => []LiveNeverFreed`; `CountsAreExact`: `Spec => []CountsExact`;
  `BufferIsConsistent`: `Spec => []BufferConsistent`; `GarbageFindable`:
  `Spec => []GarbageIsFindable`;
* `CollectorRefinesHeap`: `Spec => ImplementsUntilExposed`, and
  `RoomyCollectorRefinesHeap`: `Spec => ImplementsHeap` when the buffer has more room
  than there are cells, so that no `qz_unref` ever starts a collection.

They rest on one inductive invariant, `IInv` of `CollectorInvariant` (theorem
`CollectorInvariant`): `ControlInv`, and until `exposed` also `Good`, whose parts
need one another:

* `StackInv`: which functions can be pending below which, that no slot is visited
  twice at once where a second visit would count twice, and that the cell whose
  slots are visited is kept by a pending call further out (`Attended`);
* `CountInv`: the count of a cell is the number of references that the interpreter
  owns plus the number of slots that count. A slot counts if the passes have not
  subtracted it, or if the pending call that will subtract it has not run; slot 0
  stands for the reference that `qz_unref` is giving up. This replaces "the passes
  give back what they took" by a statement about one state;
* `ColorInv`, `VisitedInv`, `TaskInv`: what a color means in the middle of a pass
  (purple: buffered; gray: visited by a pass that is not over; white: a count of zero
  and a collection to come), that what a gray or white cell refers to has been
  visited too, and what each pending call may rely on when it runs;
* `FreshInv`: a cell that is not allocated has no count, no color and no slots;
* `BufferInv`: which elements of the buffer are in use while `mark_roots` compacts
  it and the later loops empty it;
* `FoundInv`: every gray cell can be reached through gray cells from what the scan
  has still to visit, and likewise for white. Without it a cell could stay gray
  after the scan or white after the collection.

One lemma per action shows `Good'`. `LiveNeverFreed` follows because the cells with
a positive count or a visit still to come contain the cells the interpreter owns
references to and are closed under what their slots refer to in the abstract heap.
For `GarbageFindable` there is an invariant of its own: every cell whose count is
settled can be reached, through settled cells, from a reference of the interpreter, an
element of the buffer or a pending call (`KnownInv`); and a cell whose count is zero is
in the hands of a pass or of a pending call (`LeftInv`). TLC checked `IInv` on an
instance of 2.5 million states, and `KnownInv` and `LeftInv` on those of
`collector_small`, before they were proved.

The theorems are about every program until a collection starts in one of the two
windows (`exposed`); what happens then is the finding of `collector_underflow`.

`ObjectsProofs` proves for every finite structure, every width of the count and
every sequence of walks:

* `WalksKeepInfo`: `Spec => InfoKept`. The lemma is about bits: putting a value that
  fits its field into a word whose other fields are elsewhere changes none of them.
* `MarksAreFound`: `Spec => []DirtOnlyBehindTails`. During a walk a marked cell is
  either behind a tail or reached from the root through marked cells only, which is
  what `clear_dirty` follows; every pending call is for an object that hangs on a
  marked cell or is behind a tail. At the end the stack is empty, and what
  `clear_dirty` leaves marked is behind a tail.
* `TypeCorrect`: `Spec => []TypeOK`. Each walk has frames of its own (`WriteFrame`,
  `EqualFrame`), and two vectors whose elements are compared have the same length.
* `PrintsAll`: `Spec => []PrintsUpToMarks`. Whatever a printed cell refers to is
  printed already, has a mark left by an earlier write, or is still to come in some
  pending call (`NothingSkipped`); and all that is printed is reached from the root
  (`WithinReach`). At the end no call is pending, so the printed cells are closed
  under references that meet no old mark.
* `AnswersMean`: `Spec => []EqualAnswers`. A relation that contains the arguments and
  respects every slot contains whatever is still to be compared, and so `equal?` never finds
  a difference (`Denials`). And if all that the pending calls have still to compare is
  alike, so are the arguments (`Confirmations`): `AlikeUp` goes from the slots of two
  cells to the cells, which for a greatest relation needs no induction.
* `FailsWhere`: `Spec => []FailsOnlyWhere`. `Denials` covers the empty list. For the
  recursion, as many calls can still be nested in a pending one as cells are reached from its
  argument (`Shallow`): where an argument is not cyclic, each cell the walk goes
  down to reaches fewer cells than the one it came from (`GoesDown`). So the stack
  is no deeper than the structure has cells, far below the limit.

`VariablesProofs` proves for every finite number of variables, frames, promises and nested
calls, every program size and every initial capacity:

* `TypeCorrect`: `Spec => []TypeOK`; `FramesReleased`: `Spec => []ReleasesLiveFrames`;
  `ForcedPromises`: `Spec => []ForcedHasValue`; `DefineMoves`: `Spec => OnlyDefineMoves`;
* `VariablesImplementScopes`: `Spec => ImplementsScopes`, the refinement of `LexicalScope`.

The first four share one inductive invariant, `VInv`: each pending call has its
operands, and one whose value may be missing is below one that drops it (`GoodStack`); over the global scope
there are as many scopes in force as pending calls have entered one, and as many in the
environment that a call saved as had been entered then (`EnvFits`, `Nests`), so an
error, which counts the environments in the safety buffer, finds the global one; the
variables whose slots are held are bound, so that the write through a slot
adds no pair (`SlotsBound`); tables fit their capacity, and a forced promise has its value
(`StoreOK`); and an unfinished frame is in the safety buffer under its present address
whenever an expression is evaluated (`AllSettled`). The
proof has one lemma per action, each of which shows `VInv'` and what the step may
move.

The refinement needs more. Two arguments run through all its steps:

* *What is captured.* `captured` is a property of the whole heap, and a step that drops the
  last reference to a closure changes it. The proof never computes what can be reached;
  it uses that `Reachable` is closed under `Refers` and is the least such set
  (`ReachableWithin`). If the new roots and the cells that a step writes refer to what
  could be reached before and to one new cell, nothing else can be reached afterwards
  (`ReachKept`). There are four cases: no cell changes, a variable gets a value, a
  promise is made or gets one, a frame comes into force (`HeapKept`, `TableWritten`,
  `PromiseWritten`, `FrameEntered`). Each shows that a scope is captured after the step
  only if it was before or is the one in force (`Captures`). Conversely all
  that `LexicalScope` calls needed can be reached (`NeededReachable`), so a frame that is made
  again is a scope that nothing needs.
* *Where calls began.* `AllPlaced` is the second part of the invariant `SInv`: the environment
  that a pending call saved agrees with `env`, counted from the outermost scope,
  as far as scopes had been entered then; the scope of a `let*` is the one it entered; and
  the slot of a `set!` is in a scope around the one in which the `set!` began. So returning
  restores `Tail(env)` (`LeaveRefined`), the bindings of a `let*` are definitions in
  the scope in force, and the assignment of a `set!`, made after any evaluation, is to a
  variable that is visible from where it stands. Entering a scope changes nothing further
  out (`EnterNew`, `PlacedElsewhere`, `SurroundingElsewhere`), and the `outer` of a frame
  that is made again is not seen from any scope in use (`EnclosingKept`).

Each action is then one step of `LexicalScope` or captures and forgets only (the lemmas that end in
`Refined`, collected in `NextRefined`). TLC checked `AllPlaced` as an invariant of the run's instance
before it was proved.

`HashTableProofs` proves for every set of keys and values, every hash function, every
width of the machine word and every initial capacity:

* `TypeCorrect`, `LoadStaysBounded`, `ProbesTerminate`, `SearchStaysExact`: the four
  invariants of the run `hash_map`;
* `TableImplementsMap`: `Spec => ImplementsMap`, the refinement of `FiniteMap`: a
  reallocation forgets keys whose value is unspecified and changes nothing else.

None of them is inductive alone. The invariant `IInv` has two parts beside the types.
`LoadInv` counts: the occupied slots and the pairs of the old table still to be copied
together are at most `size`; between operations `size` is at most 7/10 of the capacity,
and while the table grows at most 7/10 of half of it and one pair. So a slot is empty
(a finite set smaller than the table does not fill it), and some probe reaches it
although the index wraps (`EverySlotProbed`; this is where `MaxCapacity <= Word` is
needed). `KeysInv` says that every pair is where the search for its key stops, in
every state of a copy, and that no key still to be copied occurs twice or has arrived
already. The lemma it rests on, `WriteKeepsSettled`, is the argument for open
addressing without deletion: a write fills an empty slot or replaces the pair of the
same key, so it takes no gap away from a search and puts none into its way. That a
search has a first hit needs a least element of a set of naturals, which
`LeastExists` takes from the well-foundedness of strict inclusion, since the
library's induction over numbers is out of reach of the provers.

`InterpreterProofs` proves for every set of library functions that keep the rules, every
program, every depth of the C stack and every capacity of the safety buffer the
seven properties of the run `interpreter`:

* `TypeCorrect`: `Spec => []TypeOK`; `GoesRight`: `Spec => []NoFault`;
  `ErrorsLeakNothing`: `Spec => []NothingLost`; `InnermostCatches`:
  `Spec => []ErrorsGoToInnermost`; `OneErrorPending`: `Spec => []PendingError`;
  `HandlerStays`: `Spec => []HandlerOwned`; `FoundAsLeft`: `Spec => LeavesAsFound`.

`GoesRight` and `ErrorsLeakNothing` are about references in locals and the safety buffer,
for functions that keep the rules; what becomes of stored references is not part of
them, and the functions that depend on it do not keep the rules.

That each function keeps the rules is a finite question, which TLC answers; that the
rules are enough is not, since functions call one another without end and an error
skips any number of them. The invariant `IInv` of `Ownership` (theorem `Invariance`) says:

* `FrameInv`: each call on the C stack is in one of the states that its function reaches
  by itself, as if nothing had happened around it: it owns exactly these
  references, and its entries are a contiguous part of the safety buffer, above what it
  found and below what the call above it found. Only where a cleanup is about to
  run may entries of calls that are dead lie on top;
* `EnvInv`: the environments are in the safety buffer, in their order, but for the one
  that is just being pushed or popped. So taking entries out of the buffer from
  the end pops environments from the top, and `EnvNow` says down to where;
* `FailInv`, `HandlerInv`: the longjmp target and the handler are determined by the
  calls of the stack, also what each call will find after those above it are gone;
* `WaitInv`, `PendInv`, `RefInv`: which call waits for which; where an error may be
  pending; that no reference appears twice.

The main cases are the longjmp, which cuts the stack at the innermost `qz_peval` and leaves
the parts of the dead calls to its cleanup (`FoundAgain` for the values a call finds
again), and the single step of the cleanup loop. A second, smaller invariant, that the error object is not
released, is proved on top (`ErrorKept`). TLC checked all conjuncts of `IInv` as
invariants of an instance with 393 000 states before they were proved.

`ReaderProofs` proves, for any texts, any bracketed calls, any initial capacity and any
symbols made before, `TypeOK`, `SymbolsUnique`, `InBounds` and `RootKept` (`fault # "pop"`, a
conjunct of `FaultsOnlyWhere`). The invariant is `RInv`:

* `StackFits`: the height of the stack and the calls to come agree, and every rest of
  the calls ends what it begins. `TypeOK` alone says only where the count ends; that a
  `pop` never meets the root needs all the rests between. Each call changes the height by
  what it counts (`PerformDone`), and taking the first call off shifts the counts by one
  (`CountNext`, `CountTail`);
* `Objects(S)`: there is a set `S` that holds the elements of its members, such that
  what is on the stack is made of members. That stands in for induction
  over the depth of an object. It is needed because `elide_pair` takes the elements of a list
  that was popped before and hangs them into the list on the stack: that the strings among them
  have room for their null must be known of all that was ever popped;
* `Table`: the names of the symbols differ, since `qz_make_sym` looks before it makes one.

The assumptions are `HeapGraphAssumption`, `CollectorAssumption`, `HashTableAssumption`,
`InfoWordAssumption`, `ObjectsAssumption`, `VariablesAssumption`, `InterpreterAssumption`,
`OwnershipAssumption`, `ReaderAssumption` and `GrammarAssumption`; TLC evaluates them in the runs.

Only model-checked:

* liveness (`WriteReturns`, `OperationsReturn`), which is out of the prover's reach;
* `ReadsDatum`, `NothingLost` and `FaultsOnlyWhere` of `Grammar`. What the grammar calls
  for a text, what the text means and how many cells an object has are recursive functions on
  data of any depth. A statement about them for every text needs induction over data, and
  the provers cannot instantiate the library's induction theorems.

## 5. Not modelled

* `city.cc` (third party; an arbitrary function), `quuz-main.c` beyond its loop
  (I/O), the lexical rules of `quuz.leg` (input to a parser generator). The generated
  parser reads ahead into one global buffer, which all ports share: not modelled.
* The values that arithmetic, character and string functions compute, the contents
  of strings, and the files behind ports. So `string-set!` on the name of a symbol, the
  truncation in `compare_fixnum`, and the pairs that quasiquotation overwrites in a list it splices in are
  listed as hazards only. The references in the port slots and in cells are not followed. A
  function that releases what such a slot gives back is kept out of the run. `force` is
  in it, since its locals are right, but that the promise may give up the expression while
  it is evaluated (a promise that forces itself, `quuz-lib.c:536`) is not seen.
* The conversions between C values and tagged words. The collector's fields of the
  info word are variables of `Collector`, and natural numbers there.
* The slots of records, which the collector does not visit and the writer does not
  know.
* Calls whose behaviour C leaves undefined whatever the state: `write-char` reads
  a character it never asked `qz_get_args` for, and a few calls of `qz_error` have no
  terminating `NULL` (`scm_num_sub`, `get_open_port`, `inner_member`); the model raises
  the error they mean. `make-vector` makes a cell tagged as a string and
  `list->vector` leaves its size at zero: values, which the model does not follow.

## 6. Plan

Done: the collector with its abstract heap, the hash table, the evaluator with
error unwinding and about 85 library functions or families of them, variables and
promises with lexical scoping as their specification, the writer and `equal?`, the
reader and the symbol table, the info word; the proofs of all safety properties and
refinements but three invariants of the reader. Next:

1. `Ports`: the references in the port slots under nested `with-input-from-file` and errors,
   with the buffer of the parser.
2. What functions do to the contents of cells: quasiquotation's splicing, `append!`-like
   sharing of lists, `string-set!` on names.
