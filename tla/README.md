# A TLA+ verification development for a fast WebAssembly runtime

This directory holds TLA+ models of the runtime in `src/runtime/wasmvm`, the
TLC configurations that check them on small instances, and theorems about
them that TLAPS checks for every value of the constants.  Paths below are
relative to `src/runtime/wasmvm` unless they begin with `src/`.

1. [The system](#1-the-system)
2. [The models](#2-the-models)
3. [The runs](#3-the-runs)
4. [Where the code and its comments
   disagree](#4-where-the-code-and-its-comments-disagree)
5. [What is proved](#5-what-is-proved)
6. [What is not modelled](#6-what-is-not-modelled)
7. [Plan](#7-plan)

## 1. The system

`product/linux/main.c` reads a file and calls, in this order, load, validate,
instantiate, execute and destroy on one `WASMModule`; `module_stage` records
how far the module got.

| component | state it keeps | operations | hard about it |
|---|---|---|---|
| loader (`loader/`) | the sections of the module: types, functions with their local offsets, tables, memories, globals, exports, segments | one function per section, in file order | a failure between two allocations; 16-bit local offsets and 32-bit sizes |
| validator (`validator/`) | per function: stack of operand types, stack of open blocks, branch table, the greatest cell count | one `case` per opcode; push and pop of operands and blocks; emit and resolve of branch entries | dead code with its waived operands; entries that are emitted now and resolved later; optional validation by four threads |
| instantiation (`instantiate/`) | function, global, memory and table instances | one function per index space, link of imports to native functions | order between index spaces; failure in the middle |
| linear memory (`common/src/wasm_memory.c`) | data pointer, current and maximal pages, sizes in bytes | allocate, grow, destroy; `wasm_module_destory` for a whole module | 32-bit products of page counts; frees that depend on the stage |
| executor (`executor/`) | the execution environment with one allocation for frames (from the top) and operands (from the bottom) | look up `_start` or an export, convert arguments, call | nothing compares the two ends |
| interpreter (`interpreter/`) | frame chain, value stack, instruction pointer, cursor into the branch table | one handler per opcode; call, return, native call | untyped: all it knows of types and control comes from the validator |
| native functions (`native/`) | registered symbols with signatures | register, resolve an import, check a signature, invoke | a failed allocation without an exception |
| WASI (`wasi/`, set up by `init/`) | descriptor table with rights and reference counts; preopened directories; arguments and environment | one function per WASI call | counters and ownership over long sequences of calls; errors half-way through a call; rights that are passed on |
| JIT (`jit/`) | LLVM modules built from the same validated bytecode | compile, call | off by default; semantics of LLVM |
| exception, platform, command line | a message buffer; threads, sockets, maps; options | thin wrappers | - |

The runtime makes one call at a time: the interpreter is single-threaded, and
the locks of the WASI layer, which comes from a runtime with threads, are never
contended.  Two things run beside it.  A build with `WASM_ENABLE_THREAD`
validates bodies with four threads (`WASM_VALIDATE_THREAD_NUM`); the default
build validates them one after the other.  And other processes of the host
change the file system while a WASI call resolves a path.

The configuration the models take as the default is that of
`product/linux/config.cmake`: release build, no JIT, no threads, the compiler's
built-in functions, WASI.  Where another configuration changes what happens,
the model chooses between both (validation by threads, bit counts without
built-ins).

The components meet in seven places.

- **Validator and interpreter share the branch table.**  WebAssembly has no
  jump targets: a branch names the number of blocks it leaves.  The
  interpreter keeps no block stack.  The validator writes one entry
  `(ip, idx, pop, push)` per branching instruction in code order, and the
  interpreter keeps a cursor that must always stand at the entry of the next
  branching instruction.  A taken branch sets the cursor to `idx`; a branch
  that is not taken advances it; nothing else repairs it.  One wrong `idx` and
  every later branch of the function uses a wrong entry.
- **Validator and interpreter share the operand types.**  The interpreter
  moves four-byte cells and never knows whether two cells are one `i64`.
  `drop`, `select` and local accesses are rewritten in place by the validator
  to forms of 32 and 64 bits.
- **Caller and callee share the value stack.**  Arguments are not copied: the
  callee's parameters *are* the caller's operands, and its results are copied
  down over them.
- **The WASI layer and the host share descriptors.**  A program's descriptor is
  a slot of a table; several slots may point to one reference-counted object,
  and the object owns a descriptor of the process, which it closes with its
  last reference.
- **The WASI layer and the file system share names.**  A path is walked one
  component at a time through directories that are opened on the way; between
  two of these steps a directory may become a link.
- **All stages share the module.**  The loader allocates arrays section by
  section, later stages write into their slots and move their counts, and
  `wasm_module_destory` reads `module_stage` to know what there is to free.
- **A native function and the module share addresses.**  A 32-bit address of
  the module is checked, and translated to one of the host.

What makes these parts correct, component by component:

- *Validator*: every pop stays above the base of the current block; every
  branch is resolved by the block it belongs to and by no other; every target
  comes with the cursor position that belongs to it; nothing is accepted whose
  operands are not there.
- *Interpreter*: the cursor is in step with the instruction pointer; operands
  and locals have the types the validator derived; dead code stays dead; the
  operand area is as large as announced; a call leaves what its caller owns.
- *Frames and operands*: the two ends of the execution stack never meet.
- *Computation*: an instruction leaves the value WebAssembly defines, and
  changes no other cell and no other byte of the memory.
- *Memory*: the page count, the size in bytes and the addresses that are
  accepted belong to one and the same memory, also after growing.
- *Module life cycle*: whatever fails, destroying the module frees what was
  allocated and nothing else; an exit code of 0 means what it says; an import
  is linked to a function of its name and type.
- *Descriptor table*: an object lives as long as someone uses it; a descriptor
  never names two objects; rights only shrink.
- *WASI calls*: a call gives back what it took, whichever of its steps fails;
  it asks the host only with the right for it; it reports failures; it ends.
- *Paths*: whatever a path, the links on it and other processes do, the walk
  stays below the directory it started from, and names what the path means.

`PROJECT.json` lists for every hazard the line where it bites and the
properties that cover it.

## 2. The models

```
WasmTypes            value types, cells, operand signatures (operators only)
   ^
Validator            wasm_validator_code: the one-pass validator
   ^        ^
   |     Interpreter      execution of what Validator accepted
   |        ^
   |     MCInterpreter    constants for TLC
SequenceProofs       induction, functions defined by recursion, and
   ^                 concatenation and what it does to sums
TypingProofs         TypeOK, BlocksNested, EntriesOwned, TargetsInSync and
   ^                 CursorSync are invariants; live code is typed as it
   |                 will be executed; extends Interpreter
ExecutionProofs      what executions keep

FdTable              descriptor table of the WASI layer and its set-up
   ^        ^
   |     MCFdTable   constants for TLC
FdTableProofs        TypeOK, RefsExact, HostOwned, RightsWithinKind and
                     LoadBounded are invariants; PreopenStable,
                     RightsShrink and WriteGranted hold

NativeLink           sorting, lookup and signature check (operators only)
   ^
Loader               main up to the loaded module, section by section
   ^
ModuleLifecycle      validation (serial or threads), instantiation,
   ^                 execution as one step, destruction
LifecycleProperties
   ^        ^
   |     MCModuleLifecycle    the files for TLC
LifecycleProofs      FreedOnce, CleanExit and RegularDefined are invariants;
   ^                 extends SequenceProofs
LinkProofs           LeaksConfined and LinkedImports are invariants

Steps                the vocabulary of call programs (operators only)
   ^
HostSockets          platform functions for sockets, as programs
   ^
WasiPrograms         the functions of posix.c, as programs
   ^
WasiWrapper          the functions of libc_wasi_wrapper.c, as programs
   ^
WasiCalls            runs these programs; extends PathLookup as well
   ^        \
   ^        PathLookup        path_get turn by turn
   ^
WasiProperties       instantiates PathResolution: what a path means
   ^        ^
   |     MCWasi             paths, file systems and subscriptions for TLC
WasiOutlines         outlines of all programs; extends SequenceProofs as
   ^                 well
WasiProofs           Inside, Owned, RightExercised, ErrorReported,
                     ListingInOrder and PollAnswers are invariants;
                     PathLookup implements PathResolution

Leb                  readers of variable-length integers (operators only)
Numerics             C's integers and the floats' helpers (operators only)
   ^
LinearMemory         growth and addresses (operators only)
   ^
DataInstructions     every instruction that computes; uses Leb
   ^
DataProperties
   ^
MCData               operands and encodings for TLC
```

### WasmTypes

`CellNum` is `wasm_get_cell_num`.  The records `MemorySig`, `ConstSig`, ...
are the operand signatures of the roughly 170 opcodes that only pop and push,
one per group of `case` labels with the same `POP_AND_PUSH`.

### Validator

The program is not an input.  Every step of the model picks the next
instruction, validates it as the code does and appends it to `code`, so one
run of TLC covers every body of at most `MaxCode` instructions over the
opcodes in `Opcodes`.

| model | code |
|---|---|
| `stack` | `ctx->value_stack`, with `stack_num` = `Len`, `stack_cell_num` = `CellNum` |
| `blocks` | `ctx->block_stack`; a block's `table_queue` is the set `queue` |
| `poly` | the `is_stack_polymorphic` of each slot of the array of blocks: a variable of its own because pushing a block does not set it |
| `table` | `ctx->branch_table`; an unresolved entry holds the opcode in `idx`, here `resolved = FALSE` |
| `maxCells` | `ctx->max_stack_cell_num` |
| `labels`, `retTypes` | the labels of a BR_TABLE still to read, and the types its first label fixed |
| `verdict` | the result of `wasm_validator_code` |
| `own`, `lapses`, `seen` | history, read by no guard |

One action stands for one `case` of the switch with everything it calls.
BR_TABLE is the exception: its loop over the labels is one action per label
(`BrTable`, then `BrTableLabel`), because every label emits an entry.
`Reject` is `goto fail`; it forgets the context, which the code frees.
`Malformed` stands for every failure that does not depend on the modelled
state: the end of the body inside a block, bytes behind the last END, an
unknown opcode, a LEB error, a failed allocation.

`Init` leaves `poly` open: `wasm_loader_ctx_init` allocates the array of
blocks without clearing it, so a slot holds any member of `FreshFlags`.

The history variables say what the code cannot know.  `own` is the value the
polymorphic flag would have had, had it been cleared when its block was
pushed; `lapses` collects the ways in which an operand was accepted that is
not there; `seen` remembers for every instruction the operand types the
validator had in front of it, the number of entries emitted before it and
whether the validator was in dead code.  The properties of the interpreter
compare the execution with `seen`.

Abstractions: addresses are instruction numbers, not bytes, so an opcode
rewritten in place is the instruction record that is appended.  The arrays do
not have capacities (see the plan).  Block types are function types; the
one-byte form is the case without parameters and with at most one result.

### Interpreter

`Interpreter` extends `Validator`: once `verdict = "accepted"`, `Start` begins
an execution of the very body and table the validator produced.  A cell of
the value stack carries the type it was written with and, for two-cell
values, which half it is.  The code has no such tags; the model's handlers
never look at them either.  They exist so that a property can see a cell being
read as something it is not.

| model | code |
|---|---|
| `ip`, `cur` | `frame_ip`, `cur_branch_table - branch_table` |
| `vs` | the value stack up to `frame_sp` |
| `lp` | `frame_lp`, as an offset from the stack's bottom |
| `frames` | what `call_func_from_interp` saves in the chain of frames |
| `Handle...` | the handler of that opcode |
| `Moved` | `word_copy` inside `CONTROL_TRANSFER`, an upward copy that reads cells it has already written when the operands move up |

Conditions, BR_TABLE indices, the contents of the table and traps are chosen
nondeterministically, so an execution follows every path of a body.  Calls go
to imported functions and to the function itself: recursion is what makes
frames of one body nest on one stack.  `StartMain` is the entry from the
executor, `StartCalled` a call from the bytecode of some other function, of
which only one operand below the arguments matters.

`defect` is a history variable.  The code has faults that are recorded as
findings (section 4); an execution that has run into one of them is not
followed any further, because everything behind it would be its consequence.
Each property says which defects it tolerates.  The price is stated with each
run: in particular, the ELSE body that a *false* IF enters is not executed
further, while ELSE bodies are validated, jumped over, and their tables
checked.

### FdTable

The descriptor table of `wasi/libc-wasi/sandboxed-system-primitives/src/posix.c`,
from `wasm_runtime_wasi_init` (`init/src/wasm_runtime_init.c`), which fills it,
through every call of a program that changes it.

| model | code |
|---|---|
| `ft` | `struct fd_table`: `entries`, `size`, `used` (in arithmetic of `size_t`) |
| `heap` | the allocated `struct fd_object`s: kind, number on the host, reference count, and whether a directory has its `handle` |
| `host` | the descriptors of the process that are open |
| `prestats` | the slots for which `struct fd_prestats` names a directory |
| `status`, `next` | how far `wasm_runtime_wasi_init` has come, and how a run ended: `failed` (set-up), `crashed` (null object), `hung` (endless loop) |
| `strays`, `opens`, `renumbers`, `lost` | history: open host descriptors that nobody will close any more, objects created, renumberings, references never given back |

A call is one action, since nothing runs beside it.  Calls that take a
reference, ask the host and give the reference back change nothing here and
are no actions; those that forget to give it back are (`PathLinkRefused`,
`PathSymlinkRefused`).  What such a lease holds is lost with it: the reference,
and the host directory that `path_get` opened if the path had one on its way
(`LoseLeases`).  `FdReaddir` is the one other call that leaves something behind
in an object: the handle, after which the object is released by `closedir`
instead of `CLOSE_NON_STD_FD` (`Closed`), so that a standard descriptor that is
a directory and was listed is closed, and its number may be given to what is
opened next.  What the host answers is a choice: the kind of what is opened,
within what the flags of `open` allow, the number of a new descriptor
(`Unused`), and whether an insertion finds memory.  `fd_table_unused` draws
random slots, so any free slot may be taken.

`Renumber` follows the order of the code, in particular the second
`--ft->used`, and the null object when a descriptor is renumbered to itself.
The default build is a release build, in which the assertions of `posix.c`
are compiled out; so a counter below zero wraps and execution continues.

`fd_readdir` on a device, which has the right to it too, uses the members of a
directory that its object does not have (`crashed`).

Abstractions: the walk through a path (`path_get`) and a failing `mutex_init`
are left out, and names, offsets and times too.  The table is destroyed only when
the set-up fails: `wasm_module_destory` frees `wasi_ctx` and not what it
points to (`common/src/wasm_memory.c:208`), so a program that ends has no
action of its own.

### NativeLink, Loader and ModuleLifecycle

One WebAssembly file from the command line to the exit code.  `file` is chosen
from `Files` and never changes.  A file is a header and a sequence of sections
in *any* order and number, since `init_load` dispatches on whatever section
comes; a section has items and a flaw: an item that cannot be read ("early") or
bytes behind the last one ("late").  Every allocation of every stage may fail.

| model | code |
|---|---|
| `pc` | the place in `main` and in the stages it calls; `exited` and `undefined` are final |
| `pos` | the section `init_load` reads next |
| `m` | `WASMModule`: its stage, counts, arrays, slots |
| `heap` | the blocks that are allocated, named by what they hold and by the section they came from |
| `natives` | `g_native_symbols_list`, and the table that its nodes share |
| `exception`, `exit` | `cur_exception` is not empty; the exit code |
| `threads` | per thread: the function it takes next, whether it runs, what it returned |
| `fault`, `silent` | history: the undefined behaviour met; the bodies rejected without an exception |

A section's loader is one action (`LoadSection` with the loader of its
identifier); the successor states are all places at which it may stop, with
what it had allocated by then.  `StartValidator` checks exports and globals
and goes on with the loop of the default build (`ValidateSerially`) or with
threads (`ValidateBody`, `ThreadExit`, `JoinThreads`), of which each step is
an action.  The bodies themselves are valid or not: what that means is
`Validator`.  An imported slot has the type that the import
declares and never a value, since `wasm_import_loader.c` writes none; what is
read of it later is a choice, or undefined (`ImportValued`, `AnyOffset`).  A
function keeps the type it was loaded with, whatever a second section of types
puts at the same index (`TypeAt`, `TypeOf`).  `WasiInit` allocates what
`FdTable` fills.  Running the program is one step, `Return`, after which the
memory may be larger, allocated at last, or freed (`memory.grow` by a count
that wraps to no page).  `Destroy` frees what `Frees` lists, in the order of
`wasm_module_destory`, where freeing `Null` does nothing; a block that is listed
twice or is not in `heap` ends in `undefined`.

`NativeLink` has the partition of `quick_sort_symbols` loop by loop, the binary
search, and the walk over a signature such as `(i*~)i`.  The partition ends
with the table and the place of its pivot, at which the two recursive calls
divide it; a function over records of a table and two bounds (`Spans`) is what
the code calls recursively.

### Steps, HostSockets, WasiPrograms, WasiWrapper

The 69 WASI functions differ only in what they acquire, ask for and give
back, and in which order.  Each is written as a *program*: a sequence of
steps such as `Address` (a check of an address), `Reference({"FD_READ"})`,
`Host` (a system call), `Report` (`if (ret < 0) return convert_errno(errno)`),
`Release`.  `Within(cleanup, prog)` is the pattern in which every error of
`prog` runs through `cleanup`, and `Then` the one in which a second call is
made after a first succeeded.  The programs of the wrapper contain those of
`posix.c`, and these contain those of `posix_socket.c`, as the calls in the
code do.  A call that comes in forms (with flags, or for several kinds of
objects) has a program for each.

### PathLookup and PathResolution

`PathLookup` is `path_get`: `fds[]` and `paths[]` with their limits,
`expansions`, the component in `file`, one action per turn of the loop, and one
more for `readlinkat` behind the failed `openat`, since another process may
change the file system between the two (`ChangeFileSystem`).  A path string is
the sequence of its components, each with the fact whether a slash follows.

`PathResolution` is what the code implements: one path, walked component by
component; a link is replaced by its target; `..` leaves a directory that was
entered.  It has no buffers, no descriptors and no limits.  `RefinesResolution`
maps the second stack to the concatenation of its strings.

### WasiCalls

| model | code |
|---|---|
| `call`, `at`, `back` | the function that runs, and the place in its program or in the cleanup of a failed step |
| `ret`, `failed`, `exception`, `status` | result of the last system call; history of the failures; the exception of the module; how the program ended |
| `held` | references, locks, buffers, descriptors and directories the call has |
| `pa`, `granted` | path leases of the call; the rights its references were got with |
| `poll`, `dir`, `list` | the locals of `poll_oneoff`; of a directory its `handle` and `offset`, and the host's position; the locals of `fd_readdir` |

`poll_oneoff` and `fd_readdir` are modelled turn by turn, since their errors
depend on what earlier turns have stored.

### Leb, Numerics, LinearMemory, DataInstructions

One instruction at a time on operands that the environment chooses: the
operands are put on the value stack cell by cell, the handler takes and leaves
cells, and what it leaves is read back.  Widths are constants: `ByteBits` bits
to a byte, four bytes to an `i32`, eight to an `i64`.  C's operators are those
on unsigned words of that width (`Numerics`), conversions between signed and
unsigned included.  Floats are signs and magnitudes; only those operations are
modelled whose code is in the repository (comparisons, `min`, `max`,
`copysign`, `neg`, `abs`, truncation, reinterpretation).

| model | code |
|---|---|
| `cells`, `frame_sp` | the value stack around the operands |
| `memory` | `WASMMemory`: bytes, `cur_page_count`, `max_page_count`, `num_bytes_per_page` |
| `segment` | a data segment with its length, which `data.drop` sets to zero |
| `status` | `running`, or how the instruction ended: `trapped`, `rejected` (by the validator's reader), `undefined` (C leaves it undefined) |
| `ins` | history: the instruction executed and its operands |

## 3. The runs

The first six runs use `ISpec` of `Interpreter`, so they check validator and
interpreter together; the next three use `Spec` of `FdTable`, and the last
three the `Spec` of `ModuleLifecycle`, `WasiCalls` and `DataInstructions`.

**Fairness.**  Two specifications state it.

- `ModuleLifecycle`: weak fairness of `main` and of each validator thread,
  which the host's scheduler gives.  The end of the program (`Return`) is not
  fair: a program may run for ever.
- `WasiCalls`: weak fairness of what the runtime and the host do once a call
  has been made (`Progress`).  Not fair are the program's next call (`Begin`),
  other processes (`Interfere`), and the two waits, for a clock (`Sleep`) and
  for descriptors (`Wait`), which may last for ever.

The other specifications have none: a body with a LOOP may legally run for
ever, and a program may stop making calls.  (The one loop of the descriptor
table that may not end, in `fd_table_grow` and `fd_table_unused`, is the state
`hung`, and the invariant `FreeSlot` says when it is reached.)

**Deadlock** is not checked because the systems end: a rejected body, a
returned and a trapped execution, a failed, crashed or hung descriptor table, a
process that has exited, a program that was trapped or aborted, an instruction
that trapped, and every state in which C leaves the rest undefined have no
successor.

| run | instance | checks |
|---|---|---|
| `control` | every control instruction, three block types (none, one result, one parameter and one result), `i32.const`, up to 6 instructions, 3 blocks, both label orders of a two-way BR_TABLE | `BlocksNested`, `TargetsInSync`, `CursorSync`, `OperandsTyped`, `DeadCodeUnreached`, `StackBounded`, `ResultsDelivered` |
| `nesting` | `nop`, blocks, loops, IF, ELSE and BR_IF over the empty type, up to 8 instructions | `EntriesOwned`, `CursorSync` |
| `operands` | calls (import, self, indirect), locals, globals, drop, select, three numeric signatures, one block type `i64 -> i32`, up to 6 instructions, 3 frames | `TypeOK`, `ITypeOK`, `OperandsTyped`, `LocalsTyped`, `CallerUntouched` |
| `else_target` | IF, ELSE | refutes `AllTargetsInSync` |
| `loop_branch` | LOOP with a result, BR_IF | refutes `LoopOperandsTyped` |
| `stale_flag` | BLOCK, UNREACHABLE, DROP | refutes `OperandsPresent` |
| `descriptors` | descriptor 0 a directory, 1 and 2 sockets, one preopened directory, one object of any of four kinds opened by the program, one directory listed at a time, two renumberings, refused links up to two lost references with or without their host directories, 5-bit `size_t` | `TypeOK`, `RefsExact`, `HostOwned`, `LoadBounded`, `PreopenStable` |
| `rights` | descriptors 0 to 2 are directories, one `path_open` with and without TRUNC, two renumberings, two sets of rights to ask for | `RightsWithinKind`, `RightsShrink`, `WriteGranted` |
| `free_slot` | descriptors 0 to 2 (files), two renumberings | refutes `FreeSlot` |
| `lifecycle` | 205 files, serial validation and two threads, any allocation failing | `FreedOnce`, `RegularDefined`, `LeaksConfined`, `CleanExit`, `LinkedImports`, `Terminates` |
| `wasi` | each of the 69 calls in each of its forms, any step failing; 12 paths, 4 file systems that replace one another up to twice during a call; 12 lists of subscriptions; a directory of 3 entries listed through buffers of 6 sizes, over any number of calls | `Owned`, `RightExercised`, `ErrorReported`, `PollAnswers`, `ListingInOrder`, `Inside`, `RefinesResolution`, `CallReturns` |
| `data` | every modelled instruction on chosen operands, words of 8 and 16 bits, a memory of 0 or 1 page that grows up to the whole address space, 2 changes of the memory in a row | `AddressesAgree`, `Computed`, `MemoryFramed`, `PagesCounted` |

**Why these bounds are enough.**  What the table can get wrong is visible with
an entry *before*, an entry *inside* and an entry *after* a target.  Six
instructions hold a loop or IF with a branch in it and one behind it; eight
hold that pattern one block deeper.  Depth three gives branches that leave
none, one or all blocks.  Two widths of values, a parameter and a local of
different width, and a result of another width than the parameter make each
confusion of offsets or of 32- and 64-bit forms visible in one instruction.
Three frames give a caller that is itself a callee.  `FreshFlags = {FALSE}` is
the friendly allocator: with it, a stale flag can only come from an earlier
block of the same body, which is how `stale_flag` shows the fault without
help from the allocator.

For the descriptor table, what counts is that an object may be named by no,
one, two or three slots, that a renumbering may hit the last reference or not,
and that the table grows while entries are in use.  Four descriptors and one
that the program opens give all of these; two renumberings are what it takes to
bring `used` below zero.  One directory with a handle is enough, since what a
handle changes is how its own object is released; a standard descriptor, a
preopened directory and an opened one may each be it.  A `size_t` of 5 bits
wraps in the same way as one of 64; the `free_slot` run uses 8 so that it is
visible that the width does not matter.  One preopened directory may be
inserted, half inserted or not inserted at all.  For rights, one right stands
for each rule of `path_open`: reading, writing, seeking, opening, truncating.

The files of `lifecycle` are all combinations of seven lists of imports (none,
well linked, with the wrong signature, with a type that does not exist, of
every kind and of an unknown one), four lists of bodies (accepted, rejected,
with and without branches and locals) and four continuations; a whole file with
each section dropped, given twice, put in front of all others, or flawed early
or late; and files with the values at the limits: 0 and 65536 pages, two
memories, elements and data that do not fit or whose offset is a global, an
imported one or one that is not there, more imports than functions; three whose
memory is an import, of 0, 1 and 65536 pages; two sections of imports with a
memory or a function in each; two sections of types of which the second puts
others at the same indexes; and main in its other spellings, beside one
another.  Two threads suffice for four: what matters is a thread without a
body, with one, and with more than one, and one that stops while the other goes
on.

In `wasi`, three directories, two strings and three expansions stand for 128,
32 and 128: each limit is reached by some path, and paths that stay below it
exist for every combination of links, slashes, `.` and `..`.  A path is
resolved while the file system is changed twice, which is what it takes to turn
a directory into a link and back between two turns.  Calls come one after the
other and leave nothing to the next but a directory's position, so all calls
are covered without bounding their number.

In `data` a byte has two bits, so an `i32` has 8 and an `i64` 16; a byte of
LEB128 carries three bits instead of seven, so that the last byte of a number
is a partial one in the same place (three bytes of three bits are 9 >= 8, as
five of seven are 35 >= 32; and as 64 is 1 modulo 7, so 16 is 1 modulo 3).
Sixteen pages of 16 bytes fill the address space, as 65536 pages of 65536 bytes
do.  Floats have 6 and 13 significant bits, fewer than the integers of their
width as 24 and 53 are fewer than 32 and 64, which is what makes the bounds of
the truncations inexact.  Operands are the edges of each range and all floats
next to the powers of two that bound an integer type.

Each bound is a constant: `MaxCode` (instructions per body), `MaxBlocks` (open
blocks), `MaxFrames` (frames of the function), `MaxOpens` (objects the program
creates), `MaxRenumbers` (successful renumberings), `MaxLost` (references lost
before the last refused call), `MaxHandles` (directories with a handle),
`Preopens` and `SizeBits`; `ThreadNum` and `Files`; `MaxDirs`, `MaxPaths` and
`MaxExpansions` (limits of the code), `MaxChanges` (of the file system during a
call; in `data`: of the memory), `DirSize`, `EntrySize` and `Rooms`;
`ByteBits`, `Group`, `PageBytes` and `Precision`.  Reaching one stops the model
from growing; it never turns a legal step into an illegal one.

**What the properties say.**

- `BlocksNested`: the base of each open block is at or below the next one's,
  and the stack is never cut below the base of the current block.
- `EntriesOwned`: an unresolved entry is queued on exactly one open block, and
  queues hold nothing else.
- `TargetsInSync`: in an accepted body all entries are resolved, each to an
  instruction of the body and to the number of entries before it (except the
  entry of an IF with an ELSE, see below).
- `CursorSync`: at each instruction of an execution the cursor has passed
  exactly the entries of the branching instructions before it.
- `OperandsTyped`, `LocalsTyped`: the cells are those of the types the
  validator derived, in number, type and order.
- `DeadCodeUnreached`: an instruction that was validated in polymorphic mode
  is not executed.
- `StackBounded`: `max_stack_cell_num` bounds the operands of every frame.
- `ResultsDelivered`: a finished call leaves the caller's operand, the
  results, and no frame.
- `CallerUntouched` (action property): no step changes what the caller keeps
  below the arguments.
- `RefsExact`: no slot names a freed object, and an object's count is the
  number of slots that name it plus the references lost on error paths.
- `HostOwned`: each object owns an open host descriptor of its own; above the
  standard ones whatever else is open was lost by the set-up or with the leases
  of a refused `path_link` or `path_symlink`.  So none is closed early or
  twice, and none is left behind elsewhere.  A standard descriptor is closed
  only if it may be a directory.
- `LoadBounded`: at most half of the table is occupied, but for one slot per
  renumbering, which the code no longer counts.
- `PreopenStable` (action property): the slot of a preopened directory keeps
  its object.
- `RightsWithinKind`: no slot carries a right its object's kind does not have.
- `RightsShrink` (action property): an object in the table never gains rights.
- `WriteGranted` (action property): what `path_open` makes writable was opened
  through a directory that passes on a right to modify.

- `FreedOnce`: no file and no failed allocation makes `wasm_module_destory` free
  a block twice, or one that is not allocated, but for the memory, and only
  after the program was run, which may have freed it by `memory.grow`.
- `RegularDefined`: for a file as the standard orders it, nothing undefined
  happens, with four named exceptions (section 4).
- `LeaksConfined`: what is still allocated at the exit is one of a few named
  things: what no code frees (the list of native functions, the execution
  environment and its stack, the WASI context's parts), the stacks of the
  validator, blocks of the section that failed or that a later one of its kind
  replaced, the branch table of a rejected body and the table queues of the
  blocks it had open, and, after an instantiation that failed, bodies and table
  data that a count without the imports misses.
- `CleanExit`: exit code 0 means that no exception was raised and that every
  body was accepted, or rejected for want of memory by a thread.
- `LinkedImports`: when the program runs, the k-th imported function is in slot
  k and linked to the native function of its name, whose signature fits.
- `Terminates` (liveness): `main` reaches the program or its end; no loader,
  thread or failure path blocks it.
- `Owned`: a WASI call, whichever of its steps fails, has given back all
  references, locks, buffers, descriptors and directories when it returns.
- `RightExercised`: when the host is asked, the object concerned is kept alive,
  by a reference that was got with the right the call is named after.
- `ErrorReported`: a call of which a system call failed does not report
  success, with three named exceptions, and no exception hides behind one.
- `PollAnswers`: what `poll_oneoff` returns is not empty, has no two events for
  one subscription, one for each that could not be served, and that of the
  clock only alone.
- `ListingInOrder`: the entries of a directory come from the cookie on, none
  twice and none left out, over any number of calls.
- `Inside`: no directory outside the preopened one is ever entered or handed to
  the host, nor is the name `..`.
- `RefinesResolution` (refinement): `PathLookup` implements `PathResolution`.
- `CallReturns` (liveness): every call returns, ends the program or waits in
  the host.
- `Computed` (action property): an instruction leaves exactly the value that
  WebAssembly defines, or traps exactly when it should, and leaves the cells
  below alone.
- `MemoryFramed` (action property): a byte changes only when an instruction is
  told to write it; growing keeps the old bytes and adds zeros; `memory.init`
  does not read a dropped segment.
- `PagesCounted` (action property): page count and bytes agree, and
  `memory.grow` gives what it says: it adds the pages and answers how many there
  were, or answers -1 and changes nothing; what it does is undefined only if the
  sum of the pages is 2^32 or more.
- `AddressesAgree`: the checks and translations of addresses that native
  functions use agree with each other and with the memory, at every address.

The reference definitions of `Computed` are written on mathematical integers
and single bits (`DataProperties`), not with the C operators of the handlers.

Every property is shown to be sensitive to the code by a mutant of a modelled
definition: operators marked `Mutant` stand next to the definition they
change, and under the run's own configuration TLC refutes the property when
the mutant replaces it.

## 4. Where the code and its comments disagree

Four runs expect a violation.

- **`else_target`.**  `wasm_validator.c:595` records the position of the ELSE
  body before the entry of ELSE is emitted, although the comment on these
  lines says that the jump table is set up for the IF.  A false IF enters the
  ELSE body with the cursor one entry behind, and the next branch there uses
  the entry of ELSE.
- **`loop_branch`.**  `wasm_emit_branch_table` counts the result cells of a
  LOOP for a branch to it, whereas the comment at `wasm_validator.c:280` says
  a LOOP is treated apart, and the type check indeed uses its parameters.
- **`stale_flag`.**  `wasm_validator_push_block` sets all fields of the slot
  but the polymorphic flag.  A block that follows one that ended in dead code
  starts polymorphic and may pop operands that are not there.

- **`free_slot`.**  `wasmtime_ssp_fd_renumber` lowers `used` (`posix.c:1126`)
  after `fd_table_detach` has done so.  The comment at `posix.c:477` promises a
  minimum number of free entries; after two renumberings and a close the
  counter has wrapped, no size satisfies the loop of `fd_table_grow`, and the
  next insertion doubles zero for ever.

More faults are modelled and excluded from the properties' scope without
a run of their own, since no comment or test promises otherwise: a branch
outside dead code may take operands from below the current block's base
(`borrowed_operand`), and a main function with parameters does not find its
arguments (`main_arguments`);
renumbering a descriptor to itself uses the object of an entry that was just
emptied (`crashed`); refused calls of `path_link` and `path_symlink` never give
back their references (`lost`) and the host directories opened on the way of
their paths (`strays`); and the set-up ignores whether a preopened directory
could be inserted (`strays`).  Three more are smaller: `closedir` closes a
standard descriptor that is a directory and was listed, which
`CLOSE_NON_STD_FD` means to keep open; its number may then be that of a new
descriptor, which an insertion that fails keeps open (`InsertFailed`); and
`fd_readdir` on a device locks what is not there (`crashed`).

The other models name their exceptions in the properties, again because nothing
in the repository promises otherwise.

*Life of a module.*
- A thread that cannot be created is joined all the same (`fault = "thread"`);
  a single thread that accepts its bodies is enough for the module to be
  accepted, since results are or-ed, and to a variable that was never set.  A
  body rejected with an exception still makes the execution fail.
- The value of an imported global is never written, and is read by whatever is
  initialised by it: another global (`wasm_validator.c:1636`), the values of the
  instance (`wasm_globals_instantiate.c:36`), the offset of a segment
  (`fault = "import value"`).  Nor is the index of the global that is an offset
  compared with anything (`fault = "global slots"`).
- A `memory.grow` whose pages add up to 2^32 frees the memory by a `realloc` to
  no bytes (`wasm_memory.c:54`), answers -1, and leaves `memory_data` to be freed
  again by the destruction (`fault = "free"`).
- After a failed instantiation the count of functions does not include the
  imports yet, and the destruction subtracts them.
- The stacks of the validator, the execution environment and its stack, the
  nodes of native functions and what hangs on the WASI context are never freed,
  nor are the branch table of a rejected body and the table queues of the blocks
  that were open in it.
- A memory of 65536 pages has a size of zero; there is room for one memory, but
  two import sections may bring one each, and the second is instantiated over
  the fields behind the first (`fault = "memory slots"`); an imported table
  moves the pointer of the globals.
- `execute_post_instantiate_functions` (`executor/src/wasm_executor.c:76`) is
  static and never called: no start function runs.

*WASI calls.*
- `sock_shutdown` ignores what `shutdown` returns; the options for reusing a
  port always fail.
- `sock_connect` asks for the right to bind, `sock_addr_remote` for that of the
  local address, receiving and sending for those of reading and writing, and
  the socket options and `sock_shutdown` for none.
- A refusal by `validate_path` in `path_link` and `path_symlink` keeps the leases,
  with the directories that the lookup opened for them.
- `poll_oneoff` without a clock and without a descriptor that can be polled,
  or with a timeout beyond an `int`, waits for ever.
- `wasmtime_ssp_proc_raise` and several functions for socket options are never
  called.

*Computation.*
- The handler of `i32.load16_s` (`interpreter/src/wasm_interpreter.c:1375`)
  has no `HANDLE_OP_END` and runs on into that of `i32.load16_u`, which takes
  the value just loaded for an address (`FallsThrough`).
- Loads, stores and bulk instructions compare no address with the size of the
  memory; outside of it the model says `undefined`.
- `memory.grow` by a number of pages that wraps makes the memory smaller and
  clears a negative length (`Wraps`); one that wraps to exactly no page frees the
  memory (`Vanishes`); either is `undefined`.  65536 pages become one page of
  4294967295 bytes (`WholeSpace`).
- An empty range at the end of the memory is valid and has no native address.
- In a build with the compiler's built-ins, the default, `clz` and `ctz` of
  zero are undefined.

## 5. What is proved

| module | theorem | says | argument |
|---|---|---|---|
| `TypingProofs` | `TypeCorrect` | `Spec => []TypeOK` | invariant `TypeInv` |
| `TypingProofs` | `Nesting` | `Spec => []BlocksNested` | invariant `TypeInv` |
| `TypingProofs` | `Ownership` | `Spec => []EntriesOwned` | invariant `IInv` |
| `TypingProofs` | `BranchTargets` | `Spec => []TargetsInSync` | invariant `IInv` |
| `TypingProofs` | `LiveCodeTyped` | `Spec => [](lapses = {} => FlowTyped /\ ResolvedTyped)` | invariant `TypingInv` |
| `TypingProofs` | `CursorInStep` | `ISpec => []CursorSync` | invariant `CursorInv` |
| `ExecutionProofs` | `OperandsAsTyped` | `ISpec => []OperandsTyped` | invariant `Engine` |
| `ExecutionProofs` | `LocalsAsTyped` | `ISpec => []LocalsTyped` | invariant `Engine` |
| `ExecutionProofs` | `DeadCodeSkipped` | `ISpec => []DeadCodeUnreached` | invariant `Engine` |
| `ExecutionProofs` | `OperandsWithinBound` | `ISpec => []StackBounded` | invariant `Engine` |
| `ExecutionProofs` | `ResultsLeft` | `ISpec => []ResultsDelivered` | invariant `Engine` |
| `ExecutionProofs` | `CallerKeepsOperands` | `ISpec => CallerUntouched` | `Engine` at each step |
| `ExecutionProofs` | `PointersWithin` | `ISpec => []ITypeOK` | invariant `Pointers` |
| `FdTableProofs` | `TypeCorrect` | `Spec => []TypeOK` | invariant `IInv` |
| `FdTableProofs` | `ExactCounts` | `Spec => []RefsExact` | invariant `IInv` |
| `FdTableProofs` | `OwnedDescriptors` | `Spec => []HostOwned` | invariant `HInv` |
| `FdTableProofs` | `StablePreopens` | `Spec => PreopenStable` | `IInv` at each step |
| `FdTableProofs` | `KindLimitsRights` | `Spec => []RightsWithinKind` | invariant `RInv` |
| `FdTableProofs` | `RightsNeverGrow` | `Spec => RightsShrink` | `RInv` at each step |
| `FdTableProofs` | `WritingIsGranted` | `Spec => WriteGranted` | `RInv` at each step |
| `FdTableProofs` | `HalfFree` | `Spec => []LoadBounded` | invariant `LInv` |
| `LifecycleProofs` | `BlocksFreedOnce` | `Spec => []FreedOnce` | invariant `Possession` |
| `LifecycleProofs` | `CleanExitJudged` | `Spec => []CleanExit` | invariant `Possession /\ Judgement` |
| `LifecycleProofs` | `RegularFilesDefined` | `Spec => []RegularDefined` | invariant `Possession /\ Judgement /\ Regularity` |
| `LinkProofs` | `LeaksAccounted` | `Spec => []LeaksConfined` | invariant `Possession /\ Judgement /\ Accounting /\ Turns` |
| `LinkProofs` | `ImportsResolved` | `Spec => []LinkedImports` | the same `/\ Linking` |
| `WasiProofs` | `AlwaysInside` | `Spec => []Inside` | invariant `WalkInv` |
| `WasiProofs` | `AlwaysOwned` | `Spec => []Owned` | invariant `CallInv` |
| `WasiProofs` | `AlwaysRightExercised` | `Spec => []RightExercised` | invariant `CallInv` |
| `WasiProofs` | `AlwaysErrorReported` | `Spec => []ErrorReported` | invariant `CallInv /\ Noted` |
| `WasiProofs` | `AlwaysListingInOrder` | `Spec => []ListingInOrder` | invariant `CallInv` |
| `WasiProofs` | `AlwaysPollAnswers` | `Spec => []PollAnswers` | invariant `CallInv /\ PollTold` |
| `WasiProofs` | `LookupRefines` | `Spec => RefinesResolution` | `CallInv /\ Resolving(lk)` at each step |

### The validator

The theorems are about `Spec`, the specification of `Validator`, for every
set of opcodes, block types, signatures, jump tables, imports, locals and
globals, and for all bounds.  The only hypothesis is `ValidatorAssumption`:
the constants have the types one expects.

`TypeInv` is `TypeOK /\ BlocksNested`.  The two need each other: that the
stack of types stays a sequence depends on its being cut at positions inside
it, that is, at the base of the current block, and `SubSeq` at a base is a
sequence of the right length only because bases are below the stack's top.
Each action has a lemma; the lemmas rest on a few facts about `AfterPop`
(it never goes below `Top.base`), `CellNum` and `Arrive`.

`IInv` is `TypeInv /\ BranchInv`.  `TargetsInSync` speaks of accepted bodies
only and says nothing while entries wait for their block's END.  `BranchInv`
adds what the open blocks already know:

- `LoopPositions`: a LOOP has recorded the position of the instruction that
  follows it, *or* that instruction is the one to come next and no label of a
  BR_TABLE is pending;
- `ElsePositions`: `else_addr` is the instruction behind an ELSE;
- `IfQueued`: the entry of an IF is in the queue of an IF block, never of the
  block around it (otherwise END would write a missing `else_addr`);
- `ResolvedTargets`: what has been resolved is right for ever after, because
  `code` and `seen` only grow (`Grown`);
- `EntriesOwned`, and `NothingOpen`: an accepted body has no open block, hence
  no queue, hence no unresolved entry.

The induction step distinguishes three kinds of actions (`KeepBranch`: table
and blocks stay; `EnqueueBranch`: one entry is appended and queued;
`RejectBranch`) and END, where `ResolveRight` shows that each queued entry
gets the target its block knows.

### The descriptor table

The theorems are about `Spec`, the specification of `FdTable`, for every set of
kinds and rights, every table of maximal rights, any number of preopened
directories, any width of `size_t` and all bounds.  The only hypothesis is
`FdTableAssumption`.

`IInv` is inductive where `RefsExact` is not.  It adds that the table is
well-formed (`Table`), that what is not allocated has lost no reference
(`Counts`; otherwise a reused object would start with a wrong count), and that
the slot the set-up fills next is free (`NextFree`; otherwise
`fd_table_insert_existing` would overwrite an entry, which is what the
assertion in `fd_table_attach` is about).  `Counts(t, h, l)` relates any table,
objects and debts, not only the current ones.  That makes the proof of
`fd_renumber` a chain of five lemmas in the order of the code: a reference is
taken (`AcquireCounts`: the debt grows), the old object is released
(`CloseCounts`), the slot takes the reference over (`AttachCounts`: the debt
shrinks), and the slot left behind is released.  Insertion is the same chain
with `AllocCounts`.  `GrowTable` and `GrowKeeps` say that growth loses nothing;
they need the least size that `fd_table_grow` accepts to exist (`Least`).

`HInv` adds `HostOwned`, `Listed` and `Reserved`: only a directory has a handle,
and one that owns a standard descriptor owns one that may be a directory; until
the set-up is done no directory is listed, what it opens is never a standard
descriptor, and a standard descriptor has no owner before it is inserted.
Steps either free some objects and close exactly their descriptors, but for
standard ones that are no directories (`HostShrinks`), or allocate one for an
unowned descriptor (`HostGrows`), or lose one; for `fd_renumber`, `MovedNumbers`
shows which object is freed.

Rights follow from a classification of the steps, `StepSlots`: what a step does
to the slots is that some are dropped, that one new slot appears in a free
place (by the set-up, or within the rights of a slot in use), that the rights
of one are reduced, or that one moves.  `RInv` adds `OneSlot`, that no two
slots name the same object.  It is needed because a file's kind is a
property of the object and rights are one of the slot: without it a slot could
change the kind of an object another slot has rights for.  `KindLimitsRights`
relies on the assertions at `posix.c:3319-3324`, which are part of
`FdTableAssumption`: a plain file is not a kind of sockets.

`LoadBounded` says that at least half of the table is free, which is what keeps
the random choice of a free slot from going on for ever.  The count `ft.used`
that the code looks at is not the number of slots in use: a renumbering lets it
fall one too low (a finding, run `free_slot`) and it wraps.  `LInv` says what it
is, the number of slots in use less the renumberings modulo `SizeT`, and that
twice that difference never exceeds the size.  The run's question is thereby
answered for every table: the load is exceeded by no more than the number of
renumberings.  The comparison in the code is in `size_t`; that its product does
not wrap needs `RoomAssumption`, that there are fewer slots to fill than half of
what `size_t` counts, which is so because every object takes memory.

### The interpreter

The theorems are about `ISpec`, the specification of `Interpreter`, which
validates a body and then executes it, for every set of opcodes, types and
signatures and for all bounds, under `ValidatorAssumption` and
`InterpreterAssumption`.  They are about executions that have not run into one
of the recorded defects (each property names those it tolerates).

`CursorInv` is `IInv /\ CountInv /\ ExecInv`.  It says that the cursor of the
branch table stands where the validator stood when it emitted the entries for
the code that comes next, in the current activation and in every one that waits
in the chain of frames, and that a jump goes to a position and to an entry that
belong together.  The half on the validator's side is `BranchTargets`.

What an operand is when it is popped depends on what the validator thought was
on its stack.  `TypingInv` carries this over from the validator to the code it
has emitted, for bodies whose validation recorded no lapse:

- `FlowTyped`: if an instruction is live, so are those that may follow it, and
  what its handler leaves has the types the validator had in front of the next;
- `LabelsTyped`, `QueuedTyped`: the same for a branch whose target is still
  open, in terms of the types of the block it leaves;
- `ResolvedTyped`: and for one that has been resolved;
- `LoopTyped`, `BlocksTyped`, `StackTyped`, `ReturnTyped`, `FirstLive`: what
  the open blocks and the stack of types have to do with this;
- `CellsBounded`: no stack of types in `seen` takes more than `maxCells` cells.

The validator's own facts are thus proved once, without any execution.
`RunTyped` is the execution's side: the value stack above the activation's base
is the flattening of the types in `seen` at `ip` (`Fits`, `Activation`), each
waiting activation is suspended behind a call and will fit once the results are
there (`Waiting`), and the stack below is what it was (`CallerKept`).  `Engine`
is `CursorInv /\ TypingInv /\ RunTyped`.  The induction has one lemma per group
of handlers; a branch is `Moved`, for which the upward copy of `word_copy` is
shown to be a copy as long as operands do not move up, the case the defects
exclude.

`ITypeOK`, that every pointer points where it may, is also about the step into
a defect, of which `Engine` says nothing.  `Pointers` adds to `Engine` that the
indices which ELSE and LOOP blocks remember never exceed the table's length
(`Indices`), and that the frame of whoever called from elsewhere has no locals
here (`FirstFrame`).  Every handler is one of four forms (`HandleFormed`): it
goes on within the body, perhaps through an entry of the table, it traps, it
returns, or it calls.

Recursion over data is the library's induction theorems' matter, whose operator
parameters the provers cannot instantiate.  `SequenceProofs` gets by with sets
in their place: `Induction` and `SequenceInduction` are about a subset of `Nat`
or of the sequences that is closed, and the set is a comprehension at each
use. From it follow the laws of `CellNum` and `FlattenSeq` for concatenation.
`Recursion` is about definitions by recursion: if a round over `f` asks for
values of `f` at arguments of lower rank only, and what it makes of them is in
the set that belongs to its argument (`Ranked`), then there is a function of
which each value is a round over that function itself.  `RankInduction` is
induction along such a rank.  The rounds enter as a function from functions to
functions, which is how they get by without an operator parameter.

### The life of a module

The theorems are about `Spec`, the specification of `ModuleLifecycle`, for any
set of files with any number of sections in any order, any tables of native
functions and function types, and any number of threads.  The only hypothesis
is `LoaderAssumption`: a file is a sequence of sections whose identifiers and
flaws are among those named, a global is initialised by a value or by a global
with a number, the native functions are a table of symbols, and there is at
least one thread.

`FreedOnce` is about one step, `Destroy`, and every step before it: the
destruction goes through all slots of the module and frees what they name, so
it is right if and only if each slot is empty or names an allocated block that
no other slot names.  `Possession` says so for every place at which `main` may
give up (`Holdings`, one part per group of slots).  That no two slots name the
same block is not stated pair by pair: the name of a block carries the index of
its function, element or table, and the slot's index has to be the same.  The
one sharing that the code intends is that of types: what `refs` counts is the
number of entries with this type, whatever was loaded before it failed.  Each
loader has a lemma, since each may stop anywhere; a loop over items adds one
more item to what an earlier one left.  On the side of the destruction the list
`Frees` is cut into parts (`Part`), of which each frees blocks of kinds that no
other part frees; within a part the index tells them apart, and for types the
count lets only the last entry free.  That a module which went through
validation has functions to be freed (`HoldsArrays`) is needed, because
`wasm_module_destory` walks them whenever the stage is past "Load".  What the
program's run does to this is that the memory may be gone while its slot still
names it: from then on the module owns what its slots name in `Known`, the heap
with that one block added (`Lost`), which is lost only behind an execution
whose stack is there to tell of it.  Everything else is freed as before, and no
block twice, whether or not the memory is one of those that are not allocated.

`CleanExit` is about many steps: 0 is returned at the end, and what it tells is
decided by threads that end in any order, while one of them that accepts its
bodies is enough for the module to be run.  `Judgement` says what is settled by
then.  A body is settled when it is accepted or when the rejection of some body
has left an exception or is in `silent` (`Settled`).  While threads run, every
body is settled or still to come for some thread (`Shared`): body `k` is
`threads[t].next + j * ThreadNum` for some `t` and `j`, and a thread stops early
only if there is such a rejection.  This holds for any number of threads and of
bodies, where the run has two and a few.  Without threads all bodies before the
next are accepted (`OneByOne`).  What follows the validation keeps this, and the
execution turns an exception that is still there into a failure.

`RegularDefined` relates the file to what all phases make of it: the code counts
imports and items once, in `init_load`, and later reads and writes slots by
counters and indexes of its own that are not compared with those counts.
`Regularity` says for a regular file how far the module is laid out when the
section at `pos` is read (`Laid`): the slots are as many as were counted, all
imports of the sections before `pos` have filled theirs, so have the functions
and the globals behind them, a body has room for the parameters of its type,
the size of the memory is one that the file declares, and every segment has its
table or memory.  The order of the sections enters at two places: there is only
one section of a kind, so what a section counts is what it fills (`Sole`), and
functions get their types before their bodies (`CodeAfter`).  That imports fill
their slots one by one (`SlotsNumbered`, `Ordinals`) needs that none of them is a
table, since such an import moves the pointer of the globals.  Behind the loader
all sections are past, and each place at which a later phase may use what was
never written is excluded by a part of `Laid`.  What remains are the four
exceptions that the property names: the thread that could not be created; the
value of an import, which needs that a global be imported (`GlobalsLaid` says
that a global with the value of another has it from an import);
`wasm_module_destory` after a failed instantiation, for which `Sized` says that
the number of functions is negative only with more imports than bodies; and the
freed memory, of which `FreedOnce` says when it is freed again.

`LeaksConfined` is the converse of `FreedOnce`: where `Possession` says that
what a slot names is allocated, `Accounting` says of everything that is
allocated which slot names it (`Ledger`).  A block is the module's own
(`Owned`), or it comes from a section before `pos` and its slot still names it
or a later section of the kind has taken the slot (`Traced`), or, once `main`
gives up, it is of the section that failed.  What is named is freed only as far
as the counts go which `wasm_module_destory` uses.  So `InPhase` follows the
counts through all phases: `function_count` and `table_count` lack the imports
between the stage "Instantiate" and the end of their own phase, and a failure
anywhere in between is the last disjunct of the property (`Unlinked`).  The
data of a memory is never lost that way, and the property does not excuse it:
there is room for one memory, which is counted as soon as it has its data.  The
queues of a rejected body are left behind next to a slot without a branch
table, which no other try may fill: that each body is tried once, by one
thread, is `Turns` (`Apart`: the threads' numbers are different modulo
`ThreadNum`).  Each phase and each loader has a lemma, as for `Possession`; on
the side of the destruction, `ReleasedHas` says what is among the blocks it
frees, and `TypesHave` that the last of the entries that share a type frees it,
so none of them is left.

`LinkedImports` holds when the program runs, but is made up of steps of all
phases: the table is sorted before anything is loaded, the imports are put into
their slots by the loader, and `wasm_instantiate` looks their names up.
`Linking` says of each of them what it leaves: the table has symbols of the
source and no others, slot `k` of the functions is filled by the `k`-th
imported function or by no import, and behind `functions_instantiate` each
import slot is linked to a native function of its name and type.  Only a part
of what the algorithms do is needed for that, and it is what can go wrong
silently: `SortKeeps` says that sorting, for any table, ends and leaves one of
the same length with entries of the given one (each round of the partition
overwrites the pivot's slot and puts the pivot back at the end); `LookupFinds`
says that the search ends in 0 or in an entry of the name looked for, sorted or
not.  Names need not be different.  That a name in the table is also found is
not claimed: an import that is not found ends `wasm_instantiate`.  Both rest on
`Recursion`: the range gets smaller with each round.

### The WASI calls

The theorems are about `Spec`, the specification of `WasiCalls`, for every
file system, path, list of subscriptions and size of a buffer, and for all
limits of the path lookup.  The hypotheses are `PathLookupAssumption` (file
systems differ in what a name stands for, not in the directories there are),
`WasiCallsAssumption` (the constants have the types one expects) and
`OutsideAssumption`: the preopened directory is not outside, and a directory
that is not outside has none that is as an entry, but for "..".  Which
directories are outside is thus settled before the lookup starts.  Other
processes may give names to other directories and put links in their places at
any time; that they move a directory which the walk has opened to a place
outside, from where `..` of the host leads elsewhere, is not covered.

The programs of `native_symbols_libc_wasi` are data: sequences of steps, put
together by operators that use each other like the functions of `posix.c` call
each other.  What is true of all of them is shown in two parts.

*Once, of the programs.*  An `Outline` of a program says for each of its steps
in which states a call may stand before it: what it has, what is leased, with
which rights references were got, what the result is and whether something has
failed.  It is one only if each step is `Allowed` there (a system call only with
references that were got with the rights for it; a lookup only into a free
slot), if each step leads to a state that the outline has for the next one or
for the one it skips to, and if the `undo` of each step gives back what there is
when the step fails.  `Leads(name, p, Pre, Post, Err)` says that there is an
outline from `Pre` to `Post`, with errors in `Err`.  Lemmas say so for single
steps and for sequences one after the other (`LeadsJoined`), and a lemma for
each operator of `WasiPrograms` and `HostSockets` composes them.
`EveryCallSettles` is the result: each program, with any flags, has an outline
that begins with nothing and ends, whichever way, with nothing but the leases
that `path_link` and `path_symlink` forget, and never with success after a
failure but where `ErrorReported` says so.

*Then, of the steps.*  `CallInv` says that a running call stands at a place of
an outline, and has exactly what the outline says (`Has`: what is held, less
what the leases, a lookup or a poll in progress account for).  There is a lemma
for each kind of step.  For `path_get`, whose loop is in `PathLookup`, `WalkInv`
says that the directories on the stack are inside, since one is entered only by
a name that is neither empty nor "..", and how the stacks are shaped at each
label; for `poll_oneoff`, `PollCounted` counts blocks and references; for
`fd_readdir`, `ListInv` says where the stored offset is.  `Noted` is what
`ErrorReported` needs of the past: while no error is on its way back, only
`proc_exit` and `proc_raise` run with an exception set, and `fd_readdir` with a
failure behind it has an entry to report.

`PollAnswers` is about lists of subscriptions of any length.  `PollTold` says
what the loop has collected after `n` of them (`Collected`: errors only, none
twice, none of a descriptor that will be waited for, and one for each that
cannot be served) and what is told in the end (`Told`).  The events of the
descriptors that answer come in ascending order; that every set of
subscriptions has one is `AscendingExists`.

*The refinement.*  `PathResolution` walks over one path.  The strings on the
stack of `path_get`, from the top down, are what is left of it (`Strings`).
`Resolving` says what has to be true of them: a string that waits below another
is not finished (`Unfinished`).  So the rest is empty if and only if the one
string left is finished (`NothingRemains`), which is when the code ends the
walk, and more than one component is left if and only if the code takes a
component for an inner one (`InnerIsPassed`).  There is a lemma for each action:
a name that is looked at a second time as a link is no step, to push a link's
target is `Expand`, and a limit that is reached is `Fail`.

### What is only model-checked

Every property of `Validator`, `Interpreter` and `FdTable` that holds is a
theorem, and so is every property of the runs `lifecycle` and `wasi` but the
liveness ones.  None is of the run `data`: `Numerics` uses bit operators that
no module with a theorem may reach, so `AddressesAgree` stays with TLC.
Liveness (`Terminates` and the ends of calls) and `ENABLED` are out of the
prover's reach, and no module with a theorem declares a recursive operator.

## 6. What is not modelled

- *Growth of the validator's arrays.*  The theorems hold of operand stacks and
  tables as sequences.  The code's reallocation of the type stack
  (`wasm_stack_validator.c:14-22`, reached with more than 32 operands) moves
  its top and is a hazard of its own.
- *The one allocation of frames and operands*, which nothing keeps apart
  (`ExecStack` in the plan).
- *Multiple functions in one execution*, except through `StartCalled`.
- *Floating-point arithmetic that the C compiler provides*: `add` to `sqrt`,
  the roundings, conversions to floats, `demote` and `promote`.
- *Bytes.*  What is read from and written to files and sockets, the content of
  arguments and environment, the text of names, the conversion of single error
  numbers and of addresses.  Whether a conversion succeeds is a choice.
- *How native functions get their arguments*: registers and stack slots of the
  host, filled by assembly.
- *Other platforms*: the branches for systems other than Linux, for
  capabilities (`CAP_ENTER`), and the emulations of missing system calls.
- *Functions of the WASI layer that nothing calls* (among them some
  `wasi_ssp_sock_*` options and `wasmtime_ssp_proc_raise`), and the race in
  `path_open` with a trailing slash (`posix.c:1676`) on the side of the host.
- *JIT*: off by default and a client of LLVM, whose semantics would have to be
  assumed.

## 7. Plan

Done, in this order: `WasmTypes`, `Validator`, `Interpreter` and `FdTable` with
their runs and proofs; `NativeLink`, `Loader` and `ModuleLifecycle` with the
validation by threads and the proofs of `FreedOnce`, `CleanExit` and
`RegularDefined`; the programs of the WASI calls, `PathLookup` and its
refinement of `PathResolution`, with their proofs; the proofs of
`LeaksConfined` and `LinkedImports`; `LinearMemory` and `DataInstructions`.

Left, the most central first:

1. `Structured`: an abstract machine with a label stack and no table.
   `Interpreter` is shown to implement it step by step (refinement mapping
   from `ip` and `seen` to the stack of labels), on runs without the known
   faults.
2. `ExecStack`: frames and operands in one allocation, several functions,
   exceptions in nested calls.
3. `ValidatorArrays`: the arrays with capacities and pointers; refinement to
   the sequences of `Validator` and where it fails.
