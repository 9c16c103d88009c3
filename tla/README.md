# A verification of the crowbar interpreter

Crowbar is a tree-walking interpreter for a small dynamically typed language:
arrays, strings, associative objects, closures, `final` variables, exceptions
with `try`/`catch`/`finally`, regular expressions. It is one C program of one
thread, so nothing in it is concurrent; what makes it hard is

- control that leaves C functions by `longjmp`, past code that would have put
  the value stack, the environments and the recovery point in order;
- a mark-and-sweep collector that may run inside every allocation, in the middle
  of whatever the interpreter is doing;
- results (`break`, `continue`, `return`) passed outward by hand, statement by
  statement, through blocks that have jumps and exceptions of their own;
- scopes shared by closures, and several places where a name can be looked up;
- memory managed by hand: doubly linked lists, sizes kept as running totals,
  blocks that move when they are resized.

This directory holds TLA+ modules for these parts, the TLC configurations that
check them on small instances, and proofs, checked by TLAPS, of what matters
most for every value of the constants. Source paths below are relative to
`src/src/`; lines are those of the commit beside which this directory lies.

## 1. Inventory

| Component | State | Operations | Depends on | Right when |
|---|---|---|---|---|
| **Recovery, value stack, environments** (`eval.c`, `execute.c`, `error.c`, `interface.c`) | `current_recovery_environment`, `stack`, `top_environment`, `current_exception`; the C locals that save them | calls (crowbar, native, fake methods; from expressions and from C), `try`, `foreach`, `throw`, run-time errors, compile and interpret sessions, error reports | everything that can throw | a throw lands in the innermost live handler; each activation finds its own operands and environment; what a `finally` block owes is paid; nothing is left at the end |
| **Statement executor** (`execute.c`) | the `StatementResult` under way; `result`, `executed` of each C activation | if/elsif/else, while, for, foreach, try, throw, break, continue, return, global | expressions, recovery | a jump gets where the text says (but see `JumpLandsOnTarget` in section 3); `finally` and `else` blocks run when they must |
| **Variables, scopes, closures** (`eval.c`, `util.c`, `execute.c`) | global variables, scope chains, frames, `global` references | lookup, assignment, calls, parameters, closures | heap objects | a name keeps its meaning, `final` its value, globals their protection |
| **Heap and collector** (`heap.c`) | the list of objects, `marked`, `current_heap_size`, `current_threshold`; roots everywhere | create, resize, add member, check_gc, mark, sweep | value stack, environments, variables, exception | what is in use is kept, what is not is freed, list and size exact |
| **Array storage** (`heap.c`) | `size`, `alloc_size`, block | get, set, add, resize, insert, remove | heap, allocator | behaves as a list and stays in its block |
| **Debug allocator** (`memory/memory.c`) | chain of headers, marks | malloc, realloc, strdup, free, dump, check | libc | the chain is exactly the blocks in use; damage is noticed before reuse |
| **Page storage** (`memory/storage.c`) | page lists | open, allocate, dispose | allocator | objects do not overlap; nothing is lost on disposal |
| **Operators and strings as values** (`eval.c`, `heap.c`, `create.c`) | the operands an expression is made of | binary, unary, increment, assignment operators, substr, concatenation, folding | heap | folded or not, compound or not, an expression gives the same |
| **Exceptions as objects** (`error.c`, `heap.c`) | the exception's members, its stack trace | create, add lines, print | recovery, heap | one line for each function under way, with the line reached in it |
| **Native functions and files** (`native.c`, `nativeif.c`) | `FILE *` and expressions in native pointers, `regexp_literals` | fopen, fclose, fgets, fputs, exit, finalizers; print, new_array, new_object, new_exception | heap (finalizers), calls | a stream is closed once, and the functions that take a file use it only before |
| **Regular expressions** (`regexp.c`) | position, count, result and buffers of a call | match, replace, replace_all, split | oniguruma | the loops lose and repeat nothing, buffers are freed |
| **Lexer, string literals** (`crowbar.l`, `string.c`) | start condition, text read ahead, literal buffer | the rules, compile, compile_string | parser | the tokens are the ones written |
| Parser, syntax tree (`crowbar.y`, `create.c`) | the tree | build, fold constants | page storage, operators | folding means what evaluating would |
| **Built-in script** (`builtin/builtin.crb`) | exception classes, the closures of the array iterator | create, iterate | interpreter, arrays | each element once |
| Wide characters, messages (`wchar.c`, `error_message.c`, `util.c`) | growing `VString` | convert, format | allocator | conversions round-trip |
| Life cycle (`interface.c`, `main.c`) | the interpreter | create, compile, set arguments, interpret, dispose | all | the assertions at its end hold |

How they interact. `main()` creates an interpreter, compiles, sets `ARGS`,
interprets and disposes. `execute.c` walks the statements and calls `eval.c` for
expressions; both call each other back through functions, closures and methods.
Operands, arguments and iterators live on the value stack; local variables live
in heap objects (a scope chain of frames) that `top_environment` leads to. Any
function of `heap.c` that creates or grows an object first calls `check_gc`. A
run-time error anywhere ends in one `longjmp` through
`current_recovery_environment`, a single `jmp_buf` that each call and each `try`
saves, replaces and puts back.

The hazards of this code, each at its line, are listed in `PROJECT.json` with
the properties that would catch them or the reason why none does yet.

## 2. Modules

| Module | Models | Refines / uses |
|---|---|---|
| `Unwind` | recovery point, value stack and environment chain | |
| `UnwindProofs` | proofs about `Unwind` | |
| `Memory` | abstract: a set of objects in use and one of objects allocated | |
| `Heap` | objects, list, collector, roots | implements `Memory`; uses `ArrayAllocation` |
| `HeapProofs` | proofs about `Heap` | |
| `ArrayAllocation` | how `CRB_array_resize` chooses the size of a block | used by `Heap` and `Arrays` |
| `List` | abstract: a sequence changed in one step | |
| `Arrays` | one array, its block and the loops of its methods | implements `List`; uses `ArrayAllocation` |
| `Iteration` | `foreach` over an array its body changes | extends `Arrays` |
| `IterationProofs` | proofs about `Arrays` and `Iteration` | |
| `Scope` | variables, scopes, functions and closures | |
| `ScopeProofs` | proofs about `Scope` | |
| `Statements` | statement results within one function body | |
| `StatementsProofs` | proofs about `Statements` | |
| `Operators` | operators and constant folding | |
| `Matching` | the loops of the regular expression functions | |
| `Natives` | files and expressions in native pointers | |
| `Scanner` | the lexer, its literal buffer, compilations | |
| `Traces` | the stack traces of exceptions | |
| `EvaluationProofs` | proofs about `Operators`, `Matching`, `Natives`, `Scanner` and `Traces` | |
| `Blocks` | the debug allocator | |
| `Storage` | page storages above it | extends `Blocks` |
| `StorageProofs` | proofs about `Blocks` and `Storage` | |
| `LeastNumber` | a lemma by which the proofs do induction on numbers | |
| `MC...` | the instances TLC checks | |

The exact lines each definition stands for are in `PROJECT.json` under `map`.
Some definitions have a neighbour that says nearly the same but not quite, such
as `KeepHandler` beside `RestoreHandler` or `VisitFrameOnly` beside `Visit`.
These are *faulty variants*: plausible mistakes in the code that the definition
translates. They occur in no specification. `PROJECT.json` lists under `mutants`
which property finds each of them when it takes the place of its neighbour.

### Unwind: recovery, value stack, environments

`frames[1 .. top]` are the live C activations that matter: a session
(`do_compile`, `CRB_interpret`), a call from an expression (`call`) or from C
(`ccall`), a `try`, a `foreach`, the creation of an exception (`raise`) and the
error report. A frame holds what the C function keeps in locals: the stack
pointer and recovery environment it has saved (`spb`, `recb`), how many operands
and arguments of its own lie on the stack, the environment it runs in. `rec`
names the frame whose `setjmp` filled `current_recovery_environment`, `sp` is
the stack pointer, `topEnv` the length of the chain at `top_environment`, `exc`
the pending exception and `jmp` the frame a `longjmp` is on its way to. Values
on the stack are only counted.

The program is not fixed. Wherever the tree walker may evaluate something, the
model takes any step that some program takes: push and pop operands
(`PushOperand`, `PopOperand`), call (`CallExpression`, `EnterBody`,
`CallFromC`, `ReturnFromCall`), run statements (`EndList`, `Foreach...`, `Try`,
`TryDone`, `FinallyDone`), raise (`Throw`, `RuntimeError`, `RaiseException`).
`LandInCall`, `LandInTry` and `LandInReport` are the branches taken when
`setjmp` returns for the second time. `frames` above the target of a `longjmp`
are dropped in the step that lands, as C drops them.

### Memory and Heap

`Memory` promises: an object in use is allocated, an object once lost does not
come back. `Heap` has the objects with type, cells and capacity, the doubly linked
list, marks, `current_heap_size` and threshold; the interpreter is reduced to
what it does to the roots (value stack, environments with their native
references, a global variable, the pending exception). The functions of
`heap.c` take effect in two parts: `CreateObject`, `EnterEnvironment`,
`ResizeArray`, `AddMember` call `check_gc`, and `AllocObject`, `ReallocArray`,
`AppendMember` do the rest after zero or more collections, so that whatever the
caller holds only in C locals is exposed to them. `CRB_array_resize` runs
`check_gc` twice when the block moves, `alloc_local_environment` once for the
scope chain and once for the frame, with the half-built environment on the chain.
The collector goes object by object: `ResetMark`, `Mark`, `Sweep`. `Reachable` is
the least set closed under references that contains the roots, independent of
what the collector marks.

### ArrayAllocation, List and Arrays

`List` is a sequence with set, resize, add, insert, remove in one step. `Arrays` has
the block (`cells`, as long as `alloc_size`), `size`, and the loops of insert and
remove one cell at a time; cells not written hold `Junk`. The refinement shows
the elements as they were until the loop has ended. `NewAllocSize` is the rule
of `CRB_array_resize` for growing, shrinking and keeping a block, shared with
`Heap`.

### Iteration

`loop` says which call `execute_foreach_statement` has reached: `is_done`,
`current_item` or `next` of the iterator, or the body, which may begin any method of
the array (`BodyChanges`) and goes through its loop cell by cell (`ArrayStep`).
`index` is the variable that the closures of `__create_array_iterator` share. History:
`place` says where each element that was there at the start is now, `visits` how
often the body has run for it, and `removals`, `insertions` count the changes at or
before the element the body is at: the only ones that move others past the iterator.

### Operators

An expression is built and evaluated from its operands up, as the parser reduces it.
Each node knows what evaluating it will give (`gives`), given what was folded, and
what it would have given had nothing been folded (`plain`). `Evaluate` is
`eval_expression` for operators, `Binary` the dispatch of `eval_binary_expression` in
its order. Where C code leaves a result unassigned (a compound assignment of operands
that are not numbers) the value is `Junk`; `INT_MIN / -1` is `Trap`.

### Matching

Oniguruma is reduced to what its search finds: for each position of the subject the length
of the match that begins there, or none. `ReplaceOne` and `SplitOne` are one turn of the
loops of `replace_crb_if` and `split_crb_if`, `ReplaceMatchedPlace` reads a replacement
character by character. A `NULL` string that is made an object, and a group number that
runs past the end of the replacement, end in the phase `crashed`. The reference
definitions (`Starts`, `ReplacedText`, `SplittedPieces`) know nothing of loops:
which positions begin a match, and what the text with them replaced is.

### Natives

`files` are the streams the C library has open, `objects` the native pointers and
what they point to, `held` those the program can still reach. `opened` is the stream that
`nv_fopen_proc` has in a C local while it allocates the object for it; a collection may
come between. `Sweep` runs the finalizers of the objects nobody holds.
`ReleaseGlobals`, `LastCollection` and `DisposeLiterals` are `CRB_dispose_interpreter`
in its order.

### Scanner

The rules of `crowbar.l`, one action each, on characters sorted by what the rules
tell apart. `source` is what `my_yyinput` has not delivered yet, a file at once and a string line by
line; `rest` is what flex has read and not matched. `rest` outlives a compilation
that an exception ends, and the start condition one that is accepted in the
middle of a literal. The parser is reduced to how it goes on with a token: it takes the
next (`Shift`), accepts, reports an error, which ends the process (`crb_compile_error`
calls `exit`), or folds something that raises, which `longjmp` takes to `do_compile`
(`FoldingRaises`).

### Traces

`environment` is the chain that starts at `top_environment`; an environment is `begun`
when its arguments are there. `CRB_create_exception` walks the chain from the environment
it is given, which is that of the code under way (`RaiseWithoutClass`, when `builtin.crb`
is not there yet), or that of the caller of `new_exception`: the `create` method of a class,
which removes its own line (`CreateReturns`), or any other function (`NewException`).
`activations` is the call stack as the program sees it.

### Scope

`variable` are the global variables, `frame[s]` and `next[s]` the scopes and the
ones outside them, `environment` the live calls. `Search` is
`eval_identifier_expression`, `Lvalue` and `CannotAssign` are
`crb_get_identifier_lvalue`, `AddVariable` the creation of a variable, local or
global. Parameters are bound one at a time (`BindParameter`) while
the next argument is evaluated in the caller's environment (`Current`).

### Statements

One C activation per nested statement, with the C locals `result` and
`executed`. `Jump` produces a result, `Leave` hands it to the list outside,
`CompareLabels` is `compare_labels`. An `if` runs its elsif conditions one by
one (`ElsifCondition`), as `execute_elsif` does, after one of them has held as
well. `aim` is history: where the program text says the last jump leads, computed
from the nesting alone. `for` stands for `for` and `foreach`, which differ in
what they evaluate but not in what they do with results.

### Blocks and Storage

`Blocks` is the chain of headers, with `prev`, `next`, `size` and whether the
marks are intact; `order` is history, the blocks in use from the latest to the
oldest. realloc may move a block or not; memory that is freed or fresh is filled.
`Storage` adds the storages, whose pages and own record are such blocks, and the
blocks of the rest of the program among them. A storage is disposed of page by
page.

## 3. What is checked

Each run is one configuration; all of them finish in at most three minutes on two
cores. Deadlock is checked in all of them: where the program has really
stopped, a stuttering step (`Exit`, `Disposed`, `Done`, `Stopped`, `Over`, `Crashed`,
`Exited`) says so.

### Passing runs

**unwind_safety** (`MCUnwind_safety.cfg`). Up to five nested activations, nested
`try` statements and `throw null` included. `RecoveryIsInnermost`: when
anything can throw, the recovery point is that of the innermost live handler.
`OwnEnvironment`: `dispose_local_environment` frees the environment its own call
made. `StackIsExact`: every activation finds its own operands on top.
`RootsReleased`: no session leaves an environment or exception behind, and the
assertion at `interface.c:198` holds.

**unwind_finally** (`MCUnwind_finally.cfg`). As long as no `try` statement runs
while an exception is pending (the finding *nested* below shows what happens
otherwise): a finally block entered by an exception throws this very exception
again (`PendingIsRethrown`), one entered normally throws nothing
(`NoSpuriousThrow`; `FinallyRethrows` is both), and every throw arrives (`UnwindingEnds`).

**heap** (`MCHeap.cfg`). `NothingInUseIsFreed`, `GarbageIsFreed` (cycles
included), `ListIsExact`, `SizeIsExact` (with the assertion at `interface.c:221`
that nothing is left at the end), `MarkingEnds`, and `PromiseKept`: `Heap`
implements `Memory`.

**arrays** (`MCIteration.cfg`). An array, with and without a `foreach` that runs over it.
`CellsFit`: no loop leaves the block. `PromiseKept`: an array implements `List`. The
resize method grows by at most `ARRAY_ALLOC_SIZE` at a time here (see *growth* below).
`EachElementOnce`: a `foreach` that comes to its end has run its body once for each
element that is still there, but for at most one skipped for each element removed, and at
most one repeated for each element inserted, at or before the current one; and the
iterator itself never raises, however the body shortens the array.
`IterationEnds`: it comes to its end.

**scope** (`MCScope.cfg`). `NamesKeepTheirMeaning`: while a function runs, a name goes
on to mean the same variable; a named closure can call itself whatever it was given;
no variable takes the name of a function. `GlobalsAreProtected`, and `FinalIsForever` (when
no `global` statement names a final variable, see *global* below).

**statements** (`MCStatements.cfg`). `ResultIsTheJump`: what ends a list early is
the jump statement that was executed, however many finally blocks with jumps of
their own have run since. `JumpLandsOnTarget`: it stops where the text says, with one
exception of the code's own: a `continue` with the label of an outer loop ends the iteration
of every loop on its way, and stays in the first of them whose condition holds again
(`execute.c:177`, `execute.c:224`, `execute.c:322`). `BlocksRunWhenTheyMust`: no jump and no
exception gets past a try block that has a finally block, and an else block runs only when no
condition before it has held. A jump out of the catch block runs the finally block too; an
exception thrown in the catch block skips it (`execute.c:407`).

**evaluation** (`MCEvaluation.cfg`). Five modules without common state, one of
which runs from each initial state.

- `FoldingIsEvaluation`: whatever is folded while a program is compiled would have been
  evaluated to the same, and where folding raises, evaluating would have raised too. The
  line number that a folded expression lacks (`create.c:189`) is no part of it.
  `CompoundIsBinary`: `x op= y` assigns what `x op y` gives, `x++` is `x += 1`, wrap-around
  included.
- `ResultIsReference`: `reg_replace`, `reg_replace_all` and `reg_split` give what the matches
  from left to right define, and crash exactly where that has an empty piece or an empty
  text. `BuffersReleased`: a call has freed its buffers whichever way it ends, but for the two
  cases the property names, in which the code leaks one.
- `PointersAreValid`: no function that takes a file uses or closes a stream that has been
  closed, by `fclose` or by a finalizer, no stream stays open when the interpreter is disposed
  of, and no object outlives the expression it shares. `print` takes no file: it writes to
  `stdout` even after `fclose(STDOUT)` (`native.c:47-64`), and the property does not speak of it.
- `TokensAreWritten`: a compilation that begins with nothing left of an earlier one hands the
  parser the tokens that are written, counts their lines, and ends in the middle of something
  only if the source does. Outside literals and comments a carriage return counts as a line
  like a newline (`crowbar.l:187`), so that `\r\n` counts as two; inside, the code does not
  count it, and sources have none there.
- `TraceIsCallStack`: a stack trace names the functions under way, innermost first, with the
  line reached in each, and nothing else. It says nothing while a call evaluates its
  arguments: the environment of the callee is then on the chain already (`eval.c:1265`), and
  an error in an argument is reported as if the callee had begun. The line an expression passes
  is taken to be the one that is reached, which it is not for a folded operand
  (`create.c:189-204`) or where native code passes `__LINE__`.

**storage** (`MCStorage.cfg`). `ChainIsExact`, `DumpIsExact` (what `main()`
lists at its end is what was not released), `DamageIsCaught`, `ObjectsAreApart`,
`NothingIsLost`.

### What the code does otherwise

Four runs end in a violation; each is a disagreement between the code and what
the repository says of it.

- *nested* (`MCUnwind_nested.cfg`, `execute.c:402`): the exception a finally
  block owes is kept in `current_exception` alone. A `try`/`catch` executed by
  that finally block (or by a function called there) stores its own exception
  there and then clears it: the outer exception is lost, and
  `execute_try_statement` returns a `result` that was never assigned.
- *arguments* (`MCUnwind_arguments.cfg`, `interface.c:159`): an argument that is
  not a multibyte string makes `CRB_set_command_line_args` return with `ARGS`
  still on the value stack; the assertion at `interface.c:198` fails.
- *growth* (`MCArrays_growth.cfg`, `heap.c:182`): `resize` caps the growth of a
  block at `ARRAY_ALLOC_SIZE` cells even when more are asked for, and then sets
  cells beyond the block to null. An array of 1000 resized to 1500 gets a block of
  1256.
- *global* (`MCScope_global.cfg`, `eval.c:131`): after `global x` a function can
  assign to a final global `x`; the search through the environment's references
  does not report `is_final`.

### Bounds, and why they are enough

- `Unwind`: five frames hold a session, an error report and three activations
  between, that is a handler, something that throws in it and a call between
  them, for each combination of kinds. One operand (`MaxTemps`) tells the operands of an
  expression from those of its caller. The reporting recursion of
  `show_error_stack_trace` has no limit in the code; at the bound it ends in the
  mode `overflow`, which `UnwindingEnds` excepts.
- `Heap`: three objects make every kind of list position (first, middle, last),
  chain, cycle and sharing; with one stack slot, one environment, a global
  variable and the exception each kind of root occurs alone and together with others. A
  threshold of 3 makes collections happen before some operations and not before
  others. Object names are not reused, which bounds the run, not the program:
  nothing tells a new object at an old address from one at a new address.
- `Arrays`, `Iteration`: `ARRAY_ALLOC_SIZE` 2 and sizes up to 6 take the code through all
  branches of `NewAllocSize` (doubling, the cap, shrinking, keeping), with two values, one
  of them null, so that what was written can be told from what was not. A body that changes an
  array of up to three elements twice removes and inserts before, at and behind the current
  element, in both orders. What is shown of arrays and of `foreach` is also proved, for any
  of these numbers.
- `Operators`: ints of 3 bits have each boundary (the least and the greatest one, -1, 0, 1)
  and sums and products that overflow by one and by more; two operands at a time, each of
  which may itself be an expression. Doubles are whole numbers, with one value (`Fraction`)
  for the others; a string is a number of letters, up to 2.
- `Matching`: subjects of up to 3 letters with every set of matches, so that there is a match
  at the start, at the end, two adjacent ones, overlapping candidates, none; 2
  tokens of replacement; group numbers of 1 and of `MaxColumn` = 2 digits. `MatchLimit` 6
  stands for `INT_MAX`.
- `Natives`: one standard stream and two others, two expressions, and four objects, so that two
  can share an expression or have had the same stream one after another.
- `Scanner`: two lexemes, literals of up to 2 items, `STRING_ALLOC_SIZE` 2, and a
  second compilation after whatever the first has left, with Shift-JIS as source encoding,
  the one that has second bytes.
- `Traces`: two calls in each other and the create method above them, named and anonymous
  functions, two lines: enough for a line to be paired with the wrong function.
- `Scope`: two scopes and two environments with a function whose parameter has
  its own name and a closure whose parameter has its own name make every clash of
  names the lookup rules distinguish; for any number of them the same is proved.
- `Statements`: a body and three statements in each other allow a loop in a loop
  in a try, a try in a loop in a loop, and so on, with one label and
  unlabelled loops; two elsifs allow one to hold after another.
- `Storage`: five places hold two storages with two pages each, or one with pages
  and blocks of others around them; a page of three cells is filled exactly, not
  quite, and exceeded by requests of 1, 2 and 4 cells.

### Fairness

`UnwindingEnds` needs weak fairness of `Land`: the interpreter is one thread; when
`longjmp` has been called, the code after `setjmp` runs next, without waiting for
anything. `IterationEnds` needs weak fairness of `IteratorStep`, what `foreach` does between
two bodies, for the same reason, and says itself that each body must end.
No fairness is assumed of the program that is
interpreted: it may loop for ever. Termination of the collector is stated without
fairness, as a measure that each step decreases (`MarkingEnds`).

## 4. What is proved

The proofs hold for all values of the constants that satisfy the named
assumptions: any number of frames, operands, objects, environments, any array
sizes. A hypothesis that a theorem adds is the negation of what a finding shows to be wrong.

**`UnwindProofs`.** `TypeCorrectness`, `RecoveryPoint`, `Environments`,
`ExactStack`: `TypeOK`, `RecoveryIsInnermost`, `OwnEnvironment` and
`StackIsExact` are invariants. Assumed: `BoundsAssumption`, `ValuesAssumption`,
`FlagsAssumption`. None of the properties is inductive: what a `longjmp` restores was
saved many activations earlier. The inductive invariant is
`IInv == TypeOK /\ Chain(frames, top) /\ Registers`. `Chain` says of every
frame, not only the newest, that it continues the one below it: its saved stack
pointer is where the frame below ends, its environment that frame's or one more,
and the recovery point it has saved is the innermost handler *below* it.
`Registers` says how `rec`, `sp`, `topEnv` fit the newest frame, or, while a
`longjmp` is on its way, its target. Lemmas say how `Chain` behaves when the newest frame changes,
is entered from or is dropped (`ChainChange`, `ChainEnter`, `ChainCut`); then
there is one lemma per action.

Two more theorems are about the exception itself, and hold under what the two findings of
this module violate. `RootsAreReleased` (`RootsReleased`, when `~BadArguments`): a session leaves
nothing behind. `FinallyThrowsAgain` (`FinallyRethrows`, when `~TriesWhilePending` and nothing
throws null): a `finally` block throws again what was pending when it began, and only that. The
invariant `Kept` says that `exc` outlives a `longjmp` only where an activation is there to use
it, a `finally` block it has entered or the error report, and that, as long as no `try` runs
meanwhile, this activation is the newest to have caught anything (`Sole`): `exc` is still
what it has caught. Without the hypotheses the code has no such invariant: see *nested* and
*arguments*.

**`HeapProofs`.** `TypeCorrectness`, `ListCorrectness`, `NothingFreedInUse`,
`CollectionIsComplete`, `MarkingIsFinite`, and `Refinement`: `Heap`
implements `Memory`. Assumed: `HeapAssumption` and the assumptions of
`ArrayAllocation`. The invariant adds to the types and the list where the collector
is: while resetting, the objects before the cursor are unmarked; while marking,
every reachable object is marked or can be reached from `toMark` through
unmarked ones; while sweeping, the marked objects are the reachable ones and those
behind the cursor are gone. Reachability is the intersection of all closed sets,
so that it needs no induction: to show that the collector marks everything it is
enough that the marked objects are closed, and to show that it marks nothing else,
that they lie in each closed set.

`SizeCorrectness`: `SizeIsExact`, the running total of `heap.c` is the sum over the objects
not freed. The sum is a fold over a set; that it can be taken apart at any element
(`TotalWithout`) is induction on the size of the set, by a subset of least size for which it
fails. The invariant has to add (`KindInv`) that the operation which waits for a collection still
fits its object, a resize an array, a new member an assoc, and that the half-built environment has
its scope chain, whose two cells count for nothing when the frame is put into it; and
(`DisposeInv`) that the last collection has no roots, so that nothing is left to count.

**`IterationProofs`.** Of `Arrays`: `TypeCorrectness`, `BlockCorrectness`, `BlockEconomy` and
`Refinement` (an array implements `List`), under
`SmallSteps == Sizes \subseteq Nat /\ MaxGrowth <= ArrayAllocSize`: without it
the finding *growth* refutes them. The invariant says how far the loops of insert
and remove have come: which cells are already those of the final list and which are
still those of `before`.

Of `Iteration`: `LoopsKeepArrays`: each step of `IterationSpec` is one of
`Arrays` or none, so that what is proved there holds under a `foreach` as well
(`LoopsStayInBlocks`, `LoopsKeepPromise`). `LoopTypes`, and `ElementsOnce`: `EachElementOnce` for
arrays of any size and any number of changes, under `SmallSteps`. The property speaks of the
end of a loop only; the invariant counts, at each moment, the elements behind the
iterator that were not visited (`Skipped`) and the visited ones ahead of it (`Pending`).
A removal at or before the current element moves at most one element past the iterator, an
insertion at most one back, because no two elements are at the same place
(`PlacesAreApart`); a visit takes the element out of either set, and out of `Pending` only
into `Revisits`.

**`StatementsProofs`.** `TypeCorrectness`, `JumpsAreKept`, `JumpsLand` and `BlocksRun`: every
property of `Statements`, for any depth of nesting, any labels and any number of elsifs.
Assumed: `NamesAssumption`, that the names that stand for "no label" and "no value" are none of
the labels and values. The properties compare a jump with its aim when it is executed and
when it stops; in between there may be any number of `finally` blocks with jumps of their own. The
invariant says of the jump under way (`UnderWay`), and of each that waits in the local of a
`try` statement (`Keeps`), that it `LeadsTo` its aim: none of the statements in between takes
it or has a `finally` block still to run, and the one it is aimed at does. A statement in between
can only be left or entered at the top, so that each action has to look at one.

**`ScopeProofs`.** `ScopeTypes`, `FinalsStay`, `GlobalsStayProtected` and `NamesStayTheSame`, for
any number of scopes, environments and names. Assumed: `DataAssumption`. `FinalsStay` has the
hypothesis `~GlobalFinals`, which the finding *global* shows is needed. The search for a name
follows a chain of scopes of any length, and is a recursive function: its equations are
derived (`Found`, `FoundSteps`) from the fact that scopes lead to older ones, by the least scope
at which they would fail; that a search still finds what it found (`FoundIsKept`) likewise. `ScopeInv`
adds to the types what these need: scopes of later calls are newer (`Ordered`); no function
between a call that waits for its arguments and its caller runs (`Waiting`), so that one
environment is the current one; a closure with a name finds itself first, whatever its parameters
are called (`OwnFirst`); what `global` has let in exists and is not final (`LetIn`).

**`EvaluationProofs`.** Five modules, none of which uses another; `EvaluationTypes`
puts their types together (`PartsAreTheirSpecs`: a step of `MCEvaluation` is one of each part or
leaves it alone).

- `Operators`: `OperatorsTypes`, `FoldedExpressions`, `CompoundAssignments`, for ints of any width
  and expressions of any number of operands. Assumed: `OperatorsAssumption`, with the two facts
  about powers of two the provers do not know. The invariant says of each node that folding has not
  changed what it gives (`Honest`).
- `Matching`: `CallsFreeTheirBuffers`, from which buffers a call has in each of its
  phases (`BuffersInv`), `MatchingTypes`, and `ReplacementsAndPiecesAreTheReference`: all of
  `ResultIsReference`, for subjects, expressions and replacements of any length. Assumed:
  `MatchingAssumption`; that `MaxColumn` is at least 2 (3 in `regexp.c`) is needed, since with 1 the
  code would skip the letter behind every group number. The reference and the code are
  recursive functions, `Starts` from left to right along the subject, `ReplaceMatchedPlace` from
  right to left along the replacement; that each exists, and is typed, is shown by the least
  position at which it would not. What is written for a match is compared token by token
  (`TokenRead`, `PlaceReplaced`). The invariant (`ResultInv`) compares the loops: `at` is where
  no match of the reference is under way; `count` of its matches begin before `at`; what is in
  `out`, or in `pieces`, is the reference up to there; and the next match that the library
  finds is the next of the reference (`NextStart`, `NextIsReplaced`).
- `Natives`: `NativesTypes` and `PointersStayValid`, for any streams, expressions and number of
  objects. The invariant adds that the stream in the local of `nv_fopen_proc`
  is open and belongs to no object yet, and what the disposal has released so far: the
  last collection finds nothing held, so that no object is left when the expressions go.
- `Scanner`: `LiteralsFit`, the literal buffer has room, whatever a compilation that an
  exception ends leaves of it, `ScannerTypes`, and `TokensWritten`: `TokensAreWritten` for literals,
  regular expressions and comments of any length, and any way the input arrives. A source is a
  fold over its lexemes, and a literal one over its items: what they are made of follows
  from the list of what the fold gives for each number of lexemes or items (`Flattened`,
  `ItemAt`). The invariant (`Reading`) names the lexeme the scanner is in, how many of its characters
  are behind it and how many of its tokens returned (`Within`); that what flex has read and what
  is not delivered are the text from there on, behind the two characters `%%r` may put
  back (`Placed`); and that the tokens and the line number are those of the text before
  (`Told`, `Lines`). Each rule is then compared with the kind of lexeme (`KindsGoes`): where a rule needs
  the next character to decide, `NeedsMore` has waited for it (`Delivered`). That sources have one
  lexeme or two is a bound of the model (`Sources`), which the proof keeps.
- `Traces`: `TracesTypes` and `TracesNameTheCallers`, for any depth of calls. The chain of environments
  has some whose functions have not begun; the invariant puts the activations and the environments
  that have begun side by side by their ranks (`Corresponds`), also while `create` and
  `new_exception` are on top (`CreateIsOnTop`).

**`StorageProofs`.** All properties of `Storage` and `Blocks`:
`TypeCorrectness`, `ChainCorrectness`, `DumpCorrectness`, `DamageStays`, `NothingLost`
and `ObjectsApart`, under `NullAssumption` and `SizesAssumption`, for any number of
places, storages, pages and any cell, page and request size. The argument has three
layers, each invariant resting on those before. `IInv`: the blocks in use, in the order
of `order`, are linked both ways (`Listing`, `Linked`); lemmas say what chaining,
unchaining and rechaining do to such a list. `Ownership`: each block in use has one
owner, and a storage's record and its pages are different blocks. `Layouts`: a page has
the size its cell count says, each object lies in cells its page has given away, and
no two objects have a cell in common. That bytes do not overlap then follows from cell
arithmetic (`BytesInCells`). `DumpCorrectness` needs induction along the list: a block
not found would have a least place in `order` (`LeastNumber`).

## 5. What is only model-checked

- `UnwindingEnds`, `IterationEnds`: liveness is out of the prover's reach.
- The properties the four findings refute are, of course, not proved; theorems state what is left
  of them.

## 6. What is not modelled, and why

- *Pointers into memory that moves.* Some C functions keep pointers into the value
  stack or into the members of an object across code that may make these blocks
  move (`eval.c:616`, `eval.c:993`, `eval.c:1252`, `execute.c:308`), and values
  that no root holds across code that may collect (`eval.c:221`,
  `execute.c:414`). The modules read such values in one step: what a stale pointer
  reads is undefined at once, and no property of the rest says anything after that.
- *Values*, in `Unwind`, `Scope` and `Statements`: conditions and calls have any
  outcome there. Doubles that are no whole numbers, in `Operators`, are one value.
- `Statements` leaves out `throw null` and a `try` that runs while an exception is
  pending; `Unwind` has both, and there the pending exception is lost.
- `Blocks` lets a write beyond a block damage that block's own marks only; which
  other memory it hits is undefined. A malloc that fails ends the program, as
  `MEM_FAIL_AND_EXIT`, the only mode in use, says.
- `Matching` says nothing of replacements with a group number as long as
  `REGEXP_GROUP_INDEX_MAX_COLUMN`, and of what matches the empty string: the code's
  own loops are modelled, but nothing says what the result should be. Positions are
  letters; that the library counts bytes of UTF-16 is left out.
- *Contents of files*, and `print`: input and output without state of the interpreter. After
  `fclose(STDOUT)` `print` uses a closed stream (`native.c:47-64` asks nothing).
- *The line of a folded expression*: `convert_value_to_expression` (`create.c:189-204`) leaves
  `line_number` of the node as it happens to be. Only the line that a later error reports
  depends on it.
- *`resize` to a negative size*, and a `foreach` over something without the methods it calls:
  what follows is undefined at once. The nesting of *`new_array`*: its elements are arrays
  that are made the same way.
- *Grammar*: generated by bison; `Scanner` has what the parser's outcomes do to the
  lexer, `Operators` what its reductions compute.
- *Wide characters, message texts, tracing*: conversions and
  layout without state that outlives them. `oniguruma` is external.

## 7. Plan

Done, in the order of importance: recovery and unwinding; heap and collector;
array storage; scopes; statements; allocator and storage; iteration; operators and
folding; matching; native pointers; scanner; stack traces.

Proved, in this order: unwinding, the heap, arrays, iteration, storage, native pointers, statements,
what a `finally` block owes, operators, buffers, stack traces, scopes, the size of the heap, what
replacements and pieces are, the types of what is evaluated, the tokens that are written. With these
every safety property of a passing run is a theorem, under the hypotheses section 4 names where a
finding shows them to be needed.

Further modelling:

- `Pointers`: a value stack and a variable list that move when they grow, with
  the C functions that keep pointers into them, and values that no root holds
  during a collection.
