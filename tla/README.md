# Verification of xcikit

TLA+ models of the parts of xcikit whose correctness depends on orders of
events, ownership or long chains of operations, with TLC configurations which
check them on small instances and TLAPS proofs for all instances.

    tlc -config MCFileTree.cfg MCFileTree
    tlc -config MCScript.cfg MCScript
    tlc -config MCDispatch.cfg MCDispatch
    tlc -config MCIndexedMap.cfg MCIndexedMap
    tlc -config MCWindow.cfg MCWindow
    tlc -config MCPrimitives.cfg MCPrimitives
    tlc -config MCTextTerminal.cfg MCTextTerminal
    tlc -config MCEditLine.cfg MCEditLine

    tlapm FileTreeProofs.tla
    tlapm DispatchProofs.tla
    tlapm IndexedMapProofs.tla
    tlapm FramesProofs.tla
    tlapm WindowProofs.tla
    tlapm PrimitivesProofs.tla
    tlapm TextTerminalProofs.tla
    tlapm EditLineProofs.tla

Four more configurations end with a counterexample: `MCFileTreeJoin.cfg`,
`MCWindowClose.cfg` and `MCEditLineStuck.cfg` for the modules `MCFileTree`,
`MCWindow` and `MCEditLine`, and `MCScriptShared.cfg` for `MCScriptCases`. Each
shows the code do something else than its documentation says; the quotes are
under `findings` in `PROJECT.json`.

## Inventory of the system

xcikit is a set of C++ libraries. Paths below are relative to `src/xci`.

| Component | State it keeps | Operations | What is hard about it | What makes it correct |
|---|---|---|---|---|
| `core/FileTree` | job slot, busy counter, node reference counts, directory descriptors | `walk`, `main_worker`, destructor; inside: `enqueue`, `read`, `worker` | threads, a counter outside of the mutex, a condition variable | exact counter, no early exit, one owner of each directory, every entry reported once, termination |
| `script/Compiler`, `script/code` | the code of each function | one visit per kind of expression; two optimization passes | who owns a reference; offsets from two ends of the stack | exact reference counts, the calling convention, the meaning of the program |
| `script/CodeAssembly` | instructions, labels, bytes | assemble, disassemble | jumps limited to 255 bytes are split while addresses move | every jump reaches its label |
| `script/Machine`, `Heap`, `Value` | data stack, frames, heap slots | one per opcode | reference counting by generated code; closures; lists with computed deleters | nothing is used after it was freed or stays when unreferenced |
| `script/Stack` | bytes, types, frames | push, pull, copy, drop, swap, grow | a parallel stack of types; growth and limit | types describe the bytes; content survives growth |
| `script` front end (Parser, `ast`, `typing`, Module, Interpreter) | AST, symbol tables, modules | parsing, resolution, folding | recursion over syntax | (left to the tests) |
| `core/event` | registered watches, a batch of ready events | add/remove, `run`, callbacks | watches removed by callbacks while the batch is handled; timers | no event is delivered to a removed watch; none is lost |
| `core/dispatch`, `event/*/FSWatch` | files and directories watched, callbacks | `add_watch`, `remove_watch`, destructor, events of the kernel | a thread of its own; several callbacks and names for one file | every registered callback gets the events of its file |
| `core/container` | buckets, chunks with bitmaps, hash table of strings | push, pop, index, emplace, remove, weak indices | boundaries of buckets, reuse of slots | same observable behaviour as a sequence, a map, an interner |
| `core/EditLine`, `EditBuffer`, `TermCtl::decode_input` | text and cursor, bytes not decoded yet, history and its file, rows drawn | the keys, `input`, `advance_input`/`feed_input`, `add_history` | input arrives in pieces; edited items of the history; drawing relative to a remembered row; two clients | keys take effect in order, the screen shows the text, nothing entered is lost |
| `graphics/Window` | refresh mode, timeout, SDL's queue of events, fences, current command buffer | `display`, `draw`, `finish_draw`, `close`, `wakeup` | the GPU and other threads run meanwhile; acquiring an image may fail | a buffer is recorded when the GPU is done with it; no request is lost |
| `graphics/Primitives` | uniforms, buffers shared with command buffers, a ring of dynamic uniforms | `set_uniform`, `update`, `draw`, `clear` | memory is in use by frames in flight | nothing in use is overwritten, handed out or destroyed |
| `widgets/TextTerminal` | lines of text with embedded attributes and blanks, cursor, page offset | `add_text`, `erase_*`, `new_line`, `set_cursor`, ... | attributes are stored as changes; lines exist when they are needed | the page shows what a grid of cells would |
| other `widgets` | tree of widgets, focus, bindings | key, mouse, tab, click | nested focus, callbacks that outlive their widget | one focused leaf; nothing hidden gets focus |
| `vfs` | mounted directories | mount, unmount, read | order of mounts, missing loaders | the last suitable mount wins |
| `data`, `config`, `text`, `scene`, rest of `graphics`, `math`, `tools` | formats, layouts, GPU resources | | | (not a subject of these models) |

Interactions: `ff` (tools) drives `FileTree` and gets callbacks from its threads.
The compiler keeps the functions, scopes, classes and instances of a module in
`IndexedMap`s, and produces code for the machine; native functions are called back by
the machine. `dispatch` runs an `EventLoop` with an `FSWatch` in its own thread;
the text and graphics libraries use `dispatch` to reload files. Widgets draw with
`Primitives` in the draw callback of a `Window`, and call `finish_draw()` before they
destroy what was drawn. `fire` (tools) drives the line editor, in a terminal or in a
`TextTerminal`.

`PROJECT.json` lists the components with their status, and under `hazards`
what can go wrong in them that a test would hardly reach.

## FileTree

Modules: `TreeWalk` (the promise), `FileTree` (the threads), `MCFileTree` (the
instance) and `FileTreeProofs`.

**State.** `busy` is `m_busy`, `job` is `m_job`. `stack[t]` is the C++ call stack
of thread t as far as it consists of nested `read()` calls: the directory and
the position in its listing. `pc[t]` tells where else t is. `refs` and `fds` are
the reference counts and open descriptors of the nodes, `reports` records the
calls of the callback. `walking` tells the two phases of the main thread apart.

**Actions.** One step is what other threads can observe: an access to `m_busy`
outside of the mutex (`Enqueue`, `Loop`, `JobDone`), a critical section (`Post`,
`Check`), a notification (`NotifyOne`, `Finish`), one entry of a listing
(`Entry`), one release of a node (`Decref`). A woken thread takes two steps under the
mutex: `Wake` reads `m_busy`, `Recheck` tests the job and waits again. `m_busy` and
`notify_all` need no mutex, so that other threads complete their job, leave the loop and
notify in between; `MutexFree` keeps them out of the critical sections only. The answers of the operating system
and of the callback are nondeterministic: an entry may be a file, unreadable, or
a directory which the callback refuses or accepts; a listing may fail; a wait may
return spuriously. Loads of `m_busy` with relaxed or acquire order are modelled
as reading the current value. For `enqueue()` this loses nothing: both branches
are taken in the model whenever `busy` is on either side of the limit, and the
choice is a heuristic which no property depends on.

**Bounds.** Two workers and the main thread, two inputs, the first a directory
with two entries, the first of these a directory with one file. Three threads
are enough for the queue to be full, for a thread to skip it, and for one thread
to wait while another posts and a third reads; the tree has nested directories,
siblings read by different threads, and a parent which ends before or after its
children. Nothing else is bounded.

**Run `filetree`.**
- `BusyExact`: `m_busy` is the number of threads at work plus the posted job.
- `NoEarlyExit`: a thread leaves `worker()` only when there is no work left.
- `DescriptorOwned`: every open directory has exactly one owner among activations
  of `read()`, threads about to enqueue it, and the queue.
- `RefsExact`: the reference count of a node is the number of its owners and
  existing children: it outlives what depends on it, and nothing else.
- `WalkSpec`: the callbacks and descriptors behave as `TreeWalk`: an entry is
  reported once, while its directory is open; a directory is closed once, after
  all its entries were reported or its listing failed.
- `WalkCompletes`: all the work gets done.
- `JoinedUnlessRace`: when no thread is between its reading of a non-zero `m_busy` and
  its wait (`BeforeWait`) while another is about to notify everybody, the destructor
  returns.

**Run `filetree_join`.** Without that condition it may not: `Joined` is violated.
Worker A reads `m_busy != 0` (`FileTree.cpp:40`); worker B completes the last job,
finds `m_busy = 0` and notifies everybody; A locks the mutex, finds no job and
waits, without reading `m_busy` again. The destructor waits for A. The same happens to a
worker which was woken and reads `m_busy != 0` behind its wait (`FileTree.cpp:44`): it holds
the mutex until it waits again, but B takes no mutex for what it does. Both places are in
`BeforeWait`, and `JoinedUnlessRace` fails when either is left out.

**Fairness.** Weak fairness of every thread: the operating system runs a thread
that can run. Strong fairness of the steps which lock the mutex (`Locks`): the mutex is
free again and again, not all the time, as waits may return spuriously for ever and each
return locks it. No fairness for spurious wakeups.

**Proofs** (for every finite set of workers, every tree, every list of inputs).
The first part of `FileTreeProofs` proves `TypeOK`, `BusyExact` and `NoEarlyExit`. `TypeOK` alone is
not inductive: `Placed` adds which threads hold a node and which have a `read()`
in progress. `Quiet` is `TypeOK`, `Placed` and the two properties together, and it
is inductive: each action moves one thread in or out of the set of threads at
work and changes the counter by as much (`BusyStays`, `BusyEnters`,
`BusyLeaves`), and a thread gets to its exit only after it saw `busy = 0`, when
nobody was at work who could raise it again (`ZeroIsQuiet`).
The second part proves `Spec => WalkSpec`: initial states map to initial
states, and every step is a step of `TreeWalk` or leaves reports and descriptors
alone. It rests on the invariant `Owned`: an owner's directory was started and is
open, a directory is held once (on a stack, in the hand of a thread or in the
queue), and exactly the entries before the position of its listing were reported.
It also proves `DescriptorOwned`: `Owned` says that owners are
distinct and what they own is open, and `NoneForgotten` adds that what is open has
an owner, which each step keeps by handing a directory on (`HandedOver`).
The assumptions are `ThreadAssumption` (finitely many workers) and
`TreeAssumption` (an entry has one parent).

The last theorem is `RefsExact`: `Counted` adds to that invariant that each count is the
number of its holders (`Counts`) and that only nodes already reported have any
(`Discovered`: a new node starts from zero). Making a node, closing a directory and
`decref()` each add one element to a counted set or take one out; no other step
touches a counted set.

**Only model-checked:** everything about liveness.

**Not modelled:** path strings, sorting order, default ignore lists, statistics.

## Script

Modules: `Program` (types, functions, expressions), `Compiler` (the code
generator), `Optimizer` (the passes over assembly code, resolution of jumps),
`Machine` (the virtual machine), `Semantics` (what a program means), `Script`
(all of it, and its properties), `MCScript` (all programs of a size), and
`MCScriptCases` (single programs).

**From source to model.** A program is a sequence of functions whose bodies are
resolved and typed expressions, as the code generator finds them. `Compiler!Code`
is the visitor with one case per kind of expression. Stack offsets are counted in
cells: one per scalar or pointer. `Optimizer` rewrites the same instructions as
the C++ passes do, in the same order. `Machine` has one action per instruction.
The stack is a sequence with the top first. A heap slot is never reused, so that a
use after free is seen: any use of a freed slot, of a cell that is not a pointer, or
of values which are not there makes `MemorySafe` false and stops the machine.

**Run `script`.** `MCScript` enumerates the bodies of a function of nesting depth
2: every operation (calls of library functions, native concatenation, list
construction, subscript and concatenation, struct items, conditions, contexts,
lambdas as arguments, closures executed once, twice or never, currying) on every
operand of depth 1 while its other operands are variables and literals; in a
top-level function and in a function with captures. Each is compiled with and
without the optimizer: 9848 programs.
- `RefsExact`: on entry and return of every function, the reference count of every
  slot is the number of references to it.
- `MemorySafeUnlessShared`: no undefined behaviour.
- `ReturnsToCaller`: a function returns its result above an unchanged stack of its
  caller.
- `ResultCorrect`: the result is the value `Semantics` gives, optimized or not.
- Deadlock is checked: the machine never stops in the middle.

The properties about references speak of programs which execute each closure once
(`ClosuresLinear`), because of what `script_shared` shows. 9448 of the 9848 programs
are of this kind.

**Run `script_shared`.** A closure which is executed twice releases its captured
string twice (`InstancesCounted` is violated): `EXECUTE` takes no references to the
captures it pushes, and the callee releases them. Two more patterns are left out of
`MCScript`, because the code is known to compute something else for them: an item of a
struct with slots before and after others that are dropped (`Compiler.cpp:366`: the
offset of the `DEC_REF` does not count the dropped items), and a captured function
which is passed on as a value (`Compiler.cpp:211`: it is always executed). No run has a
program with either.

**Bounds.** Depth 2 is the least at which results of calls are arguments of
others, where DROPs move across several CALLs, and where a temporary value is
captured. Strings and numbers need no more than two values each: nothing in the
machine depends on them but equality with zero and list bounds. The only loop is a
recursive library function.

**Not modelled:** functions whose body is another function, captured functions
passed on as values, directly called lambdas with captures, casts, streams,
slices, modules; byte encoding of instructions; stack growth and limit; the heap
after a runtime error.

**Proofs:** none. The modules use recursive operators over expressions, types and
code; TLAPS is not applicable to those.

## Dispatch

Modules: `Inotify` (directories and the kernel's watches, from the use `FSWatch`
makes of them), `FSWatch` (lists and `handle_event`), `Dispatch` (the event loop's
thread, the quit event, the owner and the destructor; the properties),
`MCDispatch`, `DispatchProofs`.

**State.** `m_file` and `m_dir` are the lists of `FSWatch`; a registration has a
number in addition, so that two of the same file can be told apart. `queue` is
what the kernel has, `batch` what `_notify()` has read, `handling`, `calling` and
`gone` are the locals of `handle_event()`: the event, the record whose callback
runs, and `remove_list`. `ready` is what is left of the result of `epoll_wait`.
`fired` is the eventfd, `alive` the objects not destroyed yet. `path`, `raised`,
`heard`, `stopped`, `shared` and `aliased` only remember what happened.

**Actions.** The thread's steps end where a callback or another thread can act:
`EpollWait` (any ready descriptors in any order), `NotifyQuit`, `NotifyFS` (reads at
least one event), `Handle` (up to the next callback, or one removal from
`remove_list`). `AddCalled` and `RemoveCalled` are calls by the owner while the thread
waits, or by a running callback. `DestroyFSWatch`, `Fire` and `Join` are the steps
of the destructor. `ChangeFile`, `RepeatChange` and `ChangeDir` are other programs. When the
thread uses what is destroyed it becomes `"undefined"` and nothing more is said about it.

**Events of the kernel.** An event equal to the last one that was not read yet is dropped
(inotify(7)): two writes to a file are told by one event if nothing was read and nothing
else happened in between. Equal means of the same descriptor, name and kind. The kind
of a change (create, modify, ...) is left out of the events, so the two cases are two
actions: `ChangeFile` makes a change which differs from the last unread event, and
`RepeatChange` one which does not; `Queued` does the same for events of the directory.
IN_ATTRIB of the watched directory itself comes without a name, and `_notify()` reads
one all the same (`FSWatch.cpp:142`). `NamesRead` has what may stand there: the next event,
or, behind the last one read, bytes of the buffer that were not written in this call:
any name, so that `handle_event()` may call the callback of any file of that directory.

**What clients must do.** A callback returns, and does not remove its own
registration: the function would be destroyed while it runs. The owner's calls do
not overlap with the handling of events: there is no lock, and such an overlap is
a data race. A registration has a callback.

**Run `dispatch`.**
- `WatchesExact`: `m_dir`, `m_file` and the kernel's watches agree, but for
  directories whose end is being reported.
- `NoneLost`: calls made and changes on their way add up to the changes that
  happened, or Stopped will be told. A change which repeats the last unread one does not
  count again (`raised`): it is told by the same call, which is still to come. Calls for an
  attribute of the directory do not count (`heard`).
- `HandledStays`: the records `handle_event` has iterators to stay in the lists.
- `StoppedFinal`: Stopped is the last call, and the registration is removed.
- `Delivered`, `Destroyed`: changes are told in the end, counted in the same way; the
  destructor returns.
- `SafeUnlessInterrupted`: nothing destroyed is used, unless the FSWatch was
  destroyed at a moment when the thread was about to use it. This can happen:
  `~FSDispatch` destroys `m_fs_watch` before `~Dispatch` joins the thread.

`NoneLost` speaks of callbacks which are the only one of their file, as long as no
directory was known by two names. Otherwise changes are lost: of two callbacks for one
file, only the first is called (`FSWatch.cpp:162`, although `dispatch.h` allows several);
and when d1 is watched, renamed to d2, and d2 is watched, `inotify_add_watch` gives the
same descriptor, `m_dir` has it twice, and when the last file goes, one entry and the
kernel's watch are removed (`FSWatch.cpp:115`), so that a file added under the name of the
other entry is attached to a dead descriptor for good. The variables `shared` and
`aliased` mark these cases.

**Bounds.** Three changes of the file system (`MaxChanges`): enough to delete,
recreate and change, or to rename, change and rename back. Two registrations
(`MaxWatches`): of the same file, of two files of a directory, of two directories,
or one made while the other is called with Stopped.
Two directories, three files. The kernel's queue is not bounded. The file system
does not change any more once nobody can watch it.

**Fairness.** Weak fairness of the thread, which includes that callbacks return,
and of the destructor once it began. None for the file system or the owner.

**Not modelled:** timers, signals, plain descriptors and user events in the same loop,
the kqueue and IOCP variants, failing system calls other than
`inotify_add_watch` for a missing directory, a full kernel queue.

**Proofs** (for any directories and files, any number of changes and registrations).
`DispatchProofs` proves all the safety properties of the run: `TypeOK`,
`SafeUnlessInterrupted`, `HandledStays`, `WatchesExact`, `NoneLost` and, as an action
property, `StoppedFinal`. They rest on one invariant, `IInv`:
- `Typed` keeps inodes and descriptors unique: a directory has one inode, an inode at most
  one watch, and descriptors are not given out again.
- `LoopState` and `NothingLeft` say what the destructor has done so far, and that outside of
  `_notify()` no event is half handled. If the FSWatch was destroyed while the thread
  waited, nothing of it is left to do, which is `SafeUnlessInterrupted`.
- `Known`: each registration has a number and a directory in `m_dir`.
- `Agreed` and `Heard`, as long as no directory was known by two names (`aliased`): every
  entry of `m_dir` is watched by the kernel or its end is on its way, every watch has its
  entry, and changes told and pending add up to those that happened, without repetitions.
- `CallbackRuns` and `CalledInOrder`: while a callback runs its record is in the list
  (`HandledStays`). When Stopped is told, the callbacks are called in the order of the
  list; those called so far are, by name, as often in `remove_list`. As a callback may
  add and remove others, the last is a statement about counts of names, not about
  positions.

`WatchesExact` and `NoneLost` are not inductive without `Known` and `CalledInOrder`: that
a removal takes the right entries out of both lists depends on what `remove_list` holds.
Assumptions: `NamesAssumption` (the value for "none" is not a name, number or event),
`ChangesAssumption` and `WatchesAssumption` (the bounds are numbers), `PathAssumption`
(paths are pairs of a directory and a file name).

**Only model-checked:** `Delivered` and `Destroyed`, which are about liveness.

## IndexedMap

Modules: `WeakMap` (the promise), `IndexedMap` (the container),
`IndexedMapIteration` (the same under an iterator), `MCIndexedMap` (the instance),
`IndexedMapProofs`.

**State.** `m_chunk` are the chunks: for each slot whether it is occupied
(`taken`, the bitmap), its generation (`tenant`) and its element, and for the chunk
the link `next_free`. `m_size` and `m_free_chunk` are as in the code. An `Index` is a
pair of chunk and slot, as every operation takes it apart again; a `WeakIndex` is an
`Index` with a generation. `lost` only remembers chunks which `remove(Index)` failed
to put back on the list. `it` is an iterator, `ahead` what it has still to reach.

**Actions.** `Add` is `add()` and `emplace()` with `acquire_slot()`: the first free
slot of the first chunk on the list, or of a new chunk; a chunk that gets full leaves
the list. `Remove` and `RemoveAt` are the two `remove()`. `RemoveAt` may be called for
occupied slots only, which an assertion says. The assertion itself (line 305) holds
for the first slot of a chunk only; it is taken as compiled without it. `Clear` is
`clear()`. `Begin` and `Advance` are the iterator, with any other operation between.
In line with the code, `m_size` counts additions and no removals; the test of
the container expects this, too (`test_indexed_map.cpp:46`).

**Run `indexed_map`.**
- `FreeListExact`: the links, which are stale in chunks that are full, lead
  through exactly the chunks with free slots, once each.
- `WeakMapSpec`: the container behaves as `WeakMap`: a handle which was given out
  finds its value until it is removed, and nothing later, although slots and chunks
  are used again; adding gives a handle not given out before. What a handle stands
  for (`Status`) is computed from `get()` and the generation of its slot. `clear()`
  starts anew: generations begin at 0 again, so handles of before `clear()` must not be
  used after it.
- `NoneSkipped`: an iterator reaches every element which is there from begin to end
  of the iteration, whatever is added or removed meanwhile, its own element included.

`remove(Index)` compares the bitmap with 0 to find out whether the chunk was full
(`IndexedMap.h:306`), where `remove(WeakIndex)` compares with `~0`. A full chunk does not
get back to the list, and its free slots are lost until `clear()`. `FreeListExact`
exempts such chunks (`lost`).

**Bounds.** `ChunkSize` 2 (64 in the code): a chunk is empty, partly or fully
occupied. `MaxChunks` 2: a chunk is first on the list, last, or not there, and links
are set again in either order. `MaxTenant` 1: each slot is used again once, and its
generations are told apart. With `MaxChunks` and `MaxTenant` the model ends where
the code would wrap 32 bits. The theorems hold for all values of these.

**Proofs** (for any size and number of chunks, any generations and values).
`IndexedMapProofs` proves `TypeOK`, `FreeListExact`, `ElementsExact` (an element is
in exactly the slots whose bit is set) and `Spec => WeakMapSpec`. The inductive
invariant is `Sound`: these three and `LostHasRoom` (a lost chunk is never full, as
nothing can be added to it), which is needed because a lost chunk that got full would
be missing for another reason. `FreeListExact` says that a list exists; the steps
construct it: `FillChain` drops the first element when its chunk gets full,
`RelinkChain` puts a chunk in front, and `ListFits` bounds its length by counting,
as no chunk is on it twice. For the refinement, `OneHandle` says that a change of one
slot changes what exactly one handle stands for, and `FillImplements` and
`VacateImplements` tell from what to what. Assumptions: `ValueAssumption` and
`SizeAssumption`.

`IterationComplete` proves `NoneSkipped` for `IndexedMapIteration`, where `Sound` holds, too,
as its steps are steps of the container (`NextOfMap`). The invariant `Iterating` adds that
what is ahead of the iterator exists. `jump_to_next()` is a recursive function over
positions; that it returns the first element from a position on (`JumpFinds`) takes an
induction, which is done with a least counterexample: of the positions where a function
that searches this way returns something else, the last (`LastOf`, from `WFMin` for the
order of the numbers) is followed by one where it does not.

**Only model-checked:** nothing.

**Not modelled:** moving (move assignment frees no chunks of its target),
`operator==`, `shrink_to_fit`, the wrap-around of generations.

## Window

Modules: `Frames` (`Window::draw`, the fences and the GPU), `Window` (the loop of
`display()` with its events, extends `Frames`), `MCWindow`, `FramesProofs` and
`WindowProofs`. `Frames` is a module of its own because `Primitives` uses it, too.

**State.** `step` is where a call of `draw()` is, `cur` is `m_current_cmd_buf`, `fence`
the fences, `finished` is `m_draw_finished`. `gpu` is the queue of what was submitted
and not executed yet. `stale` says that the surface has changed and the swapchain has
not followed; only then may acquiring or presenting an image fail. `pc` is where the
loop is, `after` where it goes on when `draw()` returns, `events` is SDL's queue,
`closing` a thread inside of `close()`. `abandoned`, `asked` and `owed` only remember
that `draw()` returned without a submission, that a refresh was asked for, that a
timeout was set.

**Actions.** A step ends where the main thread blocks (`WaitFence`, `DeviceIdle` in the
guards) or where another thread or the GPU can make a difference. `GpuDone` executes the
oldest submission and signals its fence. Callbacks do one of `Effects`: nothing, ask for a
refresh, set or clear a one-shot or periodic timeout, or close the window. `close()` of
another thread is two steps, the flag and the wake-up. `SDL_PushEvent` drops the event
when the queue is full.

**Run `window`**, in all three refresh modes.
- `RecordedIdle`: a command buffer is recorded only when the GPU does not have it, and is
  never in the queue twice.
- `FinishedIdle`: when `m_draw_finished` lets `finish_draw()` return at once, the GPU is
  idle. (While an image is presented the flag is not reset yet; nobody can call
  `finish_draw()` then.)
- `ClosesUnlessAbandoned`, `RefreshDrawn`, `TimeoutHonoured`: `close()` ends the loop, a
  refresh asked for by a handler or an update is drawn, and a timeout leads to an update, at
  whatever moment they are asked for, with a full queue, without further events. All three
  except what follows after a frame was abandoned.

**Run `window_close`** shows why. `draw()` resets the fence before it acquires an image
and returns when the swapchain is out of date; nothing was submitted that would signal the
fence, and `m_current_cmd_buf` has not moved on. The next `draw()` waits for this fence
without a timeout and never returns: one abandoned frame is enough. `Closes` is violated. An abandoned frame also loses the refresh
it was to draw, which is why `RefreshDrawn` has the same exception.

**Bounds.** `CmdBufCount` 2, as in the code. `MaxEvents` 2, the capacity of SDL's queue
(65535 in SDL): with one event waiting and one more it is full. `MaxInputs` 2 events
of the system: the first can change the surface while the second is handled.

**Fairness.** Weak fairness of the main thread (callbacks return), of the GPU, and of the
second half of `close()`. None for the system, the user, or a changing surface.

**Proofs** (for any number of command buffers, any capacity of the queue, any modes and
effects). `FramesProofs` proves that every step of `Frames` preserves `FramesInv`, and
`WindowProofs` that every step of the loop is one of these or leaves the frames alone:
`TypeOK`, `RecordedIdle` and `FinishedIdle` hold. `RecordedIdle` is not inductive. What is
needed is `Unsignalled`: the fence of a buffer in flight is not signalled, so that
having waited for the fence means that the buffer is not in flight; and for that,
`SubmittedOnce`, as the GPU would signal the fence of a buffer that is in the queue
another time. `Reset` says that from then to the submission the fence stays unsignalled,
abandoned frames included. `DrawsInDraw` ties the two program counters together.
Assumptions: `CmdBufCountAssumption`, `ModesAssumption`, `BoundsAssumption`.

**Only model-checked:** what is about liveness.

**Not modelled:** full screen, clipboard, views and coordinates, key tables,
presentation modes, loss of the device, several windows.

## Primitives

Modules: `UniformRing` (class `UniformBuffers`), `Primitives` (the object, its buffers and
the command buffers; extends `Frames`), `MCPrimitives`, `PrimitivesProofs`.

**State.** `prim` is a `Primitives` object: the generation of its buffers (0 without a
pipeline), the offset of its dynamic uniform, whether it was updated. `ring` has for each
generation `m_dynamic_free_offset` and `m_dynamic_used_size`. For each command buffer,
`held` are the buffers it keeps, `marks` what `release_resources` will free, `draws` what
was drawn. `own`, `fresh` and `torn` of a draw only remember whether its offset was
allocated in this ring, by this draw, and whether it was written since.

**Actions.** `SetUniform`, `DestroyPipeline`, `UpdateCreates` and `Update` are calls between
frames, `DrawUpdated` and `DrawUnchanged` calls in the draw callback. `FreeMark` and
`DropReferences` are the release of what the last frame of a command buffer kept. The
steps of the frame and of the GPU are those of `Frames`.

**Run `primitives`.**
- `ReservedWhilePending`: what a pending draw allocated is in the used part of the ring.
  The ring stores one end and a length only; it works because marks are freed in the
  order of their allocations.
- `UntornIfOwn`: what a pending draw is bound to is not written, also when the uniform did
  not change and its memory was given back by the frame that allocated it. (The last holds
  only since the ring is not reused within two frames.) Excepted are draws of a new pipeline
  before the next change of the uniform: `update()` writes the data at the offset the
  uniform had in the old ring, where it is not allocated, and the next allocation, at
  offset 0, may overwrite it (`Primitives.cpp:719`).
- `NeverOverflows`: `allocate_dynamic_uniform` does not throw.
- `TypeOK`: here it says that offsets and marks stay within the ring, and the used part
  within its size.

**Bounds.** Two command buffers; `RingSize` 7, `UniformSize` 1, `MaxDraws` 2 and
`MaxUpdates` 1: two frames with up to three allocations each are in flight, which is
six, so that the ring wraps around at every offset; with less `NeverOverflows` fails. An
object that is updated in each frame and never drawn allocates each time and frees
nothing: the code then throws, whatever the size, and the bound `MaxUpdates` excludes it.
`MaxGenerations` 3: one for each command buffer and one for the object. An image is
always acquired here; `Window` has the other case.

**Proofs** (for every size of the ring and of the uniform, any number of command buffers,
generations, updates and draws). `PrimitivesProofs` proves `TypeOK`,
`ReservedWhilePending`, `UntornIfFresh` (a draw which allocated its uniform sees what it
recorded) and `HeldWhilePending` (buffers outlive the commands that read them). The
argument measures positions by their age, the distance from the free offset backwards:
an allocation makes everything older by as much (`AgeShift`), and a position is in use
exactly when its age is at most the used size. `RingInv` says that generations with marks
are kept (`GensHeld`), that marks are in the used part (`MarksUsed`), that within a command
buffer and from one buffer to the next they get younger (`MarksOrdered`,
`BuffersOrdered`), and that a draw's block is younger than all marks that are freed before
its command buffer is released (`DrawsYounger`, `DrawsUsed`). Freeing a mark then leaves
every younger block in use.

`OwnUntorn` proves `UntornIfOwn` and `NoOverflow` proves `NeverOverflows`, for every ring
which has room (`RoomForFrames`): `(CmdBufCount * (MaxDraws + MaxUpdates) + MaxUpdates)`
allocations of `UniformSize`, those of the frames in flight and the updates before the
next. The code does not check this; it is the sizing rule its users must keep, and the
instance of the run meets it with equality. A draw of a uniform that did not change is
bound to a block that may have been given back, so the used part says nothing about it.
`OwnInv` therefore counts: `Since(p)` bounds what was allocated by the frames from place
`p` of the release order on; `UsedBounded` and `MarksBounded` say that the used part and
what is younger than a mark are within these bounds, with the units lost where the ring
wraps around counted separately (`Within`), which takes that all free offsets are ends of
allocations (`RingsAligned`). A frame allocates in one ring only (`FramesOfOne`), as
pipelines come and go between frames. `OwnDraws` says that less was allocated since such a
draw than would come round to its block. Assumptions: `RingSizeAssumption`, `UniformSizeAssumption`,
`CmdBufCountAssumption`, `BoundsAssumption`.

**Only model-checked:** nothing.

**Not modelled:** vertices, textures and storage, plain uniforms (documented to change at
once), descriptor pools, shapes and sprites.

## TextTerminal

Modules: `TermAttributes` (class `Attributes`), `TextLine` (class `Line`), `TextTerminal`
(the widget), `Screen` with `ScreenRows` (the promise), `MCTextTerminal`,
`TextTerminalProofs`.

**State.** A line is a sequence of tokens: characters, runs of blanks and changes of
attributes. The code encodes them in one string, with control bytes; a token stands for
what is encoded and decoded again. `buffer`, `offset`, `cursor`, `cells` and `attrs` are the
members of the same names. `undefined` is set by an access to a line that does not exist,
`switched` and `shrunk` remember a call of `set_buffer()` with lines scrolled off, and of a
resize to fewer lines.

**Actions.** Each public method that changes text, page, cursor or attributes is one
action. `TextLine` follows the code: `content_skip` finds the place, and the operations
split the content there and write attributes before and after what they insert, such that
the rest keeps its looks.

**Run `terminal`.**
- `ShowsScreen`: rendering the lines shows what `Screen` says: a grid of cells with
  attributes, in which text overwrites cells, insertions shift, erasures leave blanks of
  the given attributes. The refinement maps `buffer` to what is rendered.
- `CursorOnLine`: no call reaches a line that is not in the buffer.
- `BelowPageEmpty`: what is scrolled into the page is an empty line.
- `TypeOK`: among others, no run of blanks is empty or longer than 255.

`CursorOnLine` and `ShowsScreen` except what follows `set_buffer()` while lines are scrolled
off: it replaces the buffer and keeps `m_buffer_offset` (`TextTerminal.cpp:744`), so that
`current_line()` reads beyond the end.

**Bounds.** Any three calls (`MaxOps`), with any change of attributes in between, after each
of four first lines which earlier calls may have left: attributes of several characters,
erased ranges, inserted text. Pages of 2x2 and 3x1: a position is at the begin, inside or
beyond each kind of token. One attribute with a default and another value: attributes do
not influence each other. Columns up to 2.

**Proofs** (for any texts, pages, attributes and numbers of calls; `TextTerminalProofs` also
for characters of one or two cells).
- `ChangeTakesEffect`: what `preceded_by` leaves to write has the wanted effect after the
  attributes given. `RestoresWhatFollows`: the attributes written after inserted text
  restore what follows. Every operation on a line rests on these two.
- `CursorStaysOnLine` and `NothingBelowPage`: `CursorOnLine` and `BelowPageEmpty` as they
  stand. Neither is inductive alone. The invariant is `PageSound(low)`: while no buffer was
  switched, the lines reach down to the cursor; while the page was not made shorter either,
  the cursor is on the page and every line below the page is the empty one. The second half
  is needed for the first, since `erase_scrollback()` and `new_line()` move `offset` and
  cursor separately, and each move keeps their relation only on a page that exists.
- `TypeCorrect`: `TypeOK`, if every page has fewer columns than the longest run of blanks,
  and the client names no column beyond it (`NarrowPages`). This is what the code needs:
  `content_skip()` writes the length of the run it fills a line with in one byte
  (`TextTerminal.cpp:381`) without splitting it, unlike `erase_text()`. Columns beyond the
  page come from `set_cursor_x()`, `erase_in_line()` and `delete_text()`. The invariant is
  `PageSound(1)` and the cursor not beyond the widest page.

The lemmas are about what the places found in a line are made of, by the recursive functions
of `TextLine` (`CellsCounted`, `AttrsDecoded`), and about the loop of `add_text`
(`TextAddedKeeps`: what one character keeps, a text keeps).

The second half of the module proves the refinement, `ImplementsScreen`: `Spec => ShowsScreen`, for characters
of one cell and, again, `NarrowPages`. `LineLook(line, c)` is what a line shows in column c;
each operation on a line is first told by that function (`TextLook`, `DeleteLook`, `EraseLook`,
`EraseRestLook`, `ClearLook`), and two rows which show the same in every column are equal
(`SameRow`), which makes it an operation on the row. The invariant adds `Settled` to
`PageSound(1)`: a line is blanked to its end or its attributes end with the default ones.
Without it the blank cells behind a text would have the attributes of its last character as
soon as something is written further right. `add_text()` flushes a fragment when it meets the
border or a newline; `Screen` writes one character after the other. The simulation (`TextShown`)
maps a loop with a pending fragment to the page on which that fragment is written already, so
that no step of the loop depends on where the fragments are cut. `FirstLinesAssumption` states
`Settled` of the lines of the initial state.

**Only model-checked:** nothing.

**Not modelled:** characters of two cells (the constant `Wide` is empty in the run, because
overwriting half of one moves the rest of the row, `TextTerminal.cpp:372`), the bell,
glyphs and painting, scrolling back.

## Line editor

Modules: `EditBuffer` (class `EditBuffer`), `InputDecoding` (`TermCtl::decode_input`),
`TextScreen` (the terminal it draws on, external), `EditLine` (the class with its two
clients, `repl_loop` and `repl_step` of `fire`), `Editor` (the promise), `MCEditLine`,
`EditLineProofs`.

**State.** The members of `EditLine` keep their names; texts are sequences of code
points, input is bytes. `file` is the history file, `screen` what the terminal shows.
`tty` is sent and not read, `typed` are the keys whose bytes are still in `tty` or
`input`. `remains` marks the moment after Ctrl-C or the end of the input in which the
line given up still stands beside the new prompt, until the next redraw.

**Actions.** `Type` sends a key's bytes. `Receive` reads any part of what was sent, cut inside
of a character, too. `ProcessInput` is one turn of `process_input()`: decode, one of the
`process_*` functions, redraw; `NeedMoreInput` its early return. `NextLine` is the
client: the line is stripped, added to the history and the file, and the next prompt is
shown. `EndOfInput` and `Leave` end `repl_loop`. `Restart` is a crash at any moment, or an
exit, and a new start: everything but the file is lost.

**Run `editline`.**
- `Implements`: the editor, decoding, history and file behave as `Editor`: keys take effect
  in the order they were typed, however their bytes arrived; items of the history keep
  the changes made to them until a line is entered; the line set aside comes back;
  what was entered is there after a restart, items of several lines as they were.
- `ShowsContent`: at every wait the screen shows the prompt and the text with the cursor in
  its place, nothing below, and the row above is untouched.
- `KeysHandled`: with `repl_step`, every key has its effect in the end. With `repl_loop` it
  need not: `input()` reads first, although keys behind an Enter are in `m_input_buffer`,
  and they wait for the next key.

`Editor` says what a user may rely on, and no more: where up and down land in a line is
left open when characters of several bytes are around, as the code compares bytes with
characters, and up from the line after an empty first one goes down (`EditBuffer.cpp:82`:
the search from `npos`).

**Run `editline_stuck`.** A byte that is not UTF-8 is decoded as an incomplete character:
`utf8_codepoint_and_length` returns -1 in the place where `decode_input` does not look. It
is never consumed, nor is anything after it.

**Bounds.** Any four keys of one of three keyboards (words, lines, history), each with ten
or eight keys: one for each operation, plain, with Alt and with Ctrl. Two keys may be sent
and not read (`MaxPending`), one restart. Four files: none, a line, items of several
lines, and one with lines of different lengths and wide letters. An escape sequence
arrives as one piece (`SplitsSequences`): a lone Escape at the end of the input is
taken as the Escape key by the code, which no terminal sends in pieces over a local line.

**Fairness.** The program runs, and receives what the terminal has sent. `CanRun` spells out
when it can run. None for the user.

**Proofs** (for any texts, histories, prompts, keyboards, encodings of keys, pieces in which
bytes arrive, and numbers of keys and restarts).
- `ImplementsEditor`: `Implements`. `ContentShown`: `ShowsContent`. `EditLineInvariant`: the
  invariant both rest on. All three have the hypothesis `OrdinaryInput`, which the run has, too:
  the editor is created with `IsMultiline`, as `fire` does; no escape sequence arrives in two
  pieces; and no key stands for bytes that are no key, which is what `editline_stuck` shows.
- The invariant `EditLineInv`: `buffer` is a text with a cursor in it, and each position in the
  history has an item (`EditorOK`); `input` and `tty` are the bytes of the keys in `typed`, of
  which some arrived and the first may be cut (`Streams`); `continueNl` is what the highlighter
  says of the text; the editor never waits in the state that follows Ctrl-C. `Implements`
  needs every part: `Streams` tells which key is decoded next, and the state which phase of
  `Editor` the client is in.
- `DispatchedEffect`: a key changes text, cursor and history as `Editor` allows. Each
  operation of `EditBuffer` is compared with what `Editor` says of it, by the positions it looks
  for: `MoveUp` and `MoveDown` by bounds on the bytes before a place, since they compare
  bytes with characters.
- `DecodeStable` and `StreamDecoded`: a key that was decoded is decoded alike whatever follows,
  and of any part of the bytes of several keys, decoding takes the first key or waits.
- `HistoryFileKeepsLines`: an item written by `add_history` is loaded by `open_history_file` as
  it was, behind the items before it. `ImplementsEditor` needs it for `Restart`.
- `ContentShown` adds `ScreenInv`: while keys are awaited, the screen begins with the prompt
  and the cursor is `cursorLine` rows below it (`Ready`); after Enter the cursor is in an empty
  last row (`Fresh`); unless a line given up `remains`, the screen is exactly the drawing of the
  buffer (`ShownOf`). `ShowsContent` alone is not inductive: a redraw moves up `cursorLine` rows
  and clears from there, which is right only if it was the row of the cursor after
  the drawing before. `DrawLinesIs` gives the loop which draws the lines in closed form, with the
  line and column of the cursor found on the way by counting down its distance from the begin.

They assume of the constants what TLC checks on the run: the bytes of a key decode to it
and begin no longer sequence (`EncodingAssumption`); characters have one column or two, a line
feed counts as one (`WidthAssumption`); texts consist of the characters of the keyboards
and the files (`CharactersAssumption`), and no file begins with a row that continues another (`FilesAssumption`); nothing is open in an empty text (`EmptyIsClosed`).

**Only model-checked:** `KeysHandled`, which is liveness.

**Not modelled:** keys read from terminfo, lines wider than the terminal, highlighting,
completion, several programs that write one history file.

## Known behaviours without a property

Seen while modelling, and left out of the models or excepted by a condition named above:

- `Machine.cpp:122`: LOGICAL_OR combines its first operand with itself.
  `Machine.cpp:380`: after an index error the values on the stack are dropped without
  being released. `Value.cpp:412`: offsets of the slots in list elements are deltas of
  deltas. `Value.cpp:535`: slices with step 0 or bounds beyond the list.
  `CodeAssembly.cpp:101`: labels whose jump is not emitted yet have address 0 when long jumps
  are split. `Stack.cpp:82`: `copy()` records the types before it checks for room.
- `EventLoop.cpp:53`: a callback which destroys a watch whose event is later in the same
  batch. `FSWatch.cpp:155`: the event which tells of an overflow is ignored.
  `FSWatch.cpp:142`: the name of an event without one is read from the bytes behind it, which
  may be uninitialized; a callback may be called for an attribute of its directory.
  `dispatch.cpp:31`: nothing protects the lists against the owner's calls.
- `IndexedMap.h:254`: `m_size` counts additions only. `IndexedMap.h:270`: `clear()` starts
  generations anew, so that handles of before find new elements.
- `ChunkedStack.h:413`: `operator[]` is off by one at the end of a chunk.
- `Widget.cpp:174`: the Tab key gives the focus to hidden children.
- `Primitives.cpp:609`: the callback which reads storage captures the object, and runs when
  the frame's resources are released, perhaps after the object is gone. Hidden primitives
  that are updated each frame overflow the ring. `Renderer.cpp:310`: the vector of descriptor
  pools moves them when it grows.
- `TextTerminal.cpp:381`: padding of more than 255 blanks is cut. `erase_scrollback()` and
  `erase_buffer()` leave the scroll offset. A page of zero columns makes `add_text` loop.
- `EditLine`: after the end of the input `repl_loop` evaluates the partial line and asks
  again, and again. `EditLine.cpp:34`: a history file which begins with a line `|` makes
  `back()` of an empty vector (excluded by `FilesAssumption`). `add_history` compares a new line with the last item as it was edited in
  memory, not as it was entered.

## Not modelled

The models cover the parts where an order of events, a lifetime or a long chain of calls
decides about correctness. They leave out most of the lines of the repository:

- parser, syntax tree, symbol and type resolution, builtins and modules of `script`: recursion
  over syntax without state that outlives a pass. The programs of `Script` enter resolved.
- `tools`: command line front ends; `ff` and `fire` are in the models as clients.
- `vfs`, `data`, `config`: formats and lookups, one call at a time.
- `text`, `scene`, `math`, most of `graphics`: layout, geometry and creation of GPU objects.
- `widgets` other than the terminal: a sequential tree with focus.
- `core`: argument parsing, logging, paths, strings, the rest of `TermCtl`: formatting.
- the kqueue and IOCP variants of the event loop, and the other platforms of each component.

## Plan

Done: `FileTree`, `Script`, `Dispatch`, `IndexedMap`, `Window`, `Primitives`, `TextTerminal`, the
line editor. Next, in this order:

1. `Stack`: bytes, types, growth and overflow, as an implementation of a stack of values;
   `ChunkedStack` as an implementation of a sequence.
2. `Assembler`: jumps in bytes against positions. `ListSlots`: deleter offsets and slices
   against reference definitions.
3. `Focus`: widgets; timers and watches that come and go in one loop.
4. Proofs about `Script`: they need the compiler and the machine as recursive functions, since
   the provers cannot use recursive operators, and induction over expressions, which none of
   the installed provers can do. Until then `RefsExact`, `MemorySafeUnlessShared`,
   `ReturnsToCaller` and `ResultCorrect` stay with TLC, as does all liveness.
