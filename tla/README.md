# Verification of prodbg_addons

prodbg_addons holds two back ends for the ProDBG debugger. `musashi_addon` is a
plugin that loads 68000 object files, runs them on the Musashi emulator and lets
ProDBG stop, step and inspect them. `anglescript_addon` is the skeleton of a
debugger around the AngelScript library, which it carries with its add-ons. This
directory models the first, its emulator's control included, and of the second
those parts of the library where order, sharing and failure make it hard, in
TLA+, with TLC runs and TLAPS proofs.

Every module names the file it translates, and definitions keep the names of the
functions they translate. `PROJECT.json` gives the source lines of each.

## The system

    ProDBG host  --create/destroy/update-->  m68k_prodbg_plugin.c
                                              |  update: execute, act, answer events
                                              v
                      m68k_debugger.c   (state of the target, 100 instructions or 1)
                       |          |                      |
                       v          v                      v
             Musashi core   m68k_debug.c          m68k_elf_loader.c
             (one cpu)      (breakpoints,         (files, sections, symbols,
                             memory, disassembly)  lines <-> addresses)
                                                         |
                                                   m68k_allocator.c

All of it runs on the host's thread, inside the three callbacks; there are no
locks and no files written. What is hard is not parallelism but *calls*: state is
in C globals that outlive the instances using them, a step is recorded in one
call and taken in another, and two instances share one cpu.

    application threads --asAcquire...Lock--> as_thread.cpp (read and write lock)
       |                                         ^
       |  Prepare, Execute, Abort, Suspend       | GetWeakRefFlag
       v                                         |
    contextmgr.cpp ---> as_context.cpp ---> as_scriptobject.cpp <--- weakref.cpp
    (co-routines)       (call stack,        (counts, destructors)
                         stack blocks,           ^
                         nested calls)           | count, mark, release
                          ^                      |
                          | PushState        as_gc.cpp ---> as_map.h
                     scriptarray.cpp                        (red-black tree)

The AngelScript library runs in as many threads as the application has. A script
object is shared by counting its references; what counting cannot free the
collector finds, while scripts go on. A context is one thread's, but functions it
calls may call scripts again in the same context, and other threads may ask it
to suspend. The co-routine manager swaps contexts where scripts yield.

| component | state | operations | who calls it | what makes it correct |
|---|---|---|---|---|
| plugin (`m68k_prodbg_plugin.c`, `m68k_debugger.c`) | `g_debugger`, each instance's `state`, the cpu's pc | `createInstance`, `destroyInstance`, `update` | the host | no dangling instance; the location and state the host shows are those of the target; a stopped target does not move; a step is taken; requests are replied to |
| breakpoint table (`m68k_debug.c`) | array of 512, a count, an identifier counter | add, delete, get | plugin; delete and get have no caller yet | it is a set of breakpoints with unique identifiers |
| ELF loader (`m68k_elf_loader.c`) | region cursors, file table, sections, memory | `m68k_code_init`, `m68k_elf_load`, `m68k_elf_link`, symbol and line lookups | plugin, breakpoint table | sections never overlap; relocations hold the addresses of their symbols, and stay so; lines and addresses map to each other |
| memory and disassembly (`m68k_debug.c`) | 68k memory | read/write 8, 16, 32; `m68k_disasm_pc` | Musashi core, plugin | big-endian round trip; the text fits its buffer |
| linear allocator (`m68k_allocator.c`) | pointer, start, size | create, alloc, rewind | loader | blocks are aligned, disjoint and inside |
| log (`m68k_log.c`) | level, saved level | set, save, restore | loader | restore gives back what save saw |
| Musashi core (`core/`) | registers, three stack pointers, status register, interrupt request, stop levels | execute, single step, interrupt, halt, reset | plugin | stacks do not drift; an exception's return resumes what it interrupted; no request is forgotten; user mode stays user mode |
| collector (`as_gc.cpp`) | new and old objects, the map of counted references, states of three incremental sweeps | `GarbageCollect`, `AddScriptObjectToGC` | engine, scripts that allocate | counts stay exact; nothing that is in use is torn apart; a full cycle ends, without garbage |
| weak references (`as_scriptobject.cpp`, `weakref.cpp`) | count, a flag created on demand | `Release`, `GetWeakRefFlag`, `Get` | scripts in any thread | an object is destructed before it goes, and no weak reference leads to one that is gone |
| read and write lock (`as_thread.cpp`) | a semaphore's slots, a critical section | acquire, release, shared or exclusive | any thread | a writer is alone, and gets in |
| context (`as_context.cpp`) | status, call stack, stack blocks, requests for abort and suspension | `Prepare`, `Execute`, `Abort`, `Suspend`, `PushState`, `PopState` | application, library, add-ons | nested calls leave the outer call as it was; stacks of functions are apart; an abort reaches the application |
| co-routines (`contextmgr.cpp`) | threads of contexts, whose turn it is, who sleeps | `ExecuteScripts`, `AddContext`, `AbortAll`, and `yield`, `sleep`, `createCoRoutine` of scripts | application, scripts | every context is somewhere once; everyone gets a turn |
| map (`as_map.h`) | a red-black tree | insert, remove, find, iterate | collector, engine, compiler | sorted, balanced, complete |
| AngelScript compiler, builder, parser, bytecode, restore, engine, native calls, other add-ons; Capstone headers, build scripts | - | - | - | not modelled, see below |
| debugger addon (`asdbg_engine.cpp`) | a list of breakpoints, a map of callbacks, a connection | register, add, list, tick | the embedding program | nothing yet: its handlers are empty |

Behaviours that are hard to test, each at its line, are the `hazards` of
`PROJECT.json`; each names the property that would show it going wrong, or why
there is none.

## The modules

**`BreakpointSet`** (abstract) is what `m68k_debug.h` lets a caller expect: a set
of breakpoints, an identifier never given twice, deletion of exactly the one
named. Capacity is part of the promise: once an addition finds it exhausted,
nothing more is promised.

**`M68KBreakpoints`** is the table of `m68k_debug.c`: the array, filled from the
front, its count, the identifier counter. `m68k_add_breakpoint` is
`AddResolved`, `AddUnresolved` (-1) and `AddPastEnd`, the write past slot 511
after which behaviour is undefined (`overrun`, and no further step).
`m68k_del_breakpoint` moves the last slot into the hole and returns 1, found or
not. A breakpoint's file and line are one value, a *location*: the table does
not look at them.

**`M68KPlugin`** is the plugin with `m68k_debugger_update`, over an
`INSTANCE` of `M68KBreakpoints`. A call of `update` is a sequence of steps, as
in the code:

| code | action |
|---|---|
| entry, `switch (g_debugger->state)` | `update` (fixes how many instructions: `ToExecute`) |
| `m68k_execute_single_instruction` | `ExecuteInstruction` |
| `do_action` and the `StopBreakpoint` branch | `do_action` |
| `PDRead_get_event` and its three handlers | `getDisassembly`, `getMemory`, `setBreakpoint`, `CrashOnGarbage`, `IgnoreEvent` |
| `PDRead_get_event` returns 0 | `Return` |

What is written is a sequence of event kinds (`sent`); `location` is the pc in the
last `SetExceptionLocation` each instance wrote, `shown` the state `update` last
returned, so both are what the host can know. `getMemory` writes data without an
event, and that is what `sent` records. An event without the fields
`setBreakpoint` looks for leaves its locals uninitialised: any location, none, or
a crash. The 68000 is external: an instruction takes the pc to one of its
`Successors`. The line lookup of `m68k_add_breakpoint` is the constant
`Resolve` here; the lookup itself, and the crash it may end in, are in
`M68KElfLoader`. `createInstance` resets the pc; the memory, stack and file
`m68k_debugger_init` sets up belong to the loader's model.

**`M68KElfLoader`** is `m68k_elf_loader.c`. An object file is the record its
headers amount to (sections with sizes, types, relocations and line entries;
symbols), byte order and layout aside; symbol names are compared through `Hash`,
a function, since the linker compares nothing else. Host pointers are numbers, and
an address the 68k sees is the distance from `memStart` modulo `Word`
(`getOffset`); a 16-bit relocation keeps the low `Half`. A load is several steps
(`StartLoad`, one `AllocateSection` or `SkipSection` per section, `FinishLoad`),
so that invariants hold between sections too. `m68k_code_init` may be called
again, as every `createInstance` does: the 68k gets new memory and the files
stay. Errors are those of the code: a file that cannot be read is registered
without a path (`LoadFails`), a later comparison with it crashes (`LoadCrashes`,
`LookupCrashes`), a relocation that cannot be applied ends the program, and the
file after the last slot corrupts it. `m68k_elf_link` is one step: what it has
written before it exits is seen by nobody. The lookups are pure operators.

**`M68KSession`** extends the loader with an `INSTANCE` of the breakpoint table and
does what `createInstance` does through `m68k_debugger_init`: new 68k memory, the
return address pushed at 0x10000, a program loaded and linked. Instances follow one
another, each with its own memory, while the loader's files and the breakpoints
stay. `returnSlot` follows the one word on the stack through what is copied and
linked over it.

**`M68KLinearAllocator`** is `m68k_allocator.c`: a pointer that moves up, aligned, and
back to points noted before. Blocks handed out are history, forgotten where the
pointer goes back below them. Nothing compares it with the size.

**`M68KCpu`** is the control of the Musashi core. Of the registers it keeps those that
decide what runs next: pc, the stack pointers, and S, M and the mask of the status
register. `set_sm_flag` banks the stack pointers as `REG_SP_BASE` does; exceptions
push frames of three formats, by cpu type; `Rte` undoes them, twice for a frame left
by an interrupt on the master stack. Operators take a cpu and return one, named for
the functions they stand for, since the code calls them in sequences. An instruction
that touches none of this is `Plain`. `frames` is history: what each exception
interrupted.

**`ScriptGC`** is `as_gc.cpp` with the counts of `as_scriptobject.cpp`. One step is
one return of `DestroyNewGarbage`, `DestroyOldGarbage` or
`IdentifyGarbageWithCyclicRefs`; between any two the script creates, takes, assigns
and drops handles, follows weak references, and destructors raise their objects. A
full cycle is `StartFullCycle` and `FullCycleStep`s, since the callback of the
collector, or another thread, may run the script between. `Destruct` is one object's
end in the chain of releases that `ObjRelease` sets off; each object ends once, so
that as many as there are objects are enough, and no operator need be recursive.

**`ScriptWeakRef`** is how one object ends: each thread's `Release` is four steps, as
the code's tests, flag, destructor and decrement are, and another thread may follow or
create a weak reference at each.

**`ScriptLocks`** is `asCThreadReadWriteLock` as built for Windows. The semaphore is the
set of its free slots; `LockReaderOut` takes one.

**`ScriptContext`** is a context: `cx` its members, `cpp` the C++ calls that are under
way in it (an `Execute`, a system function, a nested call of a factory, a destructor
or a comparison). A stack pointer is a block and how much is left of it, so that
`ReserveStackSpace`, `PushState`, returning and unwinding are arithmetic on what the
properties are about. `q` is what a line callback asks for. Behaviour ends where an
assertion of the code would fail: `MarkerOnTop` in `PopState`, and
`ComparisonPrepared`. `origin` follows whether `m_originalStackPointer` is that of the
function prepared last: not after a `Prepare` that found no stack (`"stale"`), and the
next one then puts its frame over those of the functions that run (`"lost"`), after which
what they do is undefined and the model stops.

**`ScriptCoroutines`** is `CContextMgr`. A thread is its list of contexts, whose turn it
is and until when it sleeps; `Erased` takes away the one at the thread's current
index *after* the script has run, as the code does. A yield in a nested call, or in a
context that was aborted, passes the turn on although the script goes on or ends:
that is `early`, after which the manager promises nothing.

**`ScriptMap`** is `asCMap`, whose operators take a tree and return one; each mirrored
pair of cases is one definition with a `side`. Balancing recurs by functions over the
nodes, so that the module declares no recursive operator.

A definition whose name ends in `_something` next to one without (such as
`getOffset_swapped`) is a slip, a plausible error in the code: exchanged for the
right definition it makes TLC report the property `PROJECT.json` pairs it with,
which shows that the property depends on the code it is about.

## The runs

| run | shows | bounds |
|---|---|---|
| `breakpoints` | `TypeOK`, `UniqueIds`, `DeletesExactly`, `ImplementsSet` | 3 slots, 5 identifiers, 2 locations and 2 addresses: two more additions than slots, so that the table fills, is deleted from at the front, middle and end, refills and overruns |
| `plugin` | `TypeOK`, `NoDanglingDebugger`, `LocationLag`, `HostViewCurrent`, `StoppedStaysPut`, `StepCompletes` | 2 instances, a burst of 2 instructions, a cpu of 4 addresses with a branch and a tight loop, 1 event per call, 1 breakpoint slot |
| `loader` | `TypeOK`, `SectionsDisjoint`, `UniquePaths`, `LinkSound`, `LinkStable`, `LinkerAgreesWithFindSymbol`, `LineRoundTrip` | 6 file names, at most 3 registered, 2 memories |
| `musashi` | `StacksBalanced`, `NoPendingUnmasked`, `RteResumes`, `NoEscalation`; `ReturnAddressKept`, `RelocationsStayHome`, `BreakpointsInProgram`; `BlocksSound`; `MusashiTypes` | 3 cpu types, levels 3 and 7, stacks of 10 words, 3 status registers; a program below the stack, one that reaches it and none, 2 memories, 2 breakpoints; 2 chunks, blocks of 0, 2 and 3 bytes aligned to 1 and 4 |
| `script` | `GcRefCountsExact`, `GcKeepsLiveWhole`, `GcFullCycleCollects`, `GcFullCycleEnds`; `WeakRefsEnd`; `PopStateRestores`, `StacksApart`, `AbortForwarded`; `MapSorted`; `ScriptTypes` | 2 objects reused, 4 steps of the script; 2 threads with handles and weak references, 2 flags; 3 functions, 2 stack blocks, 4 call stack entries; 8 nodes of 7 keys |
| `script_turns` | `WriterAlone`, `WriterGetsIn`; `ContextsAccounted`, `EveryoneGetsATurn` | 2 writers and a reader, 2 slots; 3 contexts, 3 milliseconds |
| `reload`, `find_symbol`, `file_limit`, `breakpoint_reply`, `frames_apart`, `breakpoint_stops` | six places where the code does not do what a comment, a header or an assertion says (see `findings`) | as above; for `breakpoint_reply` and `breakpoint_stops` one instance and a burst of three; for `frames_apart` one stack block |

Why the bounds are enough. Instances interact through `g_debugger` alone, which
names one, so two show every way another can interfere; a burst of two has a
first and a last instruction, which is what a stop can come between. The events
of one call share only the breakpoint table, which the `breakpoints` run
exercises in full. The loader's files are chosen for their relations: two that
need each other, a second definition of the same names, a section with a `.rel`
companion, one with an unsupported relocation, one without a source name, one
missing; three registered at a time are enough for "the first file that is not
the one asking" to differ from "the first" and "the last", and for the limit to
be met. `Word`, `Half` and `Page` are 128, 16 and 4 in place of 2^32, 2^16 and
4096: addresses exceed `Half`, so that truncation happens, and the regions are
small enough for two files to overrun one.

`musashi`, `script` and `script_turns` check several parts in one run each. Their parts
share no state, so that one moves (`part`) while the others stay where they began, which
is as much as checking them one by one: nothing a part does can depend on another.
The parts with liveness properties that need strong fairness are in `script_turns`, whose state
space is small.

The cpu's stacks have room for two frames of four words or one of six: a frame on the
master stack with its throwaway frame, interrupted again, is the deepest any return
looks. A third interrupt level would act as the first does, between
the mask and 7. The program that reaches the stack and the one that does not differ only in
the size of their code; a second memory is the second instance. The collector's cases
are a cycle of two, an object referring to itself, an object raised by
its destructor, and one that only a weak reference holds; four steps of the script suffice to
make a cycle, drop it and interfere with its detection twice. A second thread is
what can come between the steps of the first one's `Release`; the proof is for any
number. Three functions are one that fits in the stack block, one that needs the next
and one that fits in none; four entries of the call stack are a nested call in a
nested call. Seven keys, one of them twice, make trees of depth four, whose removals
reach each of the balancing's cases. Two writers are what could share the slots out
between them.

The properties, beyond their comments:

* `LocationLag` is as strong as the code allows. A step writes the location in the
  call that records it and executes in the next, which writes nothing: the host
  shows the instruction *before* the one the target is at.
* `HostViewCurrent` has one exception for the same reason as `StoppedStaysPut`
  speaks of the current instance: a call for one instance executes for another.
* `SectionsDisjoint`, and what rests on it, are stated for as long as no cursor
  has left its region (`InBudget`). The code has a todo in place of the check.
* `LinkSound` and `LinkerAgreesWithFindSymbol` assume no two names hash alike
  (`NoCollision`); without that the code promises nothing.
* `LinkStable`: a second `m68k_elf_link` after more files were loaded writes the
  same words, because the files are searched in load order and the first wins.

* `ReturnAddressKept` speaks of programs whose code ends below the stack; the code
  pushes the address before it loads, and nothing checks. `RelocationsStayHome` and
  `BreakpointsInProgram` hold across instances although the loader keeps the addresses
  of the first one's memory, because it keeps the whole first program too: a
  breakpoint is at the offset the section has in its own memory.
* `RteResumes` compares pc, status register and all three stack pointers with what was
  interrupted. Handlers are assumed to return with the stack as they found it.
* `GcKeepsLiveWhole` exempts objects that were dead and were raised (by a destructor
  or a weak reference): the collector may have torn those apart, as the library warns.
  `GcRefCountsExact` exempts nothing.
* `GcFullCycleCollects` holds of cycles during which the script did nothing (`quiet`): garbage
  made meanwhile may stay for the next cycle.
* `WeakRefsEnd` excludes `Release`s that overlap: two threads may both see two references
  left, and the object then goes without a destructor called and with its flag unset.
* `StacksApart` is `FramesApart` until `origin` is lost, and the run `frames_apart` shows
  the rest: `Prepare` sets `m_initialFunction` before it looks for stack, and
  `m_originalStackPointer` only after. A destructor that finds none is followed by that of
  the base class, whose `Prepare` goes back to where the *outer* call's stack began and lays
  the new frame over it. Pointers into different blocks are compared as addresses there
  (`Fits`, `BlockAt`): whether an old pointer passes for one with room depends on where
  the blocks lie. The run `frames_apart` has a limit that allows no second block and shows the
  overlap within the first, whatever the layout. In the other runs such a comparison can only
  be made by the `Prepare` that loses the origin, after which they stop.
* `AbortForwarded` is about the last request since the last new nested call: a system
  function, or an array that goes on comparing, makes the context prepare again, which
  clears the request.
* `ContextsAccounted` and `EveryoneGetsATurn` stop at `early`.
  `EveryoneGetsATurn` excepts scripts that create co-routines for ever: a new one is put at the end of
  the list, and if the one before it ends, it runs next, so that the front of the list
  waits for as long as each creates another.

Fairness. In `plugin`, for `StepCompletes`: `WF_vars(Inside)`,
since a call of `update` runs on the caller's thread and nothing in it waits; and
`WF_vars(HostPolls)`, since the host calls its back ends once per frame, which
is outside this repository and the one assumption about it. It does not say
which instance is polled; none is needed, since any call executes the step.
In `script`, `WF(FullCycleStep)`: a full cycle is one loop on the caller's thread. In
`script_turns`, `WF(Proceed)`: a thread that has the lock lets go of it, and nothing it
does there waits; `SF(Waits)`: the semaphore, which is free again and again
while readers come and go, does not pass over one waiting thread for ever.
`WF(GoOn)` and `WF(Tick)`: the application calls `ExecuteScripts` again and
again, and time passes. `SF` of each context's `GivesUp`: a script that is run again and again
at some time yields or ends, and does not only sleep.
The runs allow deadlock because the programs may really stop: a crash, an
`exit(-1)`, an undefined step.

## What is proved

Eight modules, `M68KBreakpointsProofs`, `M68KPluginProofs`, `M68KElfLoaderProofs` (with the
allocator the loader takes its memory from), `M68KSessionProofs`, `M68KCpuProofs`,
`ScriptProofs` (lock, weak references and co-routines), `ScriptContextProofs` and
`ScriptGCProofs`, prove, for every value of
the constants allowed by the `ASSUME`s (which TLC evaluates in the passing runs), the
theorems listed in `PROJECT.json`.

What the assumptions ask, and why the code is only right under them. Of the loader
(`ImageAssumption`, `SizeAssumption`): an object file is what ELF promises
(`WellFormedFile`): relocations and line entries inside their section, symbols in
sections that exist and have contents or room, one global definition per name and
file; the loader checks none of it, and a file that breaks it makes the code read
outside its arrays. `Half` divides `Word`, as 2^16 does 2^32, and
the 68k's memory is no larger than a word can address. Of a session: the memories of
two instances are two blocks (two `malloc`s, the first not freed), the stack is in the
code region, and the mark for "no line found" is no address. Of the cpu: addresses
of the stacks in order, level 0 among the levels, vectors that are addresses. Of the co-routines:
contexts are not the null context. Of the contexts: the stack a function
needs covers its variables, as the compiler computes it, the null function is none, and
stack blocks do not overlap.
Of the collector: finitely many objects, the null handle not among them, and a program
that asks for detection, destruction or both, which is what `GarbageCollect` makes of
any flags.

* **Breakpoints.** The invariant is the conjunction of the type invariant and
  `UniqueIds`; each is needed for the other: that the last slot holds a breakpoint
  makes the moved slot typed, that identifiers are unique makes the deleted
  breakpoint the only one that goes. `TableImplementsSet` is a step simulation
  under that invariant: an addition adds one element and a cardinality lemma shows
  the set has room exactly when the array has; a deletion removes the named one,
  which the abstract set's next-state relation does not tie to the caller's request
  and `TableDeletesExactly` therefore states on its own.
* **Plugin.** `NoDanglingDebugger` is inductive once it is known that blocks that
  are freed are forgotten. `LocationLag` needs two more facts: while an update has
  instructions left (`PendingWork`), the global instance is in the state those
  instructions are for, and traces with exactly one; and an instance that was
  freed has no location left (`FreedForgotten`), so that a block used again starts
  without one. `HostKnowsState` strengthens `HostViewCurrent` to all times: for every
  instance but the one whose update is under way, what the host shows agrees with
  the debugger (`Viewed`). `StoppedStaysPut` is an action property that follows from the same
  invariant.
* **Loader.** `SectionsDisjoint` compares sections of three regions whose cursors
  only grow. The invariant is that every section of the current memory ends at or
  before its region's cursor and starts at or after its region's beginning
  (`Placed`), and that two of one region are apart (`Apart`); budget then
  separates the regions. Budget itself need not hold while the invariant is
  carried. `UniquePaths` needs `LoadingFresh`: through the several steps of a load
  the path it will register stays free.
* **Linker.** `Located` says which sections are placed for which file, also in the middle
  of a load: then every address the linker computes is one (`LoaderTyped`). Files and
  sections only grow, which changes no address once resolved (`ResolveGrows`: the first
  match in load order stays the first); that is the whole of `LinkIsStable` once it is known
  what each word is. `Linked` says so: the word at an address is what the last of the
  relocations of that address writes. Relocations of one address are of one section
  (`SharedPlace`, from `SectionsDisjoint`), so that one of them is the last. `LinkIsSound`
  reads off `Linked` that the word is a definition's address. `LinkerAgrees`: among the files
  that export a name the one that asks is not, if its own symbol is undefined, because
  no file has two globals of a name; so the first file but itself is the first file.
  `LinesRoundTrip` combines a line entry's section with `SectionsDisjoint`: no other section
  covers its address, though `findSectionForPC` knows of the last file only what it
  covers. All of it is one invariant, `LoaderInvariant`.
* **Session.** A session's steps are the loader's or leave it alone (`SessionStep`), so the
  loader's invariants hold in it. `RelocationsAreHome` is then `Home`: a link writes where the
  sections were placed. `ReturnAddressSurvives` (`ReturnInv`) needs that earlier
  programs stayed in their memory (`StayedInside`): a link writes their sections again, and one that ran
  over its memory's end could reach this one's stack. `BreakpointsStayInPrograms` follows the
  table through `m68k_add_breakpoint` (`BreakpointInv`): an address that was a section's
  stays one, since sections are never taken away.

* **Cpu.** `RequestsAreTaken`: the invariant is the property with the type of what it
  reads (`IsCpu`, `Settled`). Pushing frames, changing modes and fetching keep the mask, the
  request and the stop levels (`Kept`, a preorder), so that each exception reduces to a
  chain of steps that keep them, and each of the three places that look at the
  request (`InterruptSettles`, `CheckSettles`, `SetSrSettles`) settles it.
  `UserModeStays` adds that the recorded frames are a sequence (`Recorded`): an
  instruction that records no exception then leaves user mode as it is.
  `StacksStayBalanced` and `RteResumesContext` rest on `SInv`, which describes the stacks: the
  frames of the exceptions under way lie one below the other, each complete, word for word,
  between the stack pointers it was pushed from and those of the next exception, on
  whichever of the three stacks that was. Pushing one more leaves those above as they are, since
  it writes below them; `rte` reads what the last one wrote. A throwaway frame is two frames
  on two stacks, and `rte` goes over both.
* **Allocator.** `AllocatorSound`: all blocks are below the pointer, which is below no
  point to go back to; then what goes back forgets exactly the blocks above.
  `AdjustAligns` is the arithmetic of the padding.
* **Lock.** `WriterIsAlone`: no slot is taken twice (`SlotsApart`), a reader has one and
  a writer all (`HaveSlots`). Hence the lock's exclusion does not need the critical section,
  which is there for the deadlock of two writers.
* **Weak references.** `ObjectEndsInOrder`: the count is the number of handles and of
  `Release`s that have not decremented (`Counted`), and until Releases overlap the one
  under way with a count of one is alone, so that no flag can be created or followed between its
  test and the end (`InOrder`).
* **Contexts.** `FramesStayApart` and `OuterCallRestored` rest on `ContextInv`. `Chain` says
  of each frame of the call stack that it had the room its function needs below its
  variables and was, its callee's arguments included, below all earlier ones: pushing
  arguments cannot reach the reserve, and `ReserveStackSpace` goes down, or on to a larger
  block. `LaidOn` says that the call stack, below the frames of the last
  nested call, is what `PushState` found, with its frame and its marker; `Saved` says it of each
  call put aside, so that popping down to the marker gives the outer call back, and the one
  outside it is as well off as before. `Based` says that the stack of the function prepared
  last began with room for it in the block that was then current, below everyone else's:
  `Prepare`, `Unprepare` and `PopState` go back there. It is `Based` a `Prepare` without
  stack breaks, which is how the counterexample of `frames_apart` was met: the property as
  first stated had no inductive invariant. The recursive
  function `Size` is shown to exist and be a number of each block
  from the well-foundedness of the naturals (`SizesAre`).
  `AbortReachesApplication` adds `AbortInv`, which says who knows of an abort that was asked
  for, by who is at work (`Forwards`): a destructor under way that has been told
  (`doAbort` of `CallDestructor`); else, in a system function, the three flags `Abort` sets,
  which stop the context at its next check; in an `Execute`, a status that is neither active
  nor finished; in another nested call, the status and result `aborted`. It needs
  `ContextInv` for who calls whom, and that a context with a line callback looks at its
  requests whenever it enters a function (`Attends`).
* **Co-routines.** `NoContextLost`: what the end of a co-routine takes from its thread's list
  and what it puts back into the pool are the same context only if the one that executes is
  the thread's current one, so `ListsExact` says that together with: the lists and the pool have every context
  once (`Apart`, `Complete`). It holds until `early`; that there is a
  current co-routine to take (`CurrentPlaces`) holds even then.
* **Collector.** `GcCountsExact` and `GcLiveWhole` are two halves of one invariant, `GcInv`. `Fit`
  is about the heap and the lists: an object is listed once or is gone, and its count is the
  handles of the script, the objects that refer to it, its entry and the map's reference
  (`Exact`). Each operation of `asCScriptObject` that moves a reference has a lemma that says
  so; a release by the collector is the one after which the object is gone or has risen, and the
  object it referred to has one referrer less. `Inside` says what the detection knows. What an
  object's count was when the map was built says nothing later, unless its flag is still set: then
  nobody has taken or let go of a reference to it since, and its handles and referrers are
  those of then (`Steady`, which every operation keeps). So what is known is known of flagged
  objects: while references are counted, the map's number covers the handles and the referrers
  not yet passed; after that, an object with number 0 has no handle and is referred to from
  the map only; what is not live in the end is referred to by what is not live only. If a flag
  has gone, `verifyUnmarked` sees it and the cycle starts again; if not, what is left is
  reachable from nothing (`Found`), and breaking its circles, one object
  after the other, tears nothing that the script has.

  `GcCollectsAll` is the other direction, that what the script cannot reach is found. Not every
  detection finds it: what the script does in between makes the next ones find it. So
  `CycleInv` is about a full cycle the script stays out of, on top of `GcInv`. Call an object
  sure if a handle, or an object that nothing refers to, leads to it (`Sure`). Until the
  detection ends every flag stays set, every object that is not sure is in the map, and the map's
  numbers count no referrer that is not there (`Thorough`): what ends up live is then
  sure, and what is left in the map is broken up. `WholeCycle` adds the rounds: when a round
  has destroyed nothing, no object is without a referrer or a handle, because the sweep would have
  freed it, so that what is sure is what handles lead to; after any other round the number
  of objects is not what it was and the cycle goes on. TLC checked `CycleInv`, before the proof,
  with two and three objects.

Only model-checked: `MapSorted`, an induction over trees. `MusashiTypes` and `ScriptTypes`,
each the type invariants of several parts: those of the loader, the allocator and the
collector have theorems of their own, as have those of the breakpoints, the plugin and the lock;
those of the cpu, the contexts and the weak references have none, because they also say
that bounds of the models (`MaxFlags`, `MaxCalls`) and of the saved stack pointers are kept,
which no proof needs: their inductive invariants carry the types alone. That of the map would be an
induction as well. `StepCompletes`, `GcFullCycleEnds`, `WriterGetsIn` and
`EveryoneGetsATurn` are about what comes in the end, beyond the prover.

## What is not modelled, and why

* Contents of messages (register values, disassembly text, memory bytes), ELF byte
  swapping and header parsing, the log level, `m68k_read_*`, `m68k_write_*` and
  `m68k_disasm_pc`: data and layout, about which no property of the repository speaks.
* The instructions of the 68000 that compute, their flags and cycles: the manual of the
  processor is their specification, and it is not here. Trace and address errors are
  compiled out.
* AngelScript's compiler, builder, parser, bytecode optimiser, saved bytecode and engine:
  the greater part of the repository's lines. They run in one thread, from beginning to end, and
  what makes them right is the meaning of a language; a model would be a second
  compiler. The same holds of Musashi's disassembler and generator. That is why the
  definitions here stand for a small share of the lines.
* Native calling conventions (assembly), containers and the other add-ons: values and text.
* The debugger addon itself (`asdbg_engine.cpp`): a skeleton whose handlers are empty.
* Behaviour after an assertion of AngelScript's would fail, or after undefined
  behaviour: the models stop there. A comparison that is suspended inside a further call
  ends so, and so does a turn given to the null context a yield in a nested call
  left behind.
* Time and identifiers that wrap after 2^32 steps.

## Plan

1. Done: breakpoints, plugin, loader, their composition, the allocator and the cpu's control;
   AngelScript's collector, weak references, lock, context, co-routines and map.
2. Done: theorems about the linker, the session, the cpu's stacks, the contexts, the co-routines
   and the collector, the last including that a full cycle leaves no garbage.
3. A collection between co-routines' turns, composing `ScriptCoroutines` and `ScriptGC`.
