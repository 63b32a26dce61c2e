# The kernel of duvuvurkarpogeschel in TLA+

duvuvurkarpogeschel is a small operating system for x86-64 PCs: a UEFI loader, a
kernel in C++ with preemptive tasks, virtual memory, a FAT volume in memory, USB 3
keyboards and mice, overlapping windows and terminals, and applications that call
the kernel.  This directory keeps a formal model of the parts of the kernel whose
correctness depends on the order in which things happen or on bookkeeping that
several functions share.  TLC checks the model on small instances and TLAPS proves
what matters most for every instance.

Paths are relative to `src/kernel/` unless they start with `src/`.

Sections: 1 inventory, 2 modules, 3 runs, 4 proofs, 5 what was seen while modelling,
6 what is not modelled and what could come next.

## 1. Inventory

### 1.1 How the system runs

There is one processor.  The kernel's `main` (task 1) runs at level 3, terminals and
the applications they start run at level 1, and an idle task that only halts runs at
level 0.  Tasks are preempted by the local APIC timer every second tick (20 ms); any
code that must not be interrupted is bracketed with `cli` and `sti`.  Tasks and
interrupt handlers talk through one mailbox per task (`Task::SendMessage`).
Applications run in ring 3 on the same task as the terminal that started them; a
system call goes on with interrupts enabled.

| component | state | operations | talks to |
|---|---|---|---|
| task manager (`task.cpp`, `asmfunc.asm`) | tasks, a run queue per level, saved contexts, mailboxes, exit codes and waiters | `NewTask`, `Sleep`, `Wakeup`, `SendMessage`, `ReceiveMessage`, `Finish`, `WaitFinish`, `SwitchTask` | everybody |
| timers (`timer.cpp`) | tick count, priority queue of timers | `AddTimer`, `Tick` | task manager (interrupt) |
| main loop (`main.cpp`) | its mailbox | dispatch of messages | task manager, USB, layers |
| terminals (`terminal.cpp`) | line buffer, history, cursor, descriptors | `TaskTerminal`, `ExecuteLine`, `ExecuteFile`, `LoadApp`, pipes | task manager, layers, FAT, paging |
| system calls (`syscall.cpp`) | files of the task, demand-paging and file-map limits | fifteen calls | all of the above |
| frame allocator (`memory_manager.cpp`) | bitmap of frames, range | `Allocate`, `Free`, `Stat` | paging, heap |
| paging (`paging.cpp`) | four-level page tables per application | set up, copy, clean, page fault | frame allocator, FAT |
| layers (`layer.cpp`) | layers, their stack, the active layer, the owner of each layer | new, remove, move, up/down, activate | task manager, windows |
| mouse, keyboard (`mouse.cpp`, `keyboard.cpp`) | position, buttons, drag | `OnInterrupt` | layers, task manager |
| text boxes (`cursored_textbox.cpp`, `textwindow.cpp`, `lang/`) | text, cursor, blink timer | keys | timers |
| FAT (`fat.cpp`) | volume image, allocation table, directories | find, create, extend, read, write | terminals, system calls |
| xHCI driver (`usb/xhci/`) | configuration phase of each port, rings with cycle bits, device slots | `OnEvent` for three kinds of event | main loop |
| USB devices (`usb/device.cpp`, `usb/classdriver/`) | initialisation phase, waiting control transfers, endpoints | `OnControlCompleted`, `OnInterruptCompleted` | xHCI driver |
| USB memory (`usb/memory.cpp`) | bump pointer | `AllocMem` | xHCI driver |
| boot, drawing, PCI, ACPI, consoles, fonts, dictionaries, loader, applications | | pure output, tables or set-up code | |

### 1.2 What is hard

* Interrupts: the timer and the USB controller call `SendMessage` and `SwitchTask`
  between any two instructions at which interrupts are enabled.
* Preemption: terminals share the layers, the heap, the FAT image, the frame bitmap
  and the task manager's own vectors.  Which of them are guarded is decided call by
  call.
* Lifetime: tasks, terminals, windows, layers, pipes and timers refer to one another
  by id or by reference, and end in any order.
* Asynchrony: the xHCI driver and the USB devices are state machines that advance one
  event at a time, for several ports at once, and share one "addressing" slot.
* Bookkeeping: page tables that applications share copy-on-write, a frame bitmap,
  ring buffers with a cycle bit, a file allocation table.

### 1.3 What makes each component correct

| component | properties |
|---|---|
| task manager | a task is in one queue, that of its level, exactly when it is awake; the current task is one of the highest level; every context comes back where it was saved; equals take turns |
| kernel tasks | nobody sleeps on a message; the main task runs undisturbed to its next sleep; who may run does; who waits for a child returns |
| timers | the task timer is never lost nor doubled; a cursor has one timer, on its beat |
| frame allocator | a frame has two owners only by a search that was overtaken; what is handed out is memory; the search finds room when there is some |
| paging | an application sees a memory of its own although pages are shared; no frame is freed while mapped or lost |
| layers, windows | the stack, the active layer and the owners agree; nobody uses a layer that is gone; the window that gets the keys knows it; a close button closes |
| terminals | the letters seen in the row are the line that runs, but for one the history may leave; a pipe is a stream |
| text boxes | what is shown is what was entered; the candidate taken is one shown |
| FAT | chains are disjoint and end; a file is its bytes |
| xHCI | one port at a time is being addressed; every device comes to be configured; rings are queues |

## 2. Modules and how they correspond to the code

| module | models | checked by | proofs |
|---|---|---|---|
| `Scheduler` | what the task manager promises: a priority scheduler | refined by `TaskManager` | |
| `TaskManager` | every method of `TaskManager` and `Task` (`task.cpp`), `SwitchContext`/`RestoreContext` of `asmfunc.asm`, the timer and USB interrupt handlers as its callers | `MCTaskManager` | `KernelProof` |
| `Kernel` | the message loops of the main task and of terminals, `WaitFinish`, creation of tasks, interrupts; extends `TaskManager`, whose methods are what its actions do to `tm` | `MCKernel` | `KernelProof` |
| `Timers` | `timer.cpp`, `CreateTimer`, and the cursors of text boxes and terminals, which set their own next timer | `MCTimers` | `TimersProof` |
| `Windows` | `LayerManager` and `ActiveLayer` (`layer.cpp`), `Mouse` (`mouse.cpp`), keys of the main loop, and the tasks that own windows: terminals, applications, children of pipes | `MCWindows` | `WindowsProof` |
| `Stream` | what a pipe promises: the bytes written, in order, and then the end | refined by `Pipe` | |
| `Pipe` | `PipeDescriptor` and both sides of a command line with a pipe (`terminal.cpp`) | `MCPipe` | `PipeProof` |
| `LineEditor` | the line of a terminal: `InputKey`, `Print`, `HistoryUpDown` (`terminal.cpp`) | through `Keyboard` | `KeyboardProof` |
| `TextBox` | the three text boxes (`textwindow.cpp`, `lang/textwindowbhat.cpp`, `lang/textwindowpekzep.cpp`) | through `Keyboard` | `KeyboardProof` |
| `Keyboard` | which of them a key goes to (`main.cpp`); composes `LineEditor` and `TextBox` | `MCKeyboard` | `KeyboardProof` |
| `FrameAllocator` | `BitmapMemoryManager` and `InitializeMemoryManager` (`memory_manager.cpp`) | `MCFrameAllocator` | `AllocatorsProof` |
| `AppMemory` | what paging promises an application: a memory of its own | refined by `Paging` | |
| `Paging` | `paging.cpp`, the loader of `terminal.cpp`, `DemandPages`, `MapFile` and buffers of system calls | `MCPaging` | `PagingProof` |
| `XHCI` | `OnEvent` of `usb/xhci/xhci.cpp` with ports, slots, the initialisation of a device and the start of its class driver | `MCXHCI` | `XHCIProof` |
| `CommandQueue` | what the rings promise: commands are answered once and in order | refined by `Ring` | |
| `Ring` | `usb/xhci/ring.cpp` and `ProcessEvents`, access by access, with the controller at the other end | `MCRing` | `XHCIProof` |
| `Files` | what the file system promises: files are sequences of bytes | refined by `FAT` | |
| `FAT` | the allocation table, directory entries and descriptors of `fat.cpp` | `MCFAT` | `AllocatorsProof` |

**TaskManager.**  All members of `TaskManager` and of its `Task`s are fields of one
record `tm`; each method is an operator from record to record under the method's own
name, so that the methods compose as in the code (`SendMessage` calls `Wakeup`, which
calls `ChangeLevelRunning`).  Every method runs with interrupts off, hence one action
each.  `tm.cpu` says whose context is in the processor; `SwitchContext` saves and
restores contexts as the assembly does, so that a context saved into the wrong task is
visible.  `Next` is any use of the public interface; `Kernel` is the use that the
kernel makes of it, and `UsesTaskManager` shows it to be one of those.

**Kernel.**  `pc` says where a task is: at the top of its message loop, handling a
message, having made a child, in `WaitFinish`.  What lies between a `cli` and the next
`sti` is one action.  `NewTask` and `Wakeup` of a new terminal are two actions, but each is whole: the
code runs them with interrupts on (`main.cpp:240`, `terminal.cpp:485`, `:637`), and the
races inside them are listed as hazards.

**Timers.**  `timers_` is a bag, since a priority queue may hold a timer twice and gives
the order of equals to nobody; `Top` is `operator<`.  The interrupt is a loop of actions
(`Tick`, `TaskTimer`, `Expire`, `TickEnd`) during which no task runs.  `AddTimer` is one
action where it is called under `cli`, and a begin and an end in `TaskTerminal`, which
calls it with interrupts on (`terminal.cpp:875`): what changes the queue in
between is remembered in `hit`, and a push that was hit leaves a broken heap (`torn`),
where the model stops.  `start` is history: the clock when a cursor began.

**Windows.**  `layers_`, `layer_stack_`, `latest_id_`, `active_layer_`, `drag_layer_id_`,
`layer_task_map` keep their names; `Hide`, `UpDown`, `GetHeight`, `Activate` are functions on
the stack, with the code's two-step raise to the bottom and back.  Where a window is does
not matter, so a click may hit any layer but the pointer's.  What a task does between a
`cli` and the next `sti` is one action; a pointer to a layer that outlives it is `held`.
`OpenUntold` is the order of `OpenWindow`: it activates before the layer is in
`layer_task_map`.  `wild` says that the main task followed the null pointer of a layer
that is gone; the model stops there.

**Pipe.**  The pipe *is* the mailbox of the reading task, so other messages travel in it
too and `Receive` drops them, as the loop of `Read` does.  `SendPiece` is one turn of the loop
of `Write`.  `written`, `got`, `ended`, `quit` are history and the state of `Stream`.

**LineEditor, TextBox, Keyboard.**  Keys and output are functions from a terminal (or a
box) to the next; `Keyboard` applies one at a time.  A cell shows a letter, a prompt or one of
three kinds of output; a letter is a number whose low bits `linebuf_` keeps.
`mixed` counts what a child with the same descriptors printed into the line.  The
dictionary of the Pekzep box is a constant.

**FrameAllocator.**  The search of `Allocate` advances one frame per action, since
nothing keeps another task from running in between; marking the frames found is one
action, and so is freeing a region, although an interrupt may come between two of their
bits, or between the reading and the writing of a word of the bitmap (`SetBit`).
`owned` is who was given what; `overtaken` collects for each search the frames that others
took after it had looked at them, `raced` those of them that it took all the same, and
`freed` the frames that others freed where a search had already been.  The bitmap is a
function from frames to BOOLEAN.  The loop of `InitializeMemoryManager` is the action `Describe`, one turn for each descriptor of the
firmware's map, and what follows it `SetMemoryRange`; calls begin when it has returned.

**Paging.**  A page map is the set of its present entries; an entry is named by its
level and index, and carries the frame and the writable bit.  `Span[level]` is the number of
pages below an entry of a level, as the fields of `LinearAddress4Level` have it.  `SetupPageMaps`,
`CopyPageMaps`, `CleanPageMaps` and their helpers are functions on a record of frames
and page maps that carries success or failure through every step, as `Error` does; the
loops over pages and levels are recursive functions, a page after the other and from the root down,
which is the order in which the code takes frames.
`pc` follows `ExecuteFile`; every error return of it and of `LoadApp` is there, `LoadInvalid` being those for a
file that is no ELF file or has a format that `LoadELF` refuses.  What a frame holds is one of a few values ("zero", "image",
"args", "file", "new"), enough to see a wrong, stale or shared page.  The translation
cache, the kernel's half and the race inside `Allocate` are left out.

**XHCI.**  `port_config_phase`, `addressing_port` and `devices_` keep their names.  One
action handles one event, as `ProcessEvent` does.  The controller executes commands in order and
answers transfers in any order; a device that is gone answers with a failure, and the
port status change event comes when no other change of that port is pending, as the
controller behaves that the code was written for.  Slots, which differ only in their
numbers, are enabled in order.  A device has one interrupt endpoint.

**Ring.**  The driver and the controller share the entries and no lock, so every write of
`CopyToLast` (`data[0..2]` before `data[3]`), the link entry, the doorbell and the dequeue
pointer are actions of their own; `pc` says how far `ProcessEvents` is.  The controller
follows links, stops at an entry whose cycle bit is not the expected one until the
doorbell rings, and reports commands and ports in the event ring.  `XHCI` uses the rings
as the queue that `CommandQueue` describes.

**FAT.**  The volume is `fat` (the table), `data` (what the clusters hold as parts of
files) and `dir` (what they hold as parts of the directory).  A call is one action, and its
loop a recursive function with one operator for a round (`ReadOn`, `WriteOn`).  A
descriptor keeps the fields of `fat::FileDescriptor`, and a number outside the volume
may be read from, as in the code, where it gives `Garbage`.  `Contents`
follows the chain of each entry; with it `FAT` implements `Files`.  `Crossing` allows
writes that go on from one cluster into another.  A write is taken when the
volume has room for what it may take (`Room`).

## 3. Runs, bounds and what they show

| run | bounds | shows |
|---|---|---|
| `task_manager` | 4 tasks, 3 levels, 1 message to a mailbox, any level passed to `Wakeup` | `RunQueues`, `TopLevel`, `Contexts`, `PreemptedByPeer`, `GoneForGood`, and the refinement of `Scheduler` (`ImplementsScheduler`) |
| `kernel` | 4 tasks, 4 levels, 2 messages to a mailbox | `NoLostWakeup`, `MainRunsToSleep`, `UsesTaskManager`, `MainServed`, `EveryoneRuns`, `WaitReturns` |
| `timers` | main task with a text box, 2 terminals, 5 ticks, the task timer every 2, cursors every 3, one `CreateTimer` of 15 ms (a tick and a half), relative or not | `PreemptsOnTime`, `OneBlink` |
| `windows` | 2 terminals, one of which runs commands, one child of a pipe, one window of the main task, 3 windows besides, the user acts while no mailbox holds a message | `StackSound`, `HeldExist`, `FocusKnown`, `CloseCloses` |
| `pipe` | 2 bytes, pieces of 2, reads of 1 or 3, 4 bytes written in any cuts, one other message | `OnlyQuittersMissed` and the refinement of `Stream` (`ImplementsStream`), with its liveness |
| `keyboard` | a window of 2 rows and 4 columns, a buffer of 6, a history of 2, letters of 3 bits in chars of 2, output of one, two and no cells; boxes of 4 letters; a dictionary of 3 words | `LineSound`, `BoxesSound` |
| `frame_allocator` | 6 frames, requests of up to 3, every memory map of up to 3 descriptors, two callers, two regions held or asked for | `SoundUnlessRaced`, `OwnedAvailable`, `NothingLost`, `FailsOnlyWhenFull`, `FirstFit` |
| `paging` | 2 tasks, one application, 14 frames (not enough for two runs and an image at once), 2 levels of 2 entries (4 pages) | `FramesAccounted`, `SharedReadOnly`, `LostByMishap`, `ImagesIntact`, refinement of `AppMemory` (`ImplementsAppMemory`) |
| `paging_deep` | 1 task, 3 levels of 2 entries (8 pages), 18 frames, demand paging, mapped files, one failed load | refinement of `AppMemory` |
| `xhci` | 3 ports, 3 slots, devices plugged in at any time, one pulled out, one without a driver | `AddressingPort`, `InStep`, `ServedUnlessPulled` |
| `ring` | 4 entries for commands, 3 for events, 2 commands under way | refinement of `CommandQueue` (`AnsweredInOrder`), `KeepsAnswering` |
| `fat` | 2 names, 2 descriptors, 5 clusters of 2 bytes, reads and writes of up to 2, files of up to 3 | `ChainsSound`, refinement of `Files` (`ImplementsFiles`) |

Why the bounds are enough.  *Tasks*: with four there are the main and idle tasks and two
of equal level, which gives queues of length two, a waiter and the one waited for, a child
of a child, and a task deleted while others name it.  *Levels*: three
give a level above, at and below the current one.  *Mailboxes*: what matters is whether
one is empty; a second message changes nothing that the properties tell apart.
*Clock*: five ticks hold two rounds of the task timer and the start, a beat and the
next timer of a cursor, at every distance from each other; times-out in the past come from
`CreateTimer` with an absolute time.
*Windows*: three windows besides the fixed ones are the two of the terminals and one of an
application, or two of one application; with them a window is above, below and between
others when it is raised, dragged or closed, by its owner or by a click.
The invariants behind `HeldExist` and `StackSound` hold for any number (section 4).
*Pipe*: pieces shorter than, as long as and longer than what is written, and reads shorter
and longer than a piece.  *Keyboard*: four columns are the prompt, room for two letters and the
last column; the state is finite, so input of any length is covered.
*Frames*: six with areas of up to three give holes that are too short and just long
enough, at both ends of the range; two regions, each held or asked for, suffice for two searches over
the same frames, each between the other's steps, and for a search behind which a frame is taken or
freed.  The theorems hold for any number of callers and regions (section 4).  *Page maps*: two entries to a table are the fewest
with a shared and an unshared one; three levels give an inner table that is neither root
nor leaf.  *Ports*: with three, two wait for the third; a device pulled out once meets every phase
and can be plugged in again.
*Rings*: with four entries a lap has three commands and two of them may be under way, so
that every alignment of the link, the doorbell and both pointers is met within a few
laps.  With one more under way (`MaxUnderWay = buf_size_ - 1`) the ring jams: the driver
rewrites the link before the controller has followed it.  The code's rings have 32 entries,
at most one command for each of 8 slots and four entries of one control transfer.
*Files*: with two bytes to a cluster a place is at its start, in its middle or at its end;
three bytes take two clusters of which the last is not full; one entry to a cluster makes
the directory grow with the second file, between the clusters of the files.  Names, descriptors and
bytes are interchangeable (`SYMMETRY`): the code only compares names and copies bytes,
and both properties are safety properties.  So are the tasks of `paging` and of
`frame_allocator` and the terminals of `timers`.

Deadlock is checked in the runs of the task manager, the kernel, the frame allocator and
the file system.  The others may stop, because a bound is used up or nothing is left to
do: the clock has reached its last tick, all windows have been made and closed, the command line
has ended, no further mishap or device is allowed, the space has read a candidate that is
not there.

### Fairness

* `Kernel`: the interrupt of the task timer comes again and again (weak fairness): it is
  periodic hardware.  What a task does at the top of its loop, when it starts a child and in
  `WaitFinish` is strongly fair, because a task that is preempted again and again still goes on each
  time it is current; the main task also finishes what it is doing.  Nothing is assumed
  of terminals that handle a message or run a command: they may go on for ever.
  `EveryoneRuns` and `WaitReturns` assume in their statements that the main task goes
  back to sleep again and again: it is alone at the highest level, and a main
  task that never sleeps starves everybody else.
* `Windows`: a task that can go on by itself does (weak fairness of `TaskStep` of each
  task), which is what `EveryoneRuns` says of the scheduler.  Nothing is assumed of the user
  or of applications; a command may run for ever, so `CloseCloses` is about terminals
  at their prompt.
* `Pipe`: a reader that has called `Read` goes on, and the loop of `Write` ends (weak
  fairness).  A writer may compute for ever before it writes or ends.  A reader may quit at any
  time, but one that has not goes on calling `Read`.  `Stream` then says that what is
  written reaches a reader that has not quit.
* `XHCI`: the start-up loop and the handling of events go on, since the main task
  handles all events that it finds (`ProcessEvents`); the controller executes commands and
  devices answer control transfers.  No fairness is assumed of plugging, pulling out or of
  reports of a keyboard.
* `Ring`: `ProcessEvents` goes on (weak fairness), and so does the controller; carrying out
  commands is strongly fair, since reports of ports do not take every free entry of the
  event ring for ever.

## 4. What is proved

TLAPS checks the following for every value of the constants.

* `KernelProof`, in its first half about `TaskManager`, from `BoundsAssumption` and `LevelAssumption`: `TypeCorrect`,
  `RunQueuesCorrect`, `TopLevelCorrect`, `ContextsCorrect`.  The inductive invariant
  `IInv` joins them: queues and flags agree, some queue is never empty because the idle
  task is always ready, and ids not yet used are in no queue.  None of the four is
  inductive alone: a rotation needs the current queue to be non-empty, a context switch needs the
  current task to be the one whose context is loaded, a deletion needs each task to be
  queued once.  What appending, taking the front and erasing do to the set of tasks in a queue
  is shown first, for any sequence.
  `Refinement` then shows that `Scheduler` is implemented: the task of the first place of
  the highest queue is a best one (`CurrentIsBest`), and each method is followed by what it
  does to the ready tasks, their levels and who runs (`RotateEffect`, `WakeupEffect`,
  `SleepEffect`, ... `FinishEffect`), so that every step is one of `Scheduler` or a stutter
  (`StepMaps`).  `PreemptedByPeerCorrect` and `GoneForGoodCorrect` follow from the same effects.
* `KernelProof` goes on, from these and `KernelAssumption`: `NoLostWakeupCorrect`,
  `UsesTaskManagerCorrect`, `MainRunsToSleepCorrect` and `KernelScheduled`.  Frame lemmas say
  what each method leaves alone.  The invariant `KernelInv` adds to the task manager's own that a
  child has one parent and is not lost before that one is done with it (`Families`), that who is in
  `WaitFinish` is entered for its child until the child has ended (`Waits`), that a
  task that was never started sleeps (`Started`), and that the main task is alone at the
  highest level (`MainAlone`).  Without these `NoLostWakeup` is not inductive: `WaitFinish` sleeps
  and wakes too, and only who it wakes tells a lost wakeup from a wait.  `StepUses` shows each step of the kernel to be
  one of `TaskManager`'s `Next`, so the theorems of the first half hold of the kernel.
* `TimersProof`, from `TimerAssumption`: `TypeCorrect` and `PreemptsOnTimeCorrect`.  The
  invariant says that the only timer with the task timer's value is the one
  `PreemptsOnTime` finds: whatever else is queued, taken or pushed has another
  value, which needs that applications' values are negated (`syscall.cpp`) and that the
  cursors' are not the task timer's.
* `TimersProof` goes on, from the same, to `OneBlinkCorrect`.  The invariant `BInv` says where
  the one timer of a cursor is: in the queue, in the mailbox of its owner as a message,
  or in the hand of the owner that is about to add the next one, and in one of them
  only (`OneTimer`), on the cursor's beat, counted from `start`; that a task has only its own
  timers in hand (`OwnHands`); and that a terminal that has run no application has no
  timers but those of its cursor, and none before it starts (`QuietOnes`).  That the next timer is on the beat again is arithmetic
  about quotients and remainders (`NextMultiple`, `NextBeat`).
* `WindowsProof`, from `WindowsAssumption`: `HeldExistCorrect` and `AskedOwnedCorrect`.
  The invariant says who owns a layer: a terminal its own window, and a task every
  other layer that `layer_task_map` gives to it.  A layer has one owner (`OneOwner`), what
  a task holds or its application knows it owns, and who is asked to close a layer by a
  click owns it.  Ids that have been given out are not above `latest_id_`, so a new
  layer is nobody's yet.  A pipe changes the map but not the owner, because its reader
  is a child, which has no window and never looks at `kWindowClose`.
* `WindowsProof` goes on, from the same, to `StackSoundCorrect`.  `UpDown` to the bottom and `UpDown` to
  below the pointer put a layer right below the pointer and leave the order of the others
  (`Raised`); a layer taken out leaves a stack that still begins with the desktop and ends
  with the pointer (`HiddenStacked`).  That no step takes out those two needs the owners
  above: what a task closes is its own or its application's, and neither is
  a layer made at boot.  That each window keeps an entry in `layer_task_map` needs `Alive`:
  `WaitFinish` writes the entry of its terminal's window, which must not have been
  closed while the pipe ran; an application cannot close it, because the window is not
  among those it has opened (`Apart`).
* `WindowsProof` ends with `FocusKnownCorrect`, from the same.  The invariant `FInv` says of a terminal
  that has run no command that the last message in its mailbox about the activity
  of a window says whether its own is the active one, and when there is none, that its own
  record does (`Foretold`).  Every change of the active layer goes through `Activate`, which sends
  the messages (`ActivateForetells`, `ActivateNew`); they reach the terminal because
  the only layer that `layer_task_map` gives to it is its window, and no pipe and no
  other task's `CloseLayer` takes that entry away (`Fresh`, with the owners above).
* `PipeProof`, from `PipeAssumption`: `TypeCorrect`, `OnlyQuittersMissedCorrect` and
  `StreamSafety`, the safety part of the refinement: an initial state of `Pipe` is one of
  `Stream` and each step is a step or a stutter of it.  The invariant follows the bytes:
  what was read, what the reader has left of a piece, what is in the mailbox and what the
  writer still has to send make up what was written, and the end is the last thing sent.
* `AllocatorsProof`, from `FrameAssumption` and `MapAssumption` (the descriptors of the
  firmware's map ascend, do not overlap and lie inside what the bitmap covers), for any number of
  callers whose searches interleave: `TypeCorrect`, `OwnedAvailableCorrect`, `NothingLostCorrect`.
  The invariant `MapInv` follows the loop over the descriptors: `available_end` lies between the
  descriptors seen and the others (`Between`), below it an unmarked frame is one that a
  descriptor calls available (`UnmarkedAvailable`), nobody calls before the loop has ended
  (`Boot`), and what a search has looked at is available (`Looked`).
* `AllocatorsProof` goes on, from the same, to `SoundUnlessRacedCorrect`,
  for any number of interleaving callers too.  Its halves `SharedOnlyByRace` and `MarkedUnlessRaced` need each other: a frame that is
  held and not marked can be given out again, so it must be raced already.  The invariant `RaceInv` adds what a search knows (`Passed`): what
  it has looked at lies in the range and is unmarked still, unless another call has taken it since.
* For any number of callers again, `FirstFitCorrect` and `FailsOnlyWhenFullCorrect`.  The invariant
  `SkipInv` is what a search knows of the frames behind it: every region that begins before the one it is at
  has a frame that is marked, or that another task has freed since, and that frame lies behind the
  search.  A step of the search keeps it because the frame it restarts after is marked; `Free` by
  others, because it adds to `freed` what it clears there.
* `AllocatorsProof` goes on with the other allocator, of clusters: `ChainsSoundCorrect`, from `FATAssumption`
  alone, for any volume, any number of files, writers and readers, and writes of any length,
  with `Crossing` and without.  `ChainsSound` follows links; the invariant `FATInv`
  names what they lead through: there is a `ch` that gives to each first cluster the sequence of its
  chain's clusters, without repetition, apart from the others', covering with the free clusters the
  whole volume (`Chained`).  It adds that the entries of files lie in clusters of the directory's own
  chain (`DirectorySound`), because an entry elsewhere would be lost, and where descriptors
  stand (`DescriptorSound`, `WritesAt`): in the `j`th cluster of their file, with no more written than
  `j - 1` clusters and the place in this one hold; otherwise a file could come out longer than
  its chain.  The loops of `ExtendCluster` and `Write` are followed by the least round that fails, and
  each is shown to take no more than the clusters that its caller has seen free; a write that
  crosses may take as many as all the rest needs each time, hence the guard `Room`.
* `AllocatorsProof` ends with `FilesImplemented`: `FAT` implements `Files`, from `FATAssumption` and
  `FATDistinct` (the marks for "no file" and "not open" are neither contents nor descriptors), with the
  hypothesis `~Crossing`, without which it is false (section 5).  `Files` states no fairness,
  so this is the whole refinement.  The invariant `FilesInv` adds to `FATInv` that the entries in use come first and
  no two have one name (`Ordered`, `Unique`), so that `FindFile`, which stops at the first unused entry,
  misses none and `AllocateEntry` takes the next one; that each descriptor stands, counted in bytes, where its
  cluster and its place in the cluster say (`HandleSound`), the end of a cluster and the end of the
  chain being two ways to stand between two clusters; and that who writes a file has it alone (`Shared`).  Both loops are
  followed with what they have copied so far (`Reading`, `Fills`); `ContentAt` reads byte
  `q * bytes_per_cluster + o` of a file off cluster `q` of its chain, and `WrittenContent` and `OthersKept` say what a
  write does to its own file and to the others.  A lemma per call (`OpenSteps`, `CloseSteps`, `ReadSteps`,
  `LoadSteps`, `WriteSteps`) then gives the step of `Files` it is.
* `PagingProof`, from `LayoutAssumption` (applications have a page, and are linked below their stack and arguments),
  for any tree of tables: `FramesAccountedCorrect`, `SharedReadOnlyCorrect`, `LostByMishapCorrect`, and
  `ImagesIntactCorrect` with the explicit hypothesis `~AnyBuffer` (see section 5).  None is
  inductive alone.  The invariant `MInv` has four parts besides the types.  `Good` is about page
  maps only: frames are accounted for (`Accounted`), what two entries lead to is read-only
  (`Shared`), only pages of images are read-only (`OnlyImages`), and a page that
  is read-only is also in a map that no task will clean up (`Kept`).  The last
  is why `CleanPageMap` may leave a read-only page alone without losing it, and why
  `CopyOnePage` may drop the old page.  `Apart` says that the map with which a task runs is
  nobody else's and no image; `Images` that a map in `app_loads`, or about to be inserted, has
  nothing but the image, read-only; `Tidy` that without a mishap there are no other maps.  The functions of
  `paging.cpp` are proved to keep `Good` for any memory, with what they leave alone (`Grown`, `Aside`), before
  any action is looked at; for their loops, which the library's induction theorems cannot
  serve, `Rounds` takes the least round that fails (`SetupPageRounds`, `CopyRounds`).
* `PagingProof` ends with `AppMemoryImplemented`: `Paging` implements `AppMemory`, with the hypotheses
  `~AnyBuffer` and `RoomEnough` (the bounds keep the heap below mapped files; section 5).  `AppMemory`
  states no fairness, so this is the whole refinement.  The same lemmas about the functions
  also say what a page shows afterwards (`Look`): new pages zeros (`SetupLooks`), a copied map what
  the original does (`CopyLooks`), a page written into the new value in this map alone (`StoreGood`,
  by `Shared`).  `OthersStayPut`, proved with each action, says that the other
  tasks' maps show what they did.  The invariant `RInv` adds to `MInv` that a map
  ready for its arguments shows the image and nothing else and that one that is run
  with shows the image's pages at least (`Sights`), and that only who runs has heap and files (`Limits`).
  For each action a lemma (`LoadAppSees` to `MapFileSees`) then gives the step of `AppMemory` it is: `Args`
  starts, a fault that is served shows nothing new, `CleanUp` exits.
* `XHCIProof`, from `PortAssumption`: `TypeCorrect` (the type invariant of the module,
  with the types of commands and events) and `AddressingPortCorrect`.  The invariant is
  their conjunction: a reset is started only for a port whose phase is outside the
  addressing ones, and the completion of an address gives the turn back before it is
  given on.
* `XHCIProof` goes on, from the same, to `InStepCorrect` and `OneDevicePerPort`.  The invariant `SInv`
  says that at most one request for the port whose turn it is, is on its way, as a command or as
  an event, and is the one that its phase waits for (`OneRequest`, `Requests`); that a port
  has one device, and a device without a port was not spoken to (`Devices`); and that
  only a class driver that was started waits for reports (`Reports`).
* `XHCIProof` ends with `CommandsAnsweredInOrder`: `Ring` implements `CommandQueue`, from
  `RingAssumption` alone, for rings of any size and whatever is pushed.  `CommandQueue`
  states no fairness, so this is the whole refinement.  The invariant `RingInv` says of each ring
  that its two sides are at most a lap apart and that the cycle bits tell how far (`CommandLap`,
  `EventLap`); that the link is the last entry and complete before the controller comes to it (`Linked`);
  and that the events still to be looked at point, in their order, to the commands taken last
  (`Holding`).  The number of commands under way is what makes it inductive: the next
  entry to be written is never one that waits for its answer.  What it is about are differences
  modulo the size of a ring; they are first shown to be distances within a lap
  (`AheadIsDistance`, `UnderWayNow`).  `Ring` names its specification `RingSpec`, because
  the module of these proofs extends `XHCI` too.
* `KeyboardProof`, from `LineAssumption` and `TextBoxAssumption`: `LineSoundCorrect` and
  `BoxesShowWhatIsEntered`.  Neither property is inductive.  `LineInv` adds to the first that a line
  that was typed, and so each line of the history, is shorter than the window is wide, because a letter is taken only
  left of the last column: a recalled line is drawn from the second column on and still
  fits.  It also says that no line is kept while a command runs, which is why output may move
  the cursor anywhere (`PrintFits`), that the row holds no letter left of the cursor then (`RowInv`), so that the prompt
  is written behind none, and that bytes are in the range of a `char`, so that narrowing
  a recalled line changes nothing.  The second needs that the loop over the dictionary ends with words of it
  (`RoundsFind`, `RoundsFindWords`), and that erasing after a full or an empty box leaves the cells as
  they were entered (`ErasedShows`), which is also what Bhat does before it puts a ligature.

Only model-checked: liveness (`MainServed`, `EveryoneRuns`, `WaitReturns`, `CloseCloses`,
`ServedUnlessPulled`, `KeepsAnswering` and the fairness of `Stream`), which is out of
the prover's reach.  Every safety invariant that a run checks, and every refinement but for the
fairness of `Stream`, is stated by a theorem.

## 5. Seen while modelling

What follows is behaviour of the code that a property excludes in its statement, or that a model leaves out
by a named restriction.  Dropping the exception or the restriction gives the counterexample.

* `memory_manager.cpp:18`: `Allocate` looks at the bits one by one and sets them at the end, and its callers
  run with interrupts on.  Two tasks find the same frame unused and both are given it; when one of them frees
  it, the other uses a frame whose bit is 0, which `memory_manager.hpp:52` calls free ("0 なら空き，1 なら使用中"),
  and which the next call gives to a third.  The run `frame_allocator` reaches this: without `f \in raced`,
  either half of `SoundUnlessRaced` is violated.  With it the property says that, as long as marking and freeing are
  one step each, nothing else leads there.  `Paging` takes the frames as given out once.
* `paging.cpp:32`: with write protection off, a system call that fills a buffer in the image stores into the
  shared frame, which `terminal.cpp:100` means to set up read-only.  With
  `AnyBuffer = TRUE`, `ImagesIntact` fails.
* `syscall.cpp:367`, `syscall.cpp:379`: neither `DemandPages` nor `MapFile` looks whether the heap
  has come up to the mapped files, and a fault takes such a page for heap.  `MaxHeap` and `MaxMaps` keep them
  apart; with `MaxHeap = 3` in `paging_deep` a page of a file turns to zeros before
  it was touched, and `ImplementsAppMemory` fails.
* `usb/xhci/xhci.cpp:257`: the turn to be addressed is given back only on success; after a
  device is pulled out in its turn, ports that wait for theirs wait for ever.  `ServedUnlessPulled`
  ends its promise when a device is pulled out.
* `fat.cpp:313`: a write that goes on into another cluster copies too much and makes the
  file too long (`Crossing = TRUE`: `ImplementsFiles` fails).  In such a write `ExtendCluster`
  also returns the last cluster (`fat.hpp:155`), so clusters in the middle of a longer extension stay unwritten.
* `terminal.cpp:875`: a terminal adds its blink timer with interrupts enabled; the timer
  interrupt may change the heap in between (`torn`).
* `mouse.cpp:195`: `drag_layer_id_` is kept while the window it names is closed, and the next
  movement follows a null pointer (`wild`).
* `syscall.cpp:78-84`: `OpenWindow` activates the window before it is in `layer_task_map`, so the
  application is not told that its window is active.
* `terminal.cpp:959`, `syscall.cpp`: a command that reads takes all messages of the terminal it runs
  in, its blink timers, the news of the focus and the close button: hence the
  exceptions in `OneBlink`, `FocusKnown` and `CloseCloses`.  An application that reads events while it
  also reads a pipe loses pieces of it.
* Windows that an application has left open stay, with their entry in `layer_task_map`; the
  close button of one ends the terminal (`terminal.cpp:921`).
* `terminal.cpp:497`, `:679`: a windowless terminal that runs a pipe uses `layer_id_` without
  having set it, as a key of the map.  The model has pipes only in terminals with a window.
* `terminal.cpp:1055`: a reader that ends before the end of its input leaves a writer with a reference
  to a deleted task (`OnlyQuittersMissed` says it happens only then).
* `terminal.cpp:825-840`: the history clears and draws the line from the second column on.  A letter that was
  typed in the first column, after the prompt had been erased, stays there when a line is recalled, directly before it, and is
  no part of what Enter runs.  `LineSound` says that this is the only letter in the row that is not of the
  line, by the condition `first # 1`; without it the run `keyboard` finds such a letter.
* `terminal.cpp:818`: after a child has printed into the line, a recalled line is drawn beyond
  the window's edge; `LineSound` holds while nobody else prints.
* `terminal.cpp:371`: a letter is narrowed to a `char` in the line, but drawn as it is, so a Cyrillic letter
  (`keyboard.cpp:31`) is seen and another byte runs.  `LineSound` compares such a letter by the byte that is kept
  (`Shows`).  Codes of bytes above ASCII, which begin or continue a longer UTF-8 character, are left out.
* `lang/textwindowpekzep.cpp:124`: the space bar with no candidate reads beyond the list
  (`wild`), and `cursor_index` of the boxes is not initialised: they work because their stack is zero.
* `memory_manager.hpp:84`: `Stat` returns the frames in use where the comment says free ones.
* `fat.cpp:274`: a descriptor at the end of a chain keeps `kEndOfClusterchain` as the cluster to read
  from next, so a reader beside a writer goes on outside the volume once the file is
  extended.  `fat.cpp:229`: a file created in a deleted entry keeps the old first cluster,
  which another file may own by then.  `fat.cpp:156`: the search for a free
  cluster has no end on a full volume.

## 6. Not modelled, and why

* Drawing, consoles and fonts: pure output; no property here is about pixels.
* PCI, ACPI, segments, descriptors of interrupts, boot and the loader: straight-line
  set-up before anything is concurrent; they promise what the hardware reads.
* USB memory and the kernel heap: a bump pointer that never goes back, and newlib's
  `malloc` over a fixed range.
* The dictionaries of the input methods, the banner and the image decoder of an application (`stb_image.h`):
  tables and vendored code, 12 700 of the repository's 27 000 lines.  With the
  structures of USB, xHCI and drawing, which hold no behaviour, and the applications, which
  are the environment of `Paging`, `Windows`, `Timers` and `Pipe`, they are more than
  two thirds of it: the models stand for most of the rest, not for a third of everything.
* Of the terminal: parsing of the command line, the built-in commands that only print,
  the colours of output.  Of the system calls: what is drawn, the table of file numbers.
* Of the file system: paths and subdirectories, names that are not in 8+3 form, a full
  volume, overlapping calls of two tasks (a call is one step), and images that stay loaded
  when their file is written anew (`terminal.cpp:222`).
* `NewTask`, and `Wakeup` of a new task, are each one step in `Kernel`; the code runs them with interrupts on
  (`main.cpp:240`).  What two creators at once make of a `std::vector` is undefined.
* A child that reads the keyboard descriptor of its creator (`ksfnerfe`, `terminal.cpp:964`)
  sleeps on the creator's task with interrupts off.

What could come next: paths and subdirectories in `FAT`; freeing and marking bit by bit in `FrameAllocator`.
