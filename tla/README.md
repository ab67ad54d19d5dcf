# A TLA+ model of the EC535 labs

The repository is the course work of an embedded systems course: Linux kernel
drivers for a BeagleBone Black with the user programs that talk to them, and a
few stand-alone C programs. This directory models the parts that have a
protocol to get right, checks them with TLC on small instances and proves the
main results with TLAPS for every instance.

Lines are given as `file:line` under `src/`.

## 1. The system

| component | state it keeps | operations | how it meets the others |
|---|---|---|---|
| **Traffic light driver** `lab4/km/mytraffic.c` | mode `currentState`, pattern state and kernel timer in `my_timer`, `lights[]`, the GPIO pins, three pedestrian variables | `btn0_isr`, `btn1_isr`, `timer_handler`, `mytraffic_write`, `mytraffic_read`, init, exit | interrupts, the timer thread and any number of processes share all of it without a lock |
| **Timer driver** `lab3/km/mytimer.c` | two slots (timer, message, pid, `async_queue`), `currentMaxTimers` | `mytimer_write` (`-s`, `-r`, `-m`), `mytimer_fasync`, `mytimer_release`, `timer_handler`, listings, init, exit | system calls of several processes, SIGIO back to them |
| **Timer program** `lab3/ul/ktimer.c` | where `main` stands | set, wait, announce, remove, change the maximum, list | writes to the driver, `fcntl(F_SETFL)`, `pause`, SIGIO, Ctrl-C |
| **First timer driver and program** `lab2/km/mytimer.c`, `lab2/ul/ktimer.c` | five slots (timer, message), `max_concurrency` | `mytimer_write`, `timer_fn`, listing, init, exit | system calls of several processes |
| **Instruction set simulator** `HW2/main.c` | registers, flag, memory, touched addresses, four counters | decode a file, run eight kinds of instruction | none: one sequential program |
| **Actors** `class16/` | four ring buffers | `put_fifo`, `get_fifo`, `fifo_size`; four actors that `main` fires in a fixed schedule | actors share the buffers |
| **Bits and list** `HW1/src/` | an array of numbers, a sorted linked list | read, mirror and count bits, insert, write | none |
| **Sorting** `HW3/` | arrays, an output buffer | `qsort` with a comparison function | none |
| **Nibbler** `lab2/ldd/nibbler.c`, `nibbler_ul.c` | a buffer and the length of its message; a position per open file | read and write a bite at a time, init, exit | processes share the buffer without a lock |
| **Other driver examples** `lab2/ldd` (memory, fortune, int_mod, hello) | a buffer each | read, write, init, exit | processes share the buffer |
| **The kernel's side of a driver** | what is registered: devices, GPIOs, interrupts, `/proc` files, timers | `insmod`, `rmmod`, the calls into a driver | enters a driver through whatever is registered at that moment |

`lab3/lukehmcc_lab3` and `HW4/km`, `HW4/ul` hold reformatted copies of the lab 3
driver and program, `lab3/ldd` copies of the examples in `lab2/ldd`. `class4`, `class5`, `class11`, `lab1`, the root file
systems and the start scripts hold exercises and glue without a state of their own.

**What the drivers run on.** The labs build against
`stock-linux-4.19.82-ti-rt-r33` (`lab3/km/Makefile:4`, `lab4/README.md:20-21`),
a fully preemptible real-time kernel, on a board with one processor. Three
priorities follow, and all three drivers are modelled with them:

1. the handlers of the buttons run to their end against everything else;
2. the timer thread runs a timer's handler; only the buttons interrupt it;
3. processes run when neither does, and are preempted anywhere in a driver.

**What is hard.** No driver takes a lock. A tick of the traffic light can be cut
by a press between any two of its accesses; two writes to the timer device can
be in any two places of the call; a timer can run out between the write that
arms it and the `fcntl` that asks for its signal; a process can be interrupted
while its timer and its entry on a slot's queue live on; slots change hands
while their old owners wait. Drivers are entered before their init has ended and after
their exit has begun. Section 6 has what went wrong because of it.
In `PROJECT.json`, `hazards` lists each such place at its line with the
properties that watch it, or with the reason why none does.

**What makes each component correct.**

* Traffic light: the timer that drives the lamps is never lost; the pins and
  `lights[]` agree; red comes only after yellow and the walk only after red,
  whatever is pressed when; a call is kept until a walk answers it; a report
  read from the device is what the lamps show.
* Timer driver and program: used one at a time, a table of reminders that are
  told apart by their messages and limited in number; however calls overlap, a
  waiting process is on the queue of the slot that carries its pid.
* First timer driver: a timer that a write on its own has armed says its text until
  it runs out, whatever later writes do; such a write keeps to the maximum and
  repeats no stored text.
* Simulator: computes what its instruction set says, and the cycles it prints are
  those of what ran.
* Actors: however the ring buffers wrap around, they behave as queues, and the
  schedule is one of a network of actors; the assertion in `put_fifo` holds.
* Nibbler: a reader whom no writer overtakes gets the whole message, a writer alone
  replaces it, and every run of the program ends.
* Bits and list: the list is in order at every moment and keeps every node once;
  the file is the sorted, mirrored input.
* Drivers as modules: nothing enters memory that is not there, and a driver that goes
  leaves nothing behind. Neither holds of the labs' drivers; the model says exactly
  what it takes to break each one.

## 2. Modules

| module | what it is |
|---|---|
| `TrafficSignal` | abstract: what the light promises somebody in the street |
| `MyTraffic` | `mytraffic.c` between init and exit, every shared access a step; implements `TrafficSignal` |
| `MyTrafficProofs`, `MCMyTraffic` | its proofs; its instances for TLC |
| `ReminderTable` | abstract: the table of reminders one call at a time maintains |
| `MyTimer` | lab 3 driver: the steps of its system calls, without a specification of its own |
| `KTimer` | lab 3 program, composed with `MyTimer`; implements `ReminderTable` when writes do not overlap |
| `KTimerProofs`, `MCKTimer` | its proofs and those of `TimerListing`; its instances |
| `Lab2Timer` | lab 2 driver with the packets its program writes |
| `Lab2TimerProofs`, `MCLab2Timer` | its proofs; its instances |
| `TimerListing` | `KTimer` with processes that list the timers (`-l`, `/proc/mytimer`) |
| `MCTimerListing` | its instance |
| `DriverLife` | init, exit and the entry points of seven drivers |
| `DriverLifeProofs`, `MCDriverLife` | its proofs; its instance, all seven |
| `Dataflow` | abstract: a network of actors joined by bounded queues |
| `Fifo`, `Actors` | the ring buffer as operators; the actors and `main`, which implement `Dataflow` |
| `ActorsProofs`, `MCActors` | their proofs; their instance |
| `Nibbler` | the nibbler driver with the program that uses it |
| `NibblerProofs`, `MCNibbler` | its proofs; its instance |
| `Bits`, `MyBitApp` | HW1's conversions as operators; its list and `main` |
| `MyBitAppProofs`, `MCMyBitApp` | proofs about the conversions, the list and the output; its instance |
| `ByteMachine` | abstract: the machine of HW2's instruction set, in bytes |
| `Iss` | `HW2/main.c`; implements `ByteMachine` |
| `IssProofs`, `MCIss` | its proofs; its programs |

Names of variables and actions are those of the code. An operator with a
suffix, such as `Room_OffByOne`, is a *mutant*: the definition after it with a
plausible bug. For each checked property one of them (`mutants` in
`PROJECT.json`) is substituted, and TLC then finds the property violated.

### MyTraffic

* `currentState`, `lights`, `pedestrian_*` are the globals; `timerState` and
  `armed` are `my_timer->state` and whether the timer is pending; `pins` is
  what the GPIOs show.
* `pc`, `hmode`, `hstate` place the handler and hold what it has read:
  `Expire`, `TickMode` (the `switch`, :299), `TickLoad` (:302), `TickGrant`
  (:303-307), `TickStore` (the new state, with the walk variables and
  `lights[]`, which no button handler reads or writes), `TickGreen`,
  `TickYellow`, `TickRed` (the pins, :328-330), `TickRearm` (:419-422).
* In the normal mode the source names `my_timer->state` several times between
  :302 and :321. At `-O2` the field may be read again or kept in a register, so
  `TickStore` advances any of `StatesRead`.
* A write (`WriteCall` ... `WriteReturn`) loads and stores the mode, deletes the
  timer and arms it again in four steps. A read (`ReadOpen` ... `ReadEof`) looks
  at the three lamps in three steps.
* `shown`, `asked`, `owed` and `fresh` are history, read by no guard: the last
  pattern drawn, whether a mode request is still to be shown, whether an
  accepted call has had no walk yet, and the readers no tick has overtaken.
* The branch for an undefined state (:408-418) is left out: `TypeOK`, which is
  proved, shows that the modes are 0 to 2 and it is never reached.

### MyTimer and KTimer

* A write of `-s` looks at one slot after the other for the message (`Dup`),
  counts (`Count`), looks for a free slot (`Find`), compares (`Room`), arms the
  timer (`Arm`) and only then fills in message and pid (`Copy`, `Pid`).
  `Remove` and `SetMax` are `-r` and `-m`. `FindByPid`, `Join` and `Leave`
  are `mytimer_fasync`, which `mytimer_release` also calls.
* `Ring` is the timer handler: it sends SIGIO to the slot's queue. A process in
  `pause()` goes on; one that is not there yet handles the signal and forgets
  it (`ktimer.c:139-141` does nothing), which is why `Ring` changes only
  `"paused"`.
* A process runs `main` once. `Kill` is Ctrl-C while it waits or is about to.
  What becomes of the file then is `Exit`, as on every other path.
* `OneAtATime` restricts the interleavings to writes that do not overlap; it is
  the assumption under which `ReminderTable` is promised.

### Lab2Timer

* One loop counts and compares in turn (`Scan`, `Compare`), a second takes a
  free slot (`Find`), copies the text (`Copy`) and arms the timer (`Arm`).
* `Compare` (`strcmp`) and `Copy` (`memcpy`) go one character per step, since a writer may
  be preempted between any two of them and another one be in the same slot. `memcpy` does not
  copy the terminator: `PutChar` keeps the tail of what was there.
* A packet with an empty text sets the maximum (:121), to any number.
* `alone` and `sent` are history: the writers whose call no other call has overlapped, and
  the text for which such a writer has armed each timer that is still active.

### Iss

* One action per kind of instruction. `Lines` is what `sscanf` makes of a line;
  registers are numbers. Decoding happens when the line runs, which is the same
  since the array is not written again.
* `Uint8` and `Int8` are C's conversions: a register is an `int8_t`, a cell a
  `uint8_t`, an address the low byte of a register.

### TimerListing

* A listing looks at one slot after the other without a lock: first whether its timer
  is pending (`ListLook`), then what it says (`ListShow`). The device shows the
  message, the `/proc` file the pid, too; a line has both. The remaining time is left out.
* `calm` is history: the listers during whose walk no slot has changed.

### DriverLife

* A driver is a record: the steps of init with what each takes and what it gives back
  when it fails, the steps of exit, and the memory each entry point touches. One behavior
  takes one driver and loads, uses and unloads it any number of times.
* The kernel enters through what is `held` at that moment: `Press` through an
  interrupt, `Open` through the device, `Call` and `Close` through an open file, `Show`
  through `/proc`, `Tick` through a pending timer. `Enter` crashes if the memory is
  not there.
* Drivers whose operations name their `.owner` are kept in by an open file; those of
  lab 3, lab 4 and the nibbler do not name it, so that `rmmod` succeeds with a file open.
* When the driver has gone, what it left registered is an orphan; `EnterOrphan` follows
  one. `causes` is history: what has happened since nothing led into a gone driver. The
  history is needed to say why a crash could happen, and no guard reads it.

### Fifo and Actors

* A buffer is the record of `fifo.h`, and the functions of `fifo.c` are operators on it.
  `Asserted` is the assertion behind a put; one that fails ends the program.
* `main.c` does not initialise `output2`. Its pointers are any two cells of the buffer and
  its cells `Garbage`; pointers outside of the buffer are left out, as their first use is
  undefined. `clean` is history: whether the two happened to be equal.
* `Queues` is the refinement mapping: the tokens between the two pointers, oldest first.

### Nibbler

* A read checks the position against the length (`ReadCheck`), cuts the count with the length
  it looks at again (`ReadClamp`: the compiler may reuse the first value or not) and copies
  (`ReadCopy`). A position behind the end makes the rest negative, which as a `size_t` count
  is enormous, so that a bite is taken, from behind the buffer if need be (`Outside`).
* A write copies its bytes (`WriteCopy`) and then sets the length to its own position
  (`WritePublish`). `fgets` and `fputs` call until nothing is moved or all is written.
* `quiet` is history: the processes during whose run nobody else has written.

### Bits and MyBitApp

* Words have `Width` bits, a binary string is a function from its index. `PowerOf2[k]`, the
  code's `1U << k`, is a recursive function because the provers know no exponents. `StrLess` is
  `strcmp` on decimal strings: shorter ones do not come first, 10 stands before 2.
* Nodes are numbered in the order in which they are made; `next` is their pointers. An
  insertion is one step at the head (`Insert`) or a search and a splice (`Walk`).

## 3. What the runs check

All passing runs finish without a bound on the depth of the search unless one is
named.

| run | instance | shows |
|---|---|---|
| `traffic` | 1 writer, 1 reader, both buttons, all values | types, `TimerNeverLost`, `PinsFollowLights`, `PatternGoesOnFromLights`, `CallNotForgotten`, `UndisturbedReport`, `RedAfterYellow`, and `KeepsPromise`: the driver implements `TrafficSignal` (3.1 million states) |
| `traffic_live` | 2 writers, both buttons, fairness | `KeepsTicking`, `CallAnswered` |
| `traffic_btn0` | one button | a finding (section 6) |
| `ktimer` | 3 processes, 2 messages, every command, Ctrl-C | types, `OwnerListens`, `StaleEntryIsSuperseded` |
| `ktimer_serial` | 4 processes, writes one at a time | `IsReminderTable` |
| `ktimer_list` | 2 processes that set timers or raise the maximum, 1 lister, fairness | `CalmListing`, `ListenersAreWoken` |
| `lab2` | 2 writers, 3 slots, texts of two lengths, maxima 0 and 2 | types, `LoneTimerSaysItsText`, `AloneAddsBelowMaximum`, `AloneAddsNewText` (2.7 million states) |
| `iss` | all 100 000 programs of five lines out of ten, bytes of 8 values | types, `CyclesAddUp`, `UntouchedCellsAreZero`, and `IsByteMachine` |
| `drivers` | all seven drivers | types, `CrashHasCause`, `NothingLeftBehind` |
| `actors` | ten rounds, buffers of 13 cells, every start of `output2` | types, `AssertionNeedsGarbage`, and `MainIsDataflow`: the program implements `Dataflow` |
| `nibbler` | 3 processes, a buffer of 3, bites of 2, messages of 0, 1, 3 and 4 bytes, fairness | types, `QuietReaderGetsMessage`, `QuietWriterSetsMessage`, `EverySessionEnds` |
| `hw1` | every file of up to 4 numbers out of 7, words of 5 bits, fairness | types, `ListOrdered`, `EveryNodeOnce`, `OutputIsSortedInput`, `Ends` |

**Bounds.** The drivers' state is finite and needs none. One writer suffices
for the traffic light's safety run since every pair of a writer, the handler, a
reader and two buttons is there; two overlapping writers are in the liveness run,
where they could lose the timer between them. Three processes are one more than
the lab 3 driver has slots, so that slots change hands while their old owners
wait; four let a slot be reused twice. Three slots are enough for the loops of
lab 2 to have a first, a middle and a last round. One of its texts has two characters, so
that writers meet in the middle of a comparison and of a copy and can mix their texts; a
third text exceeds TLC's time, and the theorems hold for any. `MaxExecuted` is the one bound on a counter:
a program of `Iss` is watched for ten instructions, which lets a loop of
three go round three times. A byte of 8 values holds -4..3, so sums overflow and
negative registers address memory within that. `DriverLife` has no parameters: its run is
exhaustive. In `actors` the ten rounds are the code's; nine tokens pile up in a buffer, so 13
cells let it wrap around from most starts, and be full from some. In `nibbler` messages are
shorter than a bite, longer than one, and longer than the buffer, and two writers may meet one
reader. In `hw1` the numbers have equal, one-digit and two-digit mirrors, negative ones
among them; four nodes let an insertion happen at the head, in the middle, at the end, and beside
an equal node.

**Deadlock** is checked for the traffic light and lab 2, which never stop. It is
off where programs run once and end: `KTimer`, `Iss`, `Actors`, `Nibbler`, `MyBitApp`.

**Symmetry** is used for processes and messages in the two safety runs of the
timer, where no definition tells them apart; not in liveness runs.

## 4. Fairness

* Traffic light: `WF(TickStep)` - a handler that has started runs to its end,
  nothing but short button handlers can interrupt it. `WF(WriteStep(w))` - a process
  in a write gets the processor when it is free. `SF(Expire)` - a timer that is
  pending again and again runs out. The last one is an assumption on the
  people: each press or write postpones the timer by 10 ms (:87, :282), so requests
  that never pause that long do freeze the lamps. Without a strong
  condition, presses that keep coming would do so, too.
* Timer: `WF(ClientStep(p))` and `WF(Ring(s))`. The second is justified because
  only an update puts a timer off, and each of finitely many processes makes
  one call. Starting a program and Ctrl-C are up to the user and not fair.
* Nibbler: `WF(UserStep(u))` - a process that runs gets the processor. That a run is
  started is not assumed. `Bite` is positive: with the module parameter at 0, a write would be
  repeated for ever.
* HW1: the program does not stop on its own (`WF(Work)`), and the file ends (`WF(EndOfFile)`).
* No fairness is assumed where only safety is checked.

## 5. What is proved

For all values of the constants, on the assumptions named `...Assumption`
beside them (TLC evaluates each in a run):

| module | theorems | rests on |
|---|---|---|
| `MyTrafficProofs` | `TypeCorrect`, `CallsAreKept`, `PatternContinues`, `MotorRuns`, `StreetIsLit`, `ReportsAreTrue`, `YellowFirst`, `PromiseKept` (the refinement) | `IInv` = types, `CopyInv`, `ShownInv`, `WalkInv` |
| `KTimerProofs`, timer | `TypeCorrect`, `OwnersListen`, `StaleEntries`; `TableImplemented` (the refinement, if `OneAtATime`) | `IInv` = types, `LocalsInv`, `PlaceInv`, `OwnerInv`; `TableInv` = `Serial`, `DistinctNames`, `SearchInv` |
| `KTimerProofs`, listers | `ListingIsInvisible`, `ListTypeCorrect`, `CalmListingsAreTrue`, `OwnersListenWhileListed` | `ListIInv` = types, `ListerInv`, `CalmInv` |
| `Lab2TimerProofs` | `TypeCorrect`, `TextsInPlace`, `MaximumKeptAlone`, `NewTextAlone` | `IInv` = types, `LocalsInv`, `MatchInv`, `SentInv`, `AloneInv`, `CountInv` |
| `IssProofs` | `TypeCorrect`, `CyclesCounted`, `UntouchedAreZero`, `ByteMachineImplemented` (the refinement) | `IInv` = the three invariants, `HitsInv` and `PlaceInv` |
| `NibblerProofs` | `TypeCorrect`, `QuietReaders`, `QuietWriters` | `IInv` = types, `PlaceInv`, `QuietInv`, `ReaderInv`, `WriterInv` |
| `ActorsProofs` | `PutIsAdd`, `GetIsHead`, `TypeCorrect`, `AssertionHolds` (if `Rounds <= 10`), `DataflowImplemented` (the refinement) | types, `RoundInv`, `CleanInv` |
| `MyBitAppProofs`, conversions | `MirrorIs`, `MirrorTwice`, `CountIs` | `DigitsAreBits`, `BitsAreDigits` |
| `MyBitAppProofs`, list | `ListStaysOrdered`, `NoNodeIsLost`, `ListHasNoCircle` | `IInv` = `Shape`, `InsertInv`, `WalkInv`, `ListOrdered`, `EveryNodeOnce`, `NoCircle` |
| `MyBitAppProofs`, output | `TypesHold`, `OutputIsRight`, `WholeFileSorted` | `OutputInv` = `NodesRead`, `Written`, `Sizes` |
| `DriverLifeProofs` | `TypesHold`, `CrashesHaveCauses`, `LeavesNothingBehind` | `IInv` = types, `Places`, `HeldInv`, `TimerInv`, `OpenInv`, `OrphanInv`, `CrashHasCause`; `Fits` |

* *Traffic light.* The properties are not inductive because the handler acts on
  copies. `CopyInv` says how stale they may be: the handler's mode and state are
  the current ones unless a request has arrived since, and the shared state is then
  the copy or -1. `ShownInv` ties the pattern's state to the lamps that are lit,
  `WalkInv` a walk's variables to the call it answers. `TimerNeverLost` needs only
  types, since each step that clears `armed` leaves a successor that sets it; `StreetIsLit`
  and `ReportsAreTrue` have small invariants of their own, which say how many lamps have
  been driven, or looked up, so far.
* *Timer.* `OwnerInv` follows a slot that carries a process's pid through
  that process's life: it is the only one, registration finds it, and release
  takes the process off its queue again. It survives overlapping writes because
  another process can only overwrite the pid, which makes the claim void.
* *The table of reminders.* When writes do not overlap, `Serial` says that one process at
  most is in a write, and `SearchInv` what that process knows at each place: no slot it has
  passed holds its message, its count is at least the number of pending slots it has passed,
  the slot it has found is free. It survives timers that run out in the middle, because they
  only lower the number and free slots. `DistinctNames` says that pending slots have
  different messages, where a slot that is armed and not yet filled has the
  message of the write that fills it (`Names`). Each step of the device is then a step of
  `ReminderTable`: arming adds, updating asks for a renewal and renews, running out and
  removing drop, the rest stutters.
* *Listing.* A lister's step stutters in the timer, so that the timer's theorems carry
  over. `CalmInv` says that the lines of a calm lister are those of the pending slots it
  has passed.
* *Lab 2.* For a writer that nobody overlaps, `AloneInv` says that the slots already
  passed hold no timer with the text, and `CountInv` that their number is at most
  the count: timers that run out meanwhile only lower it. `MatchInv` says that the characters
  it has compared, or copied, are those in its slot. `SentInv` says that a slot for which a
  text is claimed is pending, and that no writer is about to copy into it or to arm it: one that
  was would have overlapped the lone writer. So the text stays until the timer runs out.
* *Simulator.* The counts follow from what one access adds to `touched`: `HitsInv` says that the
  local hits are the total ones but for the first use of each address. The
  refinement rests on arithmetic modulo any size of a byte, proved from quotient and
  remainder: converting to a signed byte and back is the unsigned conversion
  (`ThroughInt8`), operands may be converted before or after adding
  (`SumOfBytes`), and signed bytes are equal when their unsigned readings are
  (`SameByte`). So it holds for the 256 of the code and not only for TLC's 8.
* *Nibbler.* A process in `quiet` is the only one that may be between the two steps of a
  write (`QuietInv`); what it has read, or written, is then the beginning of the message
  up to its position (`ReaderInv`, `WriterInv`), for any capacity, bite and messages.
* *Actors.* `PutIsAdd` and `GetIsHead` show that a ring of any size is a queue of one
  element less than it has cells, by cases on where it wraps around. The refinement follows
  actor by actor. `CleanInv` counts the tokens of a start with an empty `output2`: each round
  leaves one more there. `AssertionHolds` assumes at most ten rounds, and that is the exact
  limit: with an eleventh, TLC finds the assertion failing where `fifo_size` counts one too
  many.
* *Conversions.* A recursive function is used in a proof only once it is shown to exist:
  `RecursiveFunction` does so for any definition that goes back to a smaller number, by a
  least counterexample, since the induction theorems of the library cannot be used.
  `DigitsAreBits` follows the number while its powers are taken off: what is left before each
  digit is the number modulo the next power. `BitsAreDigits` follows the sum the other way. A
  mirror is the two after each other; that it is right for any width covers the 32 bits of the
  code, of which TLC's 5 are a small case.
* *Sorted list.* Of the strings the proofs use only that `strcmp` is asymmetric. `Shape` is
  `TypeOK` with the contents of the nodes left as `create_MyList_node` makes them, `WalkInv`
  says that the search stands on a node in front of the new one. `InFront` and `Behind` show
  for any pointers that the two ways to insert keep the list a list. `NoCircle` numbers the
  nodes so that the numbers grow along the pointers; an insertion moves up the
  numbers behind it.
* *Output.* `NodesRead` says whose node each one is, `Written` that the lines are those of a
  path which follows the pointers from the head and meets no node twice. When the path has
  ended it has met every node (`EveryNodeWritten`): among those it missed, one would have the
  lowest number in `NoCircle`'s numbering, and its predecessor would be on the path and lead
  to it. So lines and numbers are paired one to one, and a line is right for a number exactly
  when it is of the same word (`RightLine`, from `MirrorIs` and `SameBits`).
  `WholeFileSorted` adds that the order is transitive.
* *Loading and unloading.* The tables are looked at seven times, once per driver, to show that
  it `Fits`: what is touched by an entry is taken before the way in (or the driver is exposed
  to `early`), given back after it (or it is exposed to `late`, `open` or `pending`), and what
  is taken is given back (or it is exposed to `failed`). The steps use nothing else of the
  tables. `HeldInv` says that but for the timer a driver holds what the steps of init and exit
  so far leave it; `TimerInv`, `OpenInv` and `OrphanInv` that whatever outlives them, a pending
  timer, an open file, a name of a driver that is gone, comes with its cause.

**Only model-checked:**

* the liveness properties, and so that the programs end: the prover does no liveness under
  fairness;
* `ModeChangeRestartsPattern`, which does not hold (section 6).

## 6. Where code and comments disagree

With a run that ends in the violation:

`ModeChangeRestartsPattern` (`traffic_btn0`). `mytraffic.c:86`: "reset timer state when
changing modes". A press of BTN0 during a tick stores -1, which the tick then
overwrites (:321); the new mode starts in the middle of its pattern. The next request does
not repair it either; `TrafficSignal` allows for it in `Tick`.

Met while modelling; the models contain the behavior:

* `mytraffic.c:298`: "extended red if there's a pedestrian". A walk cut short by a change
  of mode leaves `pedestrian_phase_active` set, and the next red in the normal mode is extended
  for nobody. A write of `0` changes the mode without resetting the pattern, unlike BTN0. A reader
  that a tick overtakes can report lamps of two patterns.
* `lab4/README.md:44-45`: "`echo 1 > /dev/mytraffic # simulates btn1`". The value 1 is
  accepted and nothing is done for it (`mytraffic.c:285`, and the TODO at :277); `WriteCall`
  has it return at once.
* `lab3/ul/ktimer.c:134`: "change maximum concurrency". The count is taken long before
  the timer is armed; two overlapping `-s` both find room for the only timer allowed.
  With one message, both find no duplicate and arm a timer each. A listing that changes
  overtake can show a message with the timer of another.
* `lab3/ul/ktimer.c:133`: "add timer with message". The timer is armed at :76, the signal
  asked for at :85 and awaited from :86: a timer that runs out before is never announced.
* `lab2/ul/ktimer.c:93`: "add timer with message". `memcpy` of the text without its
  terminator into a slot that held a longer one leaves the old tail, and the text that results may
  be that of a timer that is active: "b" into a slot that held "ca" gives "ba". Such a device is no
  table of reminders told apart by their texts, even used one write at a time. Overlapping writes
  can exceed the maximum by any number up to the slots there are, and with one text arm a
  timer each. In one slot they mix their texts: "ba" and "cd" can leave "ca", and a
  writer may go on copying into a slot whose timer the other one has armed. An empty text given to `-s`
  sets the maximum, since the checks that the comment at `lab2/km/mytimer.c:116-120`
  relies on are not made by the program.
* `HW2/README.md:10-13, 33-36, 47-50, 67-71` records runs in which total and local hits differ
  by 27264, 260, 27264 and 262. In the code a hit is not local only when it is the first one of
  its address (`main.c:68, 120, 133`), and there are 256: the difference is at most that, which
  `HitsInv` in `IssProofs` proves. The recorded cycles do fit `CyclesAddUp`, with the recorded
  difference for the number of addresses, so the records seem to be those of another version.
* `nibbler.c:179`: two overlapping writers leave a mixture of their messages.
* `class16/main.c:17` says "100 times" where the loop runs ten times, and :24-25 that
  `output1` "will contain a single token with value 100". It ends up empty; the program prints 24
  once and leaves the tokens 2 to 10 in `output2`. `fifo_size` (`fifo.c:30`) is one too large
  when the write pointer has wrapped around; with at most nine tokens the assertion of ten
  holds all the same, just so.
* `mytraffic.c:127-190`: each failure in init returns with what was taken before, the running
  timer first of all. `lab3/km/mytimer.c:149` frees slots whose timers may be pending, `lab2`
  does not stop its timers either. `nibbler.c` and `memory_driver.c` register the device before
  they have a buffer. `Exposed` in `DriverLife` lists what can bring down which driver.

## 7. What is left out

* Time. That a timer is pending and may run out is kept; when it does is not.
* The path of a `copy_from_user` that fails, which returns before anything has changed.
* Reuse of a process id after the process has ended.
* In `DriverLife`: two drivers at once (they share a major number, so that the second
  fails to load like the first one's leftovers make it), and init steps that are not looked
  at by the code, such as lab 2's `class_create`, failing.
* The bytes that `memory_driver.c` and `fortune.c` keep; files of more numbers than
  HW1's array holds, which overwrite what lies behind it; allocations of HW1 that fail.
* HW3: one call of the C library's `qsort` between a loop that reads and one that prints.
* For `Iss`: empty lines (`sscanf` leaves the previous line's words in place), jumps
  in front of the program (they run memory nobody has written), and the wording of the output.

## 8. Plan

Done, in this order: `TrafficSignal` and `MyTraffic`; `ReminderTable`, `MyTimer`, `KTimer`;
`Lab2Timer`; `ByteMachine`, `Iss` (these four with proofs); `DriverLife`; `Dataflow`, `Fifo`,
`Actors`; `Nibbler`; `Bits`, `MyBitApp`; `TimerListing`.
Then the proofs about `Nibbler`, `TimerListing`, `Actors` and `MyBitApp`, that the timer
implements `ReminderTable`, that HW1's conversions and output are right, and about `DriverLife`.
Every invariant and action property that a passing run checks is now stated by a theorem.

Left: `ReminderTable` for the lab 2 driver, which is a refinement only when all texts have
one length (section 6), so that no tail of an old one is left.
