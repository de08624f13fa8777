# Verification of the embedded Linux driver labs

The repository holds the solutions of a course on embedded Linux drivers: some
hundred small kernel modules in chapters, each about one mechanism of the
kernel, with headers that several modules share and test programs. There is no
single program; the system is the set of protocols between a module's own
halves, its users and the kernel: an interrupt handler and its deferred work,
processes that sleep in `read()` until `write()` wakes them, a character device
that is registered in stages and taken down again.

The modules here model those protocols, the configurations beside them check
them on small instances, and theorems carry their safety to every size: of the
interrupt labs, on one line or on all, of sleeping readers, of timers and deferred
work, of the packets of the network drivers, of the loading, unloading and files of the
character drivers and their like, and of the calls that move their caller's
bytes. Paths below are relative to `src/`; `c11` stands for
`chapter_11_character_drivers`, and so on.

## 1. Inventory

### Interrupt handlers and their deferred work (c23)

| Component | State | Operations | What is hard |
|---|---|---|---|
| Catch-up tasklet: `lab_one_tasklet_improved.c`, `lab_one_interrupt.h` | four atomics (`counter_th`, `counter_bh`, `nevents`, `catchup`), the tasklet | `my_interrupt`, `t_fun`, `my_init`, `my_exit` | the handler adds events while the tasklet decides whether to go round again |
| Catch-up thread: `lab_one_thread_improved.c` | the same, and the flag `cond`, a wait queue, the thread | and `thr_fun`, `kthread_stop` | flag and count are two variables; rmmod meets the thread anywhere |
| Threaded interrupt: `lab_one_threaded.c`, `lab_all_threaded.c` | two counters, `nevents`, or three tables of them | `my_interrupt`, `thread_fun`, `get_irqs`, `free_irq` | a decrement before the test: wrap-around; a counter cleared under the handler |
| One bottom half: `lab_one_tasklet.c`, `lab_one_workqueue.c` and their `_dynamic` forms | two counters, a static item or an allocated block for each interrupt | handler, bottom half | a pending item is not scheduled again; a block is freed by the function of the item inside it |
| One kernel thread: `lab_one_thread.c` | two counters, the flag, the thread | as the catch-up thread | interrupts that raise the flag while it is up share one bottom half |
| All interrupt lines: `lab_all_interrupt.h`, `lab_all_tasklet*.c`, `lab_all_workqueue*.c`, `lab_all_thread.c`, `lab_all_getinterrupts.c` | a table of counters which are also flags, one global with the line of the last interrupt | `get_irqs`, `freeup_irqs`, handler, bottom half | handlers on many lines run while the table is filled and emptied |
| User-space interrupt driver: `lab_uio.c` | `nevents`, a wait queue | handler, `read`, `poll` | `read()` takes and subtracts in two steps |
| UIO driver: `lab_uio_api.c` | a `uio_info` and a device | load, unload | order of release |
| Work deferred from `write()` or `my_init`: `lab_tasklet.c`, `mytasklet.c`, `lab_workqueue_*.c` | one item, one queue | `write`, bottom half, `my_exit` | writes that share a run; the end of the queue |

All of them run on several processors: the handler of one line is never
concurrent with itself, nor is one tasklet or one work item, and everything else
interleaves.

### Sleeping readers (c22)

`lab_wait_event.c`, `lab_killable.c`, `lab_poll.c` (with `lab_poll_test.c`),
`lab_excl.c`, `lab_complete.c`, `lab_semaphore.c`, `lab_mutex.c`: the ramdisk of
`lab_char.h`, and one object, which is a flag `data_ready` with a wait queue, a
completion, a semaphore or a mutex. `read()` sleeps on it, `write()` fills the
ramdisk and wakes; signals and the timeout of a poll end sleeps, too. Hard are
lost wake-ups, the order of setting and waking, a signalled reader that clears
what another was waiting for, and what is remembered of writes that found nobody
asleep. The test programs beside them call `read()` and `write()` once.

### Character drivers (c11, c13)

`lab_char.c`, `lab_dynamic.c`, `lab_dynamic_udev.c`, `lab_misc.c`, `lab_char.h`,
`lab_miscdev.h` and the drivers of c11 and c13 that have the same skeleton;
`lab_cache.c`, `memory_allocation.c`, `sample_char_driver.c`. Their state is what
is registered (number region, `cdev`, class, device, misc device, slab cache),
the buffer, the position of every open file and a count of opens. Hard are loads
that fail half-way, buffers that open files still use, transfers at the end of
the device, and `open()` by two processes.

### Kernel timers (c18)

`lab_multitimer.c`, `resolution_timer_driver.c`, the old labs, the periodic
timers, `hrexamp.c`, `lab_hrtimer.c`: state is the timers that are pending or
whose function runs, the memory they are in, and `ntimers`. `write()` or
`my_init` arms them; their functions free them, count out or arm themselves
again; `my_exit` polls the count, deletes, or does nothing. Hard are functions
that start themselves again while they are being deleted, the global pointer
that the next `write()` overwrites, and what is still pending after rmmod.

### Calls with the caller's memory (c13, c19, c20)

`lab_usermap*.c` and `lab_read_aligned.c`, `lab_write_aligned.c` (pages of the
caller pinned and copied one by one), `lab_mmap.c`, `lab_ioctl_data.c`,
`lab_ioctl_vardata.c`, `lab_ioctl_signal.c` with their test programs, and the
attributes of `kset_example.c` and `kobject_example.c`. Hard are a buffer that
starts and ends inside a page, failures after something was pinned or
allocated, and globals that all callers share.

### Network drivers (c27, c29)

`basic_network_driver.c`, `lab_transmit_simple.c`, `lab_transmit.c`,
`lab_receive.c`: the net_device, its queue (started by open, stopped by stop),
the statistics, and each packet's owner. Hard are the hand-over of a packet to
the stack, which may free it at once, and a queue that has to be started again.

### Loading and unloading, everywhere

Every module registers things in an order, undoes some of it when a stage
fails, and releases them at exit. That includes the drivers whose work between
is the kernel's: kprobes (c18), kset and kobject (c20), firmware (c21), UIO
(c23), DMA (c26), platform (c14), USB (c32).

### Test programs, measurement, lookups

`PROJECT.json` lists the rest with its sources and the reason it is not
modelled (section 5).

### What makes them correct

* Interrupts: no event is lost, counted twice or left without somebody who will
  handle it; a block has one owner; the module leaves no handler on a line, and
  rmmod ends.
* Sleeping readers: a write is not missed, a sleeper that can go on does, and
  as many readers get through as the object promises.
* Character drivers: a module that is out has left nothing behind and released
  nothing it did not hold; an open file is served from its buffer; the position
  counts what was moved.
* Timers and deferred work: nothing is pending in freed memory, a module that
  waits for its functions is quiet when it is gone, and the wait ends.
* Calls: the bytes asked for are moved, no others, and what a call has pinned or
  allocated is given back on every way out (one ioctl forgets it on one).
* Network: a packet is freed once, the statistics agree with what was sent and
  received, and a packet queued while the device is up gets through.

`PROJECT.json` ("hazards") lists, line by line, where this can go wrong, and the
properties that are about it.

## 2. Modules

Each atomic operation of the code, and each step of a kernel primitive that
others can see, is one action. Actions are named for the operation and commented
with it. Printing, delays and the checking of module parameters are left out; a
delay becomes a point where anything else may happen. Variables that are not in
the code are marked so in their declaration. Operators headed "Mutant" are no
part of any specification: each is a plausible mistake in the definition that
follows it, used to see that the property which should notice does.

| Module | Code | Correspondence |
|---|---|---|
| `EventService` | what c23 asks of two halves | `raised` and `handled`; each event is handled once and in the end |
| `TaskletImproved` | `lab_one_tasklet_improved.c:31-82` | `isr` and `bh` say which operation of `my_interrupt` and `t_fun` is next; `sched` is the tasklet's SCHED bit, cleared before the function is called |
| `TaskletImprovedProofs` | | theorems about it |
| `ThreadImproved` | `lab_one_thread.c:31-93`, `lab_one_thread_improved.c:31-103` | `thr` walks through `thr_fun`, `wait_event_interruptible` taken apart into queueing, test and sleep; `runnable` keeps a wake-up that comes between test and sleep; `lab` is "plain" or "improved" |
| `ThreadImprovedProofs` | | theorems about both labs, and about `ThreadedIrq`, an instance there |
| `ThreadedIrq` | `lab_one_threaded.c` (lab "one"), one line of `lab_all_threaded.c` with its round of `get_irqs` ("all") | counters of `W` bits; `runthread` is the flag of the interrupt thread; `came` remembers interrupts that `get_irqs` clears from `counter_th` |
| `BottomHalf` | four labs with one bottom half | `pending` and `run` are the bits of the items, `allocated` the blocks; the RUN bit is cleared after `t_fun` has freed its block |
| `BottomHalfProofs` | | theorems about it, and about `Net`, an instance there |
| `AllInterrupts` | `lab_all_interrupt.h`, `lab_all_tasklet.c`, `lab_all_workqueue.c` and dynamic forms, `lab_all_thread.c` | `module` and `irq` are the position in the loops of `get_irqs` and `freeup_irqs`; `thr` and `thr_irq` are `thr_fun` and its local variable, `thr = "err_ptr"` a thread that was not created |
| `AllInterruptsProofs` | | theorems about it |
| `UioRead` | `lab_uio.c` | `pc` walks through `read()` and `poll()`, `nev` is the local variable |
| `SleepingRead` | the seven labs of c22 | one read path for the flag labs, one for the object labs; `lab` picks the lab at the start |
| `SleepingReadProofs` | | theorems about it, and about `UioRead`, an instance there |
| `LoadOrders` | init and exit of nineteen kinds of module, in all chapters | a sequence of stages for each: what it gets, whether its failure is looked at, what is undone then |
| `CharDevice` | the modules' loading and unloading, and the character drivers' file operations (c11, c13, c21) | `step` is the position in the load order; `open` has its `counter++` in two steps, then `read`, `write`, `release`, rmmod; `strayed` are the files that wrote past the end of their device |
| `CharDeviceProofs` | | theorems about it and the tables of `LoadOrders` |
| `Deferred` | c18, and c23 from `write()` | `armed` is what is pending, `fun` where each function in progress is, `wr` where each process is in `write()`; `len` counts the writes added to the data, `printed` what the last call saw of it; `module` walks through `my_exit` |
| `DeferredProofs` | | theorems about it |
| `UserCalls` | c13 user pages and `mmap`, c19, the attributes of c20 | a byte is who wrote it and its index; a call is its entry, its failures and its copies |
| `UserCallsProofs` | | theorems about it |
| `Net` | c27, c29 | `skb` says who has each packet, `xmit` the next statement of `my_start_xmit` and `my_rx` |

`TaskletImproved` and `BottomHalf` are shown to implement `EventService` (the
dynamic labs of `BottomHalf` only: static items coalesce). `ThreadImproved`
implements its safety part (`CountsOnlyEvents`, section 4), but not its liveness,
see section 3; `AllInterrupts` gives its safety part to each line, or to all lines
together. `lab` picks among drivers whose code differs in a few lines; a lab is
chosen in `Init` and never changes.

The kernel's part is the least the labs rely on: a handler of a line is not
concurrent with itself; `free_irq` takes the handler off the line and waits for
one in progress; a scheduled item is run and its flag cleared before its
function; `wake_up` reaches everybody who has queued up, those between test and
sleep included; `cdev_del` takes the map away; rmmod is refused while a file of
a module with `.owner` is open; `del_timer_sync` returns when the timer is
neither pending nor running, `destroy_workqueue` when its items are through; the
network core calls `ndo_start_xmit` for one packet at a time, while the device is
up and its queue is started, and closes a device before it unregisters it.

## 3. Runs

| Run | Bounds | Shows |
|---|---|---|
| `tasklet_improved` | 5 interrupts | nothing lost, no run past zero, nothing stranded; the event service, liveness included |
| `thread_improved` | both thread labs, 4 interrupts | the books balance, a raised flag always has an awake thread, a thread told to stop comes nearer to its end with each step, rmmod ends with the thread dead if interrupts cease |
| `threaded_irq` | both labs, 4-bit counters, 5 interrupts | books balance modulo 16 through the wrap-around that an extra wake-up causes, and through the clearing of a line's counter; the loop and rmmod end |
| `bottom_half` | 4 interrupts, 3 blocks | one owner for each block, the last coalesced run has seen everything, dynamic labs lose nothing |
| `all_interrupts` | 2 lines, 2 interrupts each | the flag by which lines are freed is right although handlers count into it; every line is freed; dynamic labs account line by line, in the others bottom halves do not outrun interrupts |
| `sleeping_read` | 2 readers of whom 1 polls, 1 writer, 3 writes | no last write is missed, sleepers are woken and counted, one write lets one reader through an object |
| `uio_read` | 1 reader, 4 interrupts | no event is lost between the read and the subtraction, and none leaves a sleeper asleep |
| `char_device` | 2 files, 3 buffers, device of 2 bytes, positions to 4, 3 opens | nothing left or released twice, nothing that another still needs is released first, files served, positions right, in all nineteen kinds of module |
| `deferred` | 2 writers, 3 writes, 4 blocks, 12 labs | no timer in freed memory, the count right, the last call misses no more than the addition each writer has in hand, rmmod ends |
| `net` | 2 packets, device up twice | each packet freed once, the statistics agree, what is queued goes on |
| `user_calls` | 2 processes, 2 calls, pages of 2 bytes, ramdisk of 2 pages, buffers over 3 | the right bytes are moved on every alignment, and each call gives back what it holds, but for one direction of `lab_ioctl_vardata.c` |

The bounds are the smallest that let the interesting cases meet. Two interrupts
already give an event that arrives while the bottom half works on another; four or
five let a run catch up twice and be scheduled again meanwhile. Four bits are as
good as 32 for a counter that wraps below zero and, taken as an `int`, tells lines
that are not ours: a spurious run goes through the whole cycle, and each further
interrupt in that time shortens it. Three blocks for at most three items in flight
let a freed block be handed out while its softirq has not left it. Two lines
separate "this line" from "another". Two readers are what a flag that one of them
clears needs; a third write after both have been through shows what is remembered of
unread ones. Requests of one to three bytes on a device of two end before, at and
beyond its end; where the driver lets a file go on, it may do so to position 4
(`MaxPos`), twice the device. Pages of two bytes have a first, a last and an
unaligned position, and a buffer in three of them can have a whole page between two
parts; an `int` of four bits counts them, and an `unsigned long` of seven is a
multiple of it, as 2^64 is of 2^32, so that a length of 0 wraps as it does in the
code. Three writes on four blocks leave a timer pending, one running and one being
set up. Packets of one and two bytes tell counts of packets from counts of bytes,
and a second "up" shows whether the queue starts again. `MaxIrqs`, `MaxCalls`,
`MaxWrites`, `MaxOpens`, `MaxUps` and `MaxPos` are guards on the actions of the
environment only. What they cut off is that interrupts, calls and files past the end
of their device go on for ever. One liveness property depends on that: `RmmodEnds`
of `ThreadImproved`, which has the premise that interrupts cease (`IrqsCease`), and
`StopComesNearer` beside it, which has not. No other loop of the code is kept going
by what a bound ends.

The largest runs are `char_device` (531255 states), `user_calls` (460464) and
`all_interrupts` (367269). A type invariant stands in every module. Section 4
proves them for every value of the constants, but for those of `AllInterrupts`,
`SleepingRead` and `UserCalls`: these contain bounds of the run (on counters of
history), and what is proved is the rest of them, `Shape`.

Deadlock is not checked: after its last interrupt, write or open, and after
rmmod, each of these systems may rightly stop. Where stopping would be wrong a
liveness property says so.

Fairness. Handlers run to their end, a scheduled tasklet or work item is run, a
runnable thread runs, a system call that is not blocked goes on and `free_irq`
returns once what it waits for has happened: weak fairness on those steps, which
the processors and the scheduler provide. A semaphore, mutex or completion that
is free is taken by *some* waiter, not by each (`WF` on the disjunction). A
function the kernel has armed is called (`WF`). `del_timer_sync` tries until it
finds the timer neither running nor about to be, and a timer that restarts itself
lets it try again and again: strong fairness on its success. The transmit queue
is served whenever the device is up: a stop and an open between may disable the
send, hence strong fairness on `StartXmit`, and weak on the statements of the
driver. No interrupt, signal, open, write or rmmod ever has to come, so no
property relies on the next one. That interrupts do not come for ever is asked for in
one place: until `free_irq`, the last thing in `my_exit` of
`lab_one_thread_improved.c`, each of them gives the thread another round of a loop
that does not look at `kthread_should_stop`, and rmmod waits as long as they come
faster than rounds. The poll's timeout has to come, as timers do; the driver that
sets its flag after the wake-up depends on it.

### Where the code disagrees with what it says

The run `thread_queue_cleaned_up` refutes "cleaning up the pending queue"
(`lab_one_thread_improved.c:23`): an interrupt that raises `cond` before the thread's
`atomic_set(&cond, 0)`, at its first pass or between the end of the inner loop and the
next one, has its flag wiped out; its event waits for the next interrupt.

Further configurations record statements which one might expect, or a comment
makes, and which the code does not keep. Each gives a short counterexample
(`tlc -config <file> <module>`, the module's name being the first part of the
file's).

| Configuration | What happens |
|---|---|
| `ThreadImproved_NoOrphanThread` | a failed `request_irq` leaves the thread |
| `ThreadImproved_LiveHasThread` | an error pointer from `kthread_run` passes the test for NULL |
| `ThreadedIrq_NoPhantomEvent` | more bottom halves than interrupts |
| `ThreadedIrq_TablesAgree` | `get_irqs` clears what the handler of a line has counted: the tables that `thread_fun` of `lab_all_threaded.c` prints differ for good |
| `AllInterrupts_CountIsKept` | `get_irqs` clears what was counted already |
| `AllInterrupts_BhsOfTheirLine` | a bottom half counted for another line |
| `SleepingRead_killable` | `wake_up_interruptible` does not wake a killable sleeper, against "sleep until woken by a write() function" (`lab_wait_event.c:20`) |
| `SleepingRead_wakefirst` | `lab_poll.c` wakes before it sets the flag |
| `SleepingRead_onesleeper` | one write lets two readers through, against the title "1 sleeper wakes up" |
| `UioRead_ReportedOnce` | two readers are told the same events and `nevents` goes negative |
| `CharDevice_OpensCounted` | two `counter++` at a time count as one |
| `CharDevice_SlabsFreed` | a second `open()` of `lab_cache.c` overwrites the pointer to the first object |
| `CharDevice_EarlyOpen` | `lab_firmware_chardev.c` can be opened before its firmware is there, and a failure then takes nothing down |
| `Deferred_TwoWriters` | two writes at a time add the same timer, through the global pointer of c18 |
| `Deferred_RunningTimersDeleted` | `my_exit` deletes one timer of those `write()` has left, against "delete any running timers" (`resolution_timer_driver.c:82`) |
| `Net_BytesAreThoseSent` | `lab_transmit.c` reads the length of a packet that it has freed |
| `UserCalls_PagesNeeded` | a buffer that ends with a page is counted as one page more, against "the total number of pages of memory needed" (`lab_usermap_align-not-needed.c:59`) |
| `UserCalls_SignalAsMeant` | a signal goes to whom another process has named |

Some of these are so basic that nothing else holds beyond them, and the passing runs
stay on the near side. `OneOpen` lets one process at a time open `lab_cache.c`'s
device; `LoadFirst` keeps `lab_firmware_chardev.c` unopened until it is loaded;
`OneWriter` and `OneTimer` give the timer labs with a global pointer or a static
timer one `write()` at a time; `uio_read` has one reader.

Some properties except what the code has wrong, by name. `NothingLeft` allows what
`Left` lists for a lab, the mask that `setup_dma_mask` leaves when `dma_set_mask`
fails (`basic_dma.c:72`) among it. `PositionCounts` keeps a position within the
device where the driver looks for its end; `lab_char.c`, `improve_char_driver.c` and
`memory_allocation.c` do not, their files go past it, and `OpenFileServed` then lets
what they write turn up in another file's buffer. `CallReleases` excepts the invalid
direction of `lab_ioctl_vardata.c:81`, where the buffer leaks; `StatsAgree` the
bytes that `lab_transmit.c` counts; `SleeperGoesOn` the labs whose `write()` does
not wake every sleeper after the flag is set (`lab_killable.c`, `lab_poll.c`,
`lab_excl.c`); `LastCallIsRecent` `lab_tasklet.c`, whose `len += 100` is not atomic;
`QuietWhenGone` is not about `resolution_timer_driver.c` once that is gone.

`basic_network_driver.c:82-86` says that there is "a memory leak whenever you try
to send a packet"; its function frees the packet, as the model does.

## 4. Proofs

`TaskletImprovedProofs` proves about `TaskletImproved`, for every `MaxIrqs`, that
`TypeOK`, `Conservation`, `NoUnderflow` and `NoStrandedEvent` are invariants and
that the driver implements the safety part of `EventService`
(`RefinesEventService`).

None of the four is inductive. Their conjunction with `Unloaded` is: `Conservation`
needs `NoUnderflow`, since a run that takes an event which is not there spoils the
balance; `NoUnderflow` holds because a run tests `nevents` before it takes the
first event and after each one, and only the run itself takes any; it also makes
the last decrement of a run the one that empties the queue, so that a run which
ends leaves nothing stranded. `Unloaded` says that `my_init`, which
resets the counters, has no handler or tasklet beside it. The lemmas
take the steps of the handler, of the tasklet and of loading one by one. For
the refinement, only `IsrEnter` raises an event, only `BhCount` handles one, and
at `BhCount` the balance and a positive `nevents` give `counter_bh < counter_th`.

`ThreadImprovedProofs` proves `TypeOK`, `Conservation`, `FlagWakesThread` and
`UnloadedIsQuiet` of `ThreadImproved`, for both labs. Here the counters are reset
while the thread runs already; the invariant says that before there is a handler
nothing is counted (`Unloaded`), which holds because a thread is in its loop only
for events that are there (`Positive`). `FlagAnnounced` is `FlagWakesThread` for
every state of handler and module: a thread falls asleep on a flag that is down, and
whoever raises it still has the wake-up to do. In the plain lab `Conservation` is
that bottom halves do not outrun interrupts; `Plain` makes it inductive: a flag that
the thread has not counted for (`Raised`) stands for an interrupt, which the handler
has counted before it raised the flag. What the lab asks for beyond that, an empty
queue when the thread sleeps, is false (section 3).

`RefinesEventService` is that every step of either lab is a step of the event
service on the two counters, or none (`CountsOnlyEvents`); as for the tasklet, it
follows from the balance. `StopReaches` is part of the safety core of `RmmodEnds`: while
`my_exit` waits for the thread, that has been told to stop and is not asleep, or is
about to wake. It holds because `kthread_stop` sets its mark before it wakes the
thread, and the condition of `wait_event_interruptible` asks for the mark. The
other part is `StopComesNearer`: `ToGo` counts the steps the stopped thread has left,
three for each event and those to the end of its loop, and every step of it takes some
off; only the handler, which counts an event more, puts three on. It needs that
`nevents` is positive where it is decremented (`Positive`). So the thread ends
when interrupts cease, the premise of `RmmodEnds`.

`SleepingReadProofs` proves `OneReaderPerWrite`, `SleepersCounted`,
`LastWriteIsRead` and `SetThenWake` of `SleepingRead` for every set of writers and
every finite set of readers. `Places` confines the readers of each lab to their own
part of `read()`. The first property is then inductive together with what `my_init`
starts from, and with `NoWriter`: nobody writes before. The second is a count:
`Inside` gains a reader at `ReadEnter`, loses one at `DecAndTest` and keeps the rest,
a signal included, by the theorems on the cardinality of finite sets. `ReadInv`
makes `LastWriteIsRead` inductive: it says who is going to read the last write, if
nobody has: a reader on its way to the data, or one whom the flag, the object or a
writer on its way to them (`Announcing`) will let through. `WokenInv` is `SetThenWake`
for states in the middle of a `write()`. `TypeOK` is not proved there: its bound on
`passed` is one of the run, not of the code; `Places` and `Shape` are the parts of a
`TypeOK` without such bounds.

The module ends with `Conservation` and `NobodySleepsOnEvents` of `UioRead`, the
other reader that sleeps, which is an instance there, under `OneReader`: the set of
readers has at most one element. `StillThere` is the heart of it: what the process
has read of `nevents` it finds there when it subtracts, as handlers only add. With a
second reader it is false, and both properties with it. From the same invariant
follow the types (`UioTypeCorrect`): with one reader `nevents`, from which
`read()` subtracts what it has reported, is never negative.

`BottomHalfProofs` proves `OwnedBlocks`, `LastRunSawAll` and the safety part of
`EventService` of `BottomHalf`, for every finite set of blocks. `OwnedBlocks` says
that what is allocated is with the handler, the queue or a bottom half, and with one
of them only, without which a `kfree` could take a block from another owner; `Owned`
adds that they are blocks of the set. `Seen` is `LastRunSawAll` for states in the
middle of a handler; it needs `Owned` where an item is initialised, since that must
not take it off the queue. `Counted` is the link of the two counters: they differ by
the number of items that wait, which `IsrSchedule` raises by one and `BhCount`
lowers, by the theorems on the cardinality of finite sets. So an item that waits is
an event that was raised, and the refinement follows. `TypeCorrect` bounds the
counters in the static labs as well, where items coalesce and `Counted` does not
apply: `Coalesced` says that a bottom half that is still to be counted has an
interrupt of its own. `NoneForgotten` is the part of the event service's liveness
that is a matter of safety: an interrupt without its bottom half has an item that is
scheduled, running, or in the hands of the handler.

`ThreadImprovedProofs` ends with `ConservationMod` of `ThreadedIrq`, which is an
instance there, for every width `W` of the counters. The property is inductive with
the types of the counters; what it needs is that `%` with 2^W may be taken before or
after an addition (`ModAdd`, `ModSame`), which is proved from the definition of `%`
by the quotient. `Widths` says that `W` is a natural number and that there are no
more interrupts than a word can count, as in the module's assumption. Both labs are
in it: the books are kept against `came`, the interrupts that were counted, which is
`counter_th` in `lab_one_threaded.c`, while on a line of `lab_all_threaded.c`
`get_irqs` clears that counter with the handler on the line already, and none of its
events. Beside it stand the module's types and `PendingIsServed`, the safety core of
`Drained` and of `RmmodEnds` there: an event that is pending has its thread in its
loop, or flagged to run, or about to be flagged by the handler; and the thread is
stopped with no handler beside it.

`AllInterruptsProofs` proves `FlagIsTrue`, `AllFreed` and `LineConservation` of
`AllInterrupts` for every set of lines. `Lines` follows `get_irqs` and `freeup_irqs`
through their loops: lines that are not requested yet, lines whose flag is true,
the one line in between where it is not yet, and lines that are freed. It holds
although handlers run all the while, because a line's counter is below zero only
until it is requested, and handlers only add. `Handlers` says that a handler runs on
a line of ours or on the one `free_irq` waits for, `Kinds` that a lab has no bottom
half of another. `ByLine` is the balance of the dynamic labs. `InAll` bounds
the others' bottom halves by the totals `ncalls` and `nbhs` of all lines, history
variables, and by those handlers that have counted but not scheduled.

The same invariant makes two refinements. `Line` is any one line, a constant of the
module of proofs: in the dynamic labs the two counters of that line are an event
service of their own (`OfLine`), whatever happens on the others. In the static labs
and the thread lab a bottom half may be counted for a line that has had none of its
own, so only the sums over all lines are an event service (`Together`). `ThreadIsTold`
is `StopReaches` for the thread that serves all lines.

`DeferredProofs` proves `QuietWhenGone`, `NoTimerTwice`, `TimersCountedOut` and
`LastCallIsRecent` of `Deferred` for any finite sets of writers and blocks and any
number of writes. `Owners` says that a block is with one writer, or armed, or with
its function; `Deleting`, that what `my_exit` has not deleted yet is in its list;
`Stopped`, that what it has deleted or waited for does not come back, the timers
that restart themselves included; `Counted`, that `ntimers` is the number of writes
and timers under way, a sum of three cardinalities, and that all memory is with one
of them. `LastCallIsRecent` is again a count: `Sums` says that the writes are those
whose addition is in `len` and those of a process that has scheduled the item and
not added yet, one for each process at most; a call prints `len`, and no write
follows it that does not schedule the item again. `PolledIsOnItsWay` is what
`RmmodEnds` rests on in the labs whose `my_exit` polls `ntimers`: while that is not
zero, a timer is pending or its function is on its way to `atomic_dec`.
`TypeCorrect` bounds the counts: each `write()` that has raised `ntimers` has its
own `add_timer` before it (`Due`, `WriteBounds`), so the count is at most that of
the writes. The hypothesis `Exclusive` is what three labs ask of their users (see
`OneWriter` and `OneTimer` in section 3); the other labs need none.

`BottomHalfProofs` goes on to the other items that are freed by whom they are handed
to: `SkbFreedOnce` of `Net`, which is an instance there, for every set of packets
and in all four drivers (`NetConstants` repeats that module's assumption). `OwnsCur`
says that the driver has the packet it was called with, until the statement that
frees it or hands it on, and no other; `Path`, that `lab_receive.c` never frees and
only it receives; `Freed` counts.

`StatsAgree` is proved of both drivers that count (`StatisticsAgree`): packets are
counted once in each direction, bytes received are those sent, a copy of the counts
taken without a lock never has more received than sent, and `txBytes` is the sum of
the lengths of the packets sent. `Sent`, `Received`, `Copied` and `Numbers` say so
statement by statement of `my_start_xmit` and `my_rx`. The model writes the sum as
the size of a set, a byte being the packet it is in and its place there; so the sum
grows by a packet's length when the packet is added (`NewBytes`, `Summed`), by the
theorems on the cardinality of finite sets, where a fold would ask for induction
over data. `DeviceInUse` is the safety core of `QueuedGoesOn`: nobody sends on a
device that is not registered or reads its counts, and a queue with packets belongs
to a link that is up. `Lifetime` makes it inductive: it follows the device from
registration to its end. The types of `Net` follow from these invariants.

`CharDeviceProofs` proves `NothingLeft`, `NeedsHeld`, `OpenFileServed` and
`PositionCounts` of `CharDevice`, for all nineteen kinds of module and any files,
buffers, sizes and numbers of opens. It takes two steps. First each table of
`LoadOrders` is shown to be in order (`InOrder`, one lemma for each table), a
statement about the sequence of its stages alone: a stage that releases a thing has
it, what is held has what it needs, and each list of releases, after each failure
and at exit, releases what the stages before may have got, but for what the lab is
known to forget (`LeftBy`), each thing once and none before what needs it. Where
`LeftBy` and `Unsure` are not empty, the code does forget something or releases
something it may not have. Then the invariant follows from that order for all
drivers alike: while loading, what is held is what the stages passed got (`Loaded`);
while undoing or unloading, the rest of the list still releases what is held
(`Undone`); a file is open only while the module is live (`OpenWhileLive`), which is
what `.owner` is for; and its buffer is its own, the one object or the ramdisk, by
the kind of driver (`Memory`); what others wrote to it they wrote past the end of
theirs (`strayed`). `Exclusive` is `OneOpen` for `lab_cache.c` and `LoadFirst` for
`lab_firmware_chardev.c` (section 3). `PositionCounts` needs no such hypothesis, nor
the invariant; it keeps within the device only the files of drivers that look for
its end (`Unchecked` are those that do not). `TypeCorrect` has a word on
`counter++`, which two opens at a time may do as one: an `open()` that has not
written its sum back has an opening of its own to count (`NotAhead`), so the count
may fall behind the number of opens, and is never ahead of it.

`UserCallsProofs` proves `CallReleases` and `TransferRight` of `UserCalls` for any
number of processes and calls, and any sizes of page, ramdisk, buffer and words.
`CallReleases` rests on `IInv`: `Where` says which lab can be at which statement,
with which call; `Arguments`, what the call has begun with, so that buffer and length
stay inside the memory; `Holds`, who has memory from `kmalloc`; `Pins`, that exactly
the pages from the present one to the last are pinned, once each. `Pins` needs that
the pages counted from the length are pages the caller has. That is arithmetic of
`\div` and `%`, for which the prover has their definition and no more: `DivPage` (the
quotient is the page a number is in) and what follows from it, `PagesBetween` for a
buffer that begins anywhere and `PagesOf` for one that begins with a page. A length
of 0 wraps round in the `unsigned long`, and what is left of it in an `int` is 0
(`PagesOfNone`), because the one's range is a multiple of the other's times the size
of a page: the module's assumption.

`TransferRight` asks what the pieces of a buffer add up to. `DataInv` has the answer
for every statement: `Pieces`, where the present page begins in the buffer and how
much is left; `Amount`, that no more is moved than was asked for; `ReadRight` and
`WriteRight`, that the bytes up to there are at their place, and those around a
buffer that is read into untouched; `VarBuffer` and `Values`, what an ioctl or an
attribute has on its way. `PieceAnywhere` and `PieceAligned` say of one page what
`NextPiece` and the copy need: it lies within buffer and ramdisk, it begins where the
last one ended, and the last one ends the buffer. `Solitude` is for the second half
of the property, that a call which no other came between has moved all of its own
bytes: a process that is `alone` is the only one in a call. The hypothesis `Fits`,
that an `int` can count the pages of the ramdisk, is needed: with more, the count wraps
and `lab_usermap.c` moves too little. `CallReleases` needs no hypothesis.

Assumptions: the `ConstantsAssumption` of each module, where it has one, of which
the finiteness of the sets that are counted is used, or `MaxIrqs \in Nat`;
`OneReader`, `Widths`, `Fits` and the two `Exclusive` as said above. Each of these
holds in the run of its module. Integers are unbounded but in `ThreadedIrq` and in
the page counts of `UserCalls`: for the C programs the other theorems say something
as long as no counter passes `INT_MAX`.

Liveness (the fair half of `EventService`, `RmmodEnds`, `Drained`, `SleeperGoesOn`,
`PollerLearns`, `QueuedGoesOn`) is model-checked only: the proof system does not
reason about fairness. What of it is safety, that somebody is always on the way who
will do what is waited for, is proved: `NoneForgotten`, `PendingIsServed`,
`StopReaches`, `ThreadIsTold`, `PolledIsOnItsWay`, `DeviceInUse`, and of the sleepers
`LastWriteIsRead`, `SetThenWake` and `NobodySleepsOnEvents`. Every invariant that a
passing run checks is proved, but for the bounds of the run in three of the type
invariants (section 3).

## 5. What is not modelled

* `kmalloc`, `class_create` and `device_create` that fail where the code does not
  look: the module would fault, and there is no behaviour after it. In
  `BottomHalf` the handler has the step to the fault and stays there.
* Three things that `UserCalls` takes for granted and the code does not see to. A
  transfer fits the ramdisk: `lab_usermap*.c` compare no length with `ramdisk_size`.
  `get_user_pages` pins every page it is asked for: its result is not looked at. The
  size in a command of `lab_ioctl_data.c` is the size of the buffer, as in its test
  program: the driver moves as many bytes as the command says.
* What an overrun damages beyond the buffers of the same module, when a file of
  `lab_char.c`, `improve_char_driver.c` or `memory_allocation.c` goes past its end.
* The memory of a `cdev`: `cdev_init` on what `cdev_alloc` returned
  (`lab_char.c:111-118`) makes it one that the last put does not free.
* Bytes. A buffer is its identity and who wrote to it, a ramdisk the number of
  the last write, a transfer how much of it was moved.
* A bottom half that runs after its module is gone. The models let it run, as
  the kernel would; that the text may be unmapped is noted among the hazards.
* Registration of a network device's operations, printing of packets, and the
  operations of a network driver that only print.
* What the kernel does between two calls into a driver: the UIO core, the
  delivery of probes, DMA transfers, probe and disconnect of platform and USB
  devices. Of these drivers (status `partly`) loading and unloading is modelled,
  with its failures.
* The test programs that call `read()` and `write()` once: the processes of the
  models make the same calls at any time. `lseek()` of those programs is left
  out; the position moves by reads and writes.
* `basic_ioctl.c` (a switch that prints), `network_devices.c` (a loop that
  prints), `pci_device_finder_driver.c` (one loop while it loads, whose references
  are the PCI core's), c9 (the module loader's work), and the programs that
  allocate until they fail or read a time-stamp counter: they keep no state from
  one call to the next, and a model of them would restate their one statement.

## 6. Plan

Done in this order, the most important first: the event service and the catch-up
tasklet with its proofs; the other bottom halves; the table of lines; sleeping
readers; user-space interrupts; character drivers; the remaining thread labs;
load orders of all chapters; timers and deferred work; network drivers; user
pages, ioctls and attributes.

Then the proofs: the interrupt labs, sleeping readers, packets, deferred work, all
lines, load orders and files, the callers' bytes, sums of bytes; the event service
in the thread labs and on all lines, the safety cores of liveness, the types.

No invariant of the runs is left to prove. What could follow is the life of the
USB driver's device, whose one global is listed as a hazard.
