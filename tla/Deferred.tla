------------------------------ MODULE Deferred ------------------------------
(***************************************************************************)
(* Functions that a module hands to the kernel to be called later, from    *)
(* write() or while it loads, and rmmod against those still to come.       *)
(*                                                                         *)
(* chapter_18_kernel_timers:                                               *)
(*   "multi"      lab_multitimer.c            a timer for each write(), its *)
(*                                            address kept in a global      *)
(*   "multiold"   labs_OLD/lab_multitimer.c   the same with a local         *)
(*   "resolution" resolution_timer_driver.c   a timer for each write(), one *)
(*                                            of which my_exit knows        *)
(*   "onetimer"   labs_OLD/lab_timer.c        one static timer              *)
(*   "periodic", "periodics"                  lab_periodic_timer.c and      *)
(*                lab_periodic_timers.c: one and two timers, armed by       *)
(*                my_init, that start themselves again                      *)
(*   "hrexamp", "hrtimer"                     hrexamp.c and lab_hrtimer.c:  *)
(*                the kernel starts them again                              *)
(* chapter_23_deferrable_functions:                                        *)
(*   "tasklet"    lab_tasklet.c               write() schedules a tasklet   *)
(*   "mytasklet"  mytasklet.c                 my_init does                  *)
(*   "shared"     lab_workqueue_shared.c      a work item, on the system's  *)
(*                                            queue                         *)
(*   "private"    lab_workqueue_private.c, lab_workqueue_newapi.c           *)
(*                                            on a queue of the module's    *)
(*                                                                         *)
(* kmalloc succeeds.  A load that fails is CharDevice's subject.           *)
(***************************************************************************)
EXTENDS Integers, Sequences, FiniteSets

CONSTANTS
    Labs,       \* the labs a run is about
    OneWriter,  \* those in whose write() one process at a time is
    OneTimer,   \* those to which nobody writes while the timer is pending
    Writers,    \* processes that write
    First, Second,  \* two blocks, those of the static and the periodic timers
    Others,     \* more blocks of memory
    None,       \* the NULL pointer
    MaxWrites   \* bound: writes

PerWrite == {"multi", "multiold", "resolution"}
Periodic == {"periodic", "periodics"}
Hrtimers == {"hrexamp", "hrtimer"}
Items == {"tasklet", "mytasklet", "shared", "private"}

Blocks == {First, Second} \cup Others

ASSUME ConstantsAssumption ==
    /\ Labs \subseteq PerWrite \cup Periodic \cup Hrtimers \cup Items
                          \cup {"onetimer"}
    /\ OneWriter \subseteq Labs /\ OneTimer \subseteq Labs
    /\ First # Second /\ {First, Second} \cap Others = {}
    /\ None \notin Blocks /\ MaxWrites \in Nat
    /\ IsFiniteSet(Writers) /\ IsFiniteSet(Others)
    /\ Cardinality(Blocks) > MaxWrites

VARIABLES
    lab,        \* the lab that is loaded
    module,     \* "out", "live", the next step of my_exit, or "gone"
    device,     \* the device is registered
    allocated,  \* blocks that are allocated (static data: always)
    armed,      \* timers pending, tasklets and work items scheduled
    fun,        \* next operation of the function called for each block
    wr,         \* next operation of each writer in write()
    tl,         \* each writer's local pointer to the timer
    data,       \* the global pointer
    timer_initd,\* a timer was started
    ntimers,    \* timers not yet through, as the driver counts
    del,        \* timers my_exit has yet to delete, in its order
    twice,      \* not in the code: timers added while they were pending
    len,        \* what write() has added to the data of its item
    sum,        \* what each writer is about to store there
    printed,    \* the data as the last call printed it
    writes      \* not in the code: writes that came to their scheduling

moduleVars == <<lab, module, device, del>>
timerVars == <<allocated, armed, twice>>
writeVars == <<wr, tl, data, timer_initd, len, sum, writes>>
vars == <<moduleVars, timerVars, writeVars, fun, ntimers, printed>>

\* What my_exit deletes: the module's own timers.
Own ==
    CASE lab \in {"periodics", "hrtimer"} -> <<First, Second>>
      [] lab \in Items \cup {"onetimer", "periodic", "hrexamp"} -> <<First>>
      [] OTHER -> <<>>

TypeOK ==
    /\ lab \in Labs
    /\ module \in {"out", "live", "poll", "delete", "kfree", "destroy",
                   "generic", "gone"}
    /\ device \in BOOLEAN /\ timer_initd \in BOOLEAN
    /\ allocated \subseteq Blocks /\ armed \subseteq allocated
    /\ twice \subseteq Blocks
    /\ fun \in [Blocks -> {"idle", "entered", "freed", "return"}]
    /\ wr \in [Writers -> {"idle", "inc", "kmalloc", "setup", "add", "len",
                          "store", "return"}]
    /\ tl \in [Writers -> Blocks \cup {None}] /\ data \in Blocks \cup {None}
    /\ ntimers \in 0..MaxWrites
    /\ writes \in 0..MaxWrites
    /\ len \in 0..writes /\ printed \in 0..writes
    /\ sum \in [Writers -> 0..MaxWrites]

Init ==
    /\ lab \in Labs /\ module = "out" /\ device = FALSE /\ del = <<>>
    /\ allocated = {} /\ armed = {} /\ twice = {}
    /\ fun = [b \in Blocks |-> "idle"]
    /\ wr = [w \in Writers |-> "idle"] /\ tl = [w \in Writers |-> None]
    /\ data = None /\ timer_initd = FALSE /\ ntimers = 0
    /\ len = 0 /\ sum = [w \in Writers |-> 0] /\ printed = 0 /\ writes = 0

OwnBlocks == {Own[i] : i \in DOMAIN Own}

-----------------------------------------------------------------------------
(* Loading. *)

Load(blocks, started, dev) ==
    /\ module = "out" /\ module' = "live"
    /\ allocated' = blocks /\ armed' = started /\ device' = dev
    /\ UNCHANGED <<lab, del, twice, writeVars, fun, ntimers, printed>>

\* atomic_set(&ntimers, 0); my_generic_init()
MultiInit == lab \in {"multi", "multiold"} /\ Load({}, {}, TRUE)

ResolutionInit == lab = "resolution" /\ Load({}, {}, TRUE)

OnetimerInit == lab = "onetimer" /\ Load({First}, {}, TRUE)

\* kmalloc, timer_setup, add_timer
PeriodicInit == lab = "periodic" /\ Load({First}, {First}, FALSE)

PeriodicsInit ==
    lab = "periodics" /\ Load({First, Second}, {First, Second}, FALSE)

HrexampInit == lab = "hrexamp" /\ Load({First}, {First}, FALSE)

\* One array, a round of the loop for each timer.
HrtimerInit == lab = "hrtimer" /\ Load({First, Second}, {First, Second}, FALSE)

MytaskletInit == lab = "mytasklet" /\ Load({First}, {First}, FALSE)

ItemInit == lab \in {"tasklet", "shared", "private"} /\ Load({First}, {}, TRUE)

MyInit ==
    \/ MultiInit \/ ResolutionInit \/ OnetimerInit \/ PeriodicInit
    \/ PeriodicsInit \/ HrexampInit \/ HrtimerInit \/ MytaskletInit \/ ItemInit

-----------------------------------------------------------------------------
(* write().  The process has the device open from its first step to its    *)
(* last.                                                                   *)

WriteTo(w, from, to) == wr[w] = from /\ wr' = [wr EXCEPT ![w] = to]

FirstStep ==
    CASE lab \in {"multi", "multiold"} -> "inc"
      [] lab = "resolution" -> "kmalloc"
      [] lab = "onetimer" -> "setup"
      [] OTHER -> "add"

Writing == {w \in Writers : wr[w] # "idle"}

WriteEnter(w) ==
    /\ module = "live" /\ device
    /\ writes + Cardinality(Writing) < MaxWrites
    /\ lab \in OneWriter \cup OneTimer => Writing = {}
    /\ lab \in OneTimer => armed = {}
    /\ WriteTo(w, "idle", FirstStep)
    /\ UNCHANGED <<moduleVars, timerVars, fun, ntimers, printed>>
    /\ UNCHANGED <<tl, data, timer_initd, len, sum, writes>>

AtomicInc(w) ==
    /\ WriteTo(w, "inc", "kmalloc")
    /\ ntimers' = ntimers + 1
    /\ UNCHANGED <<moduleVars, timerVars, fun, printed>>
    /\ UNCHANGED <<tl, data, timer_initd, len, sum, writes>>

\* A block whose last function is still on its way out is another one here.
KmallocData(w) ==
    /\ WriteTo(w, "kmalloc", "setup")
    /\ \E b \in {c \in Blocks \ allocated : fun[c] = "idle"} :
          /\ allocated' = allocated \cup {b}
          /\ IF lab = "multiold"
             THEN tl' = [tl EXCEPT ![w] = b] /\ UNCHANGED data
             ELSE data' = b /\ UNCHANGED tl
    /\ UNCHANGED <<moduleVars, armed, twice, fun, ntimers, printed>>
    /\ UNCHANGED <<timer_initd, len, sum, writes>>

\* tl = &data->timer; expires and timer_setup, which makes it a new timer.
TimerSetup(w) ==
    /\ WriteTo(w, "setup", "add")
    /\ tl' = [tl EXCEPT ![w] = CASE lab = "multiold" -> @
                                 [] lab = "onetimer" -> First
                                 [] OTHER -> data]
    /\ UNCHANGED <<moduleVars, timerVars, fun, ntimers, printed>>
    /\ UNCHANGED <<data, timer_initd, len, sum, writes>>

\* add_timer(tl); timer_initd = 1
AddTimer(w) ==
    /\ lab \notin Items /\ WriteTo(w, "add", "return")
    /\ armed' = armed \cup {tl[w]}
    /\ twice' = twice \cup ({tl[w]} \cap armed)
    /\ timer_initd' = TRUE /\ writes' = writes + 1
    /\ UNCHANGED <<moduleVars, allocated, fun, ntimers, printed, tl, data>>
    /\ UNCHANGED <<len, sum>>

\* Mutant: not while the function runs.
ScheduleUnlessRunning(w) ==
    /\ lab \in Items /\ WriteTo(w, "add", "len")
    /\ armed' = IF fun[First] = "idle" THEN armed \cup {First} ELSE armed
    /\ writes' = writes + 1
    /\ UNCHANGED <<moduleVars, allocated, twice, fun, ntimers, printed, tl>>
    /\ UNCHANGED <<data, timer_initd, len, sum>>

\* tasklet_schedule, schedule_work, queue_work: nothing if it is scheduled.
Schedule(w) ==
    /\ lab \in Items /\ WriteTo(w, "add", "len")
    /\ armed' = armed \cup {First}
    /\ writes' = writes + 1
    /\ UNCHANGED <<moduleVars, allocated, twice, fun, ntimers, printed, tl>>
    /\ UNCHANGED <<data, timer_initd, len, sum>>

\* atomic_add(100, &data->len), when the item may have run already.
AddLen(w) ==
    /\ lab # "tasklet" /\ WriteTo(w, "len", "return")
    /\ len' = len + 1
    /\ UNCHANGED <<moduleVars, timerVars, fun, ntimers, printed>>
    /\ UNCHANGED <<tl, data, timer_initd, sum, writes>>

\* t_data.len += 100, an int that processes share.
LoadLen(w) ==
    /\ lab = "tasklet" /\ WriteTo(w, "len", "store")
    /\ sum' = [sum EXCEPT ![w] = len + 1]
    /\ UNCHANGED <<moduleVars, timerVars, fun, ntimers, printed>>
    /\ UNCHANGED <<tl, data, timer_initd, len, writes>>

StoreLen(w) ==
    /\ WriteTo(w, "store", "return")
    /\ len' = sum[w] /\ sum' = [sum EXCEPT ![w] = 0]
    /\ UNCHANGED <<moduleVars, timerVars, fun, ntimers, printed>>
    /\ UNCHANGED <<tl, data, timer_initd, writes>>

WriteReturn(w) ==
    /\ WriteTo(w, "return", "idle")
    /\ tl' = [tl EXCEPT ![w] = None]
    /\ UNCHANGED <<moduleVars, timerVars, fun, ntimers, printed>>
    /\ UNCHANGED <<data, timer_initd, len, sum, writes>>

Write(w) ==
    \/ AtomicInc(w) \/ KmallocData(w) \/ TimerSetup(w) \/ AddTimer(w)
    \/ Schedule(w) \/ AddLen(w) \/ LoadLen(w) \/ StoreLen(w) \/ WriteReturn(w)

-----------------------------------------------------------------------------
(* The function: called by the timer or tasklet softirq or by a worker,    *)
(* with the item no longer pending, and not again before it has returned.  *)

FunTo(b, from, to) == fun[b] = from /\ fun' = [fun EXCEPT ![b] = to]

Call(b) ==
    /\ b \in armed /\ FunTo(b, "idle", "entered")
    /\ armed' = armed \ {b}
    /\ UNCHANGED <<moduleVars, allocated, twice, writeVars, ntimers, printed>>

\* Mutant: it counts itself out and leaves the memory to nobody.
KtFunNoFree(b) ==
    /\ lab \in {"multi", "multiold"} /\ FunTo(b, "entered", "freed")
    /\ UNCHANGED <<moduleVars, timerVars, writeVars, ntimers, printed>>

\* Prints what was passed to it, kfree(tdata).
KtFunFree(b) ==
    /\ lab \in {"multi", "multiold"} /\ FunTo(b, "entered", "freed")
    /\ allocated' = allocated \ {b}
    /\ UNCHANGED <<moduleVars, armed, twice, writeVars, ntimers, printed>>

\* Mutant: it does not count itself out.
KtFunNoDec(b) ==
    /\ FunTo(b, "freed", "return")
    /\ UNCHANGED <<moduleVars, timerVars, writeVars, ntimers, printed>>

KtFunDec(b) ==
    /\ FunTo(b, "freed", "return")
    /\ ntimers' = ntimers - 1
    /\ UNCHANGED <<moduleVars, timerVars, writeVars, printed>>

\* mod_timer: it starts itself again, before it has returned.
ModTimer(b) ==
    /\ lab \in Periodic /\ FunTo(b, "entered", "return")
    /\ armed' = armed \cup {b}
    /\ UNCHANGED <<moduleVars, allocated, twice, writeVars, ntimers, printed>>

\* HRTIMER_RESTART: it is started again as it returns.
HrtimerRestart(b) ==
    /\ lab \in Hrtimers /\ FunTo(b, "entered", "idle")
    /\ armed' = armed \cup {b}
    /\ UNCHANGED <<moduleVars, allocated, twice, writeVars, ntimers, printed>>

\* The others print, those with an item the data that write() adds to.
FunPrint(b) ==
    /\ lab \in Items \cup {"resolution", "onetimer"}
    /\ FunTo(b, "entered", "return")
    /\ printed' = IF lab \in Items THEN len ELSE printed
    /\ UNCHANGED <<moduleVars, timerVars, writeVars, ntimers>>

FunReturn(b) ==
    /\ FunTo(b, "return", "idle")
    /\ UNCHANGED <<moduleVars, timerVars, writeVars, ntimers, printed>>

Fun(b) ==
    \/ KtFunFree(b) \/ KtFunDec(b) \/ ModTimer(b) \/ HrtimerRestart(b)
    \/ FunPrint(b) \/ FunReturn(b)

-----------------------------------------------------------------------------
(* my_exit *)

ExitTo(from, to) ==
    module = from /\ module' = to

\* Where my_exit begins; resolution_timer_driver.c deletes the last timer, or
\* unregisters its device.
FirstOfExit ==
    CASE lab \in {"multi", "multiold"} -> "poll"
      [] lab = "private" -> "destroy"
      [] lab \in Periodic \cup Hrtimers -> "delete"
      [] lab \in {"resolution", "onetimer"} ->
            IF timer_initd THEN "delete" ELSE "generic"
      [] lab = "mytasklet" -> "gone"
      [] OTHER -> "generic"

Rmmod ==
    /\ Writing = {} /\ ExitTo("live", FirstOfExit)
    /\ del' = IF lab = "resolution" THEN <<data>> ELSE Own
    /\ UNCHANGED <<lab, device, timerVars, writeVars, fun, ntimers, printed>>

\* while (atomic_read(&ntimers)) msleep(1000);
PollNtimers ==
    /\ ntimers = 0 /\ ExitTo("poll", "generic")
    /\ UNCHANGED <<lab, device, del, timerVars, writeVars, fun, ntimers>>
    /\ UNCHANGED printed

AfterDelete ==
    IF Len(del) > 1 THEN "delete"
    ELSE IF lab = "onetimer" THEN "generic" ELSE "kfree"

\* Mutant: del_timer, which does not wait for the function.
DelTimer ==
    /\ ExitTo("delete", AfterDelete)
    /\ armed' = armed \ {Head(del)}
    /\ del' = Tail(del)
    /\ UNCHANGED <<lab, device, allocated, twice, writeVars, fun, ntimers>>
    /\ UNCHANGED printed

\* del_timer_sync, hrtimer_cancel: it tries until the function is not running.
DelTimerSync ==
    /\ ExitTo("delete", AfterDelete) /\ fun[Head(del)] = "idle"
    /\ armed' = armed \ {Head(del)}
    /\ del' = Tail(del)
    /\ UNCHANGED <<lab, device, allocated, twice, writeVars, fun, ntimers>>
    /\ UNCHANGED printed

\* resolution_timer_driver.c frees the one and is through.
KfreeData ==
    /\ ExitTo("kfree", "gone")
    /\ allocated' = allocated \ (IF lab = "resolution" THEN {data}
                                 ELSE OwnBlocks)
    /\ UNCHANGED <<lab, device, del, armed, twice, writeVars, fun, ntimers>>
    /\ UNCHANGED printed

\* destroy_workqueue runs what is queued and waits for it.
DestroyWorkqueue ==
    /\ armed = {} /\ fun[First] = "idle" /\ ExitTo("destroy", "generic")
    /\ UNCHANGED <<lab, device, del, timerVars, writeVars, fun, ntimers>>
    /\ UNCHANGED printed

MyGenericExit ==
    /\ ExitTo("generic", "gone") /\ device' = FALSE
    /\ UNCHANGED <<lab, del, timerVars, writeVars, fun, ntimers, printed>>

MyExit ==
    \/ PollNtimers \/ DelTimerSync \/ KfreeData \/ DestroyWorkqueue
    \/ MyGenericExit

-----------------------------------------------------------------------------

Next ==
    \/ MyInit \/ Rmmod \/ MyExit
    \/ \E w \in Writers : WriteEnter(w) \/ Write(w)
    \/ \E b \in Blocks : Call(b) \/ Fun(b)

\* A write() goes on, timers expire, what is scheduled is called and returns.
\* del_timer_sync tries all the time, the periodic functions run now and then.
Fairness ==
    /\ \A w \in Writers : WF_vars(Write(w))
    /\ \A b \in Blocks : WF_vars(Call(b)) /\ WF_vars(Fun(b))
    /\ WF_vars(PollNtimers \/ KfreeData \/ DestroyWorkqueue \/ MyGenericExit)
    /\ SF_vars(DelTimerSync)

Spec == Init /\ [][Next]_vars /\ Fairness

-----------------------------------------------------------------------------
(* Properties *)

\* Whoever frees a block, the function itself, my_exit or nobody: no timer is
\* pending in freed memory and no function is given any.  And the labs that
\* delete their timers or their queue are quiet when they are gone, although
\* functions start themselves again while they are being deleted.
QuietWhenGone ==
    /\ \A b \in Blocks : b \in armed \/ fun[b] = "entered" => b \in allocated
    /\ module = "gone"
            /\ lab \in Periodic \cup Hrtimers \cup {"onetimer", "private"}
        => armed = {} /\ \A b \in Blocks : fun[b] = "idle"

\* add_timer is for timers that are not pending, it is a BUG otherwise: two
\* processes that write at a time must not set up and add the same timer.  The
\* global data of lab_multitimer.c and resolution_timer_driver.c does not
\* keep them apart (hence OneWriter); the locals of the old lab do.
\* (Deferred_TwoWriters.cfg)
NoTimerTwice == twice = {}

\* lab_multitimer.c, "to avoid unloading while there are still timers": the
\* count is of the writes and functions under way, those between kfree and
\* atomic_dec included, so that rmmod leaves no timer and no memory.  (It may
\* leave a function that has counted itself out and not returned.)
TimersCountedOut ==
    lab \in {"multi", "multiold"} =>
        /\ ntimers = Cardinality({w \in Writers :
                                    wr[w] \in {"kmalloc", "setup", "add"}})
                   + Cardinality({b \in Blocks :
                                    b \in armed \/ fun[b] = "entered"})
                   + Cardinality({b \in Blocks : fun[b] = "freed"})
        /\ module \in {"generic", "gone"} => armed = {} /\ allocated = {}

\* Scheduling what is scheduled does nothing, and scheduling what runs does;
\* the data is changed after the scheduling.  So the call that is last, when
\* nothing is scheduled any more, may print too little, but what it misses is
\* at most one addition of each process, that of the write() still to make it,
\* however many writes one call stood for.  (t_data.len += 100 of lab_tasklet.c
\* is not atomic and may lose more.)
LastCallIsRecent ==
    lab \in {"shared", "private"} /\ armed = {} /\ fun[First] # "entered"
        => printed + Cardinality(Writers) >= writes

\* rmmod ends, whatever is pending or running when it begins.
RmmodEnds ==
    module \in {"poll", "delete", "destroy"} ~> module = "gone"

\* "delete any running timers" (resolution_timer_driver.c:82)
RunningTimersDeleted == module = "gone" => armed = {}
=============================================================================
