---------------------------- MODULE SleepingRead ----------------------------
(***************************************************************************)
(* chapter_22_sleeping_and_wait_queues: "Have the read() function go to    *)
(* sleep until woken by a write() function."  The seven solutions:         *)
(*                                                                         *)
(*   "wait_event"  lab_wait_event.c  a flag and a wait queue               *)
(*   "killable"    lab_killable.c    the same, sleeping in                 *)
(*                                   wait_event_killable                   *)
(*   "poll"        lab_poll.c        the same with a poll entry point; the *)
(*                                   pollers are lab_poll_test.c           *)
(*   "excl"        lab_excl.c        exclusive sleepers, who count         *)
(*                                   themselves; the last one to leave     *)
(*                                   clears the flag under a spin lock     *)
(*   "complete"    lab_complete.c    a completion                          *)
(*   "semaphore"   lab_semaphore.c   a semaphore, taken by my_init         *)
(*   "mutex"       lab_mutex.c       a mutex, taken by my_init             *)
(*                                                                         *)
(* In the last three read() takes the object and never gives it back, and  *)
(* write() gives it.                                                       *)
(*                                                                         *)
(* A sleeper is on the wait queue before it tests the condition, so that a *)
(* wake-up between the test and the sleep is kept.  Ramdisk contents are   *)
(* abstracted to the number of the write they are from.                    *)
(***************************************************************************)
EXTENDS Integers, FiniteSets

CONSTANTS
    Labs,       \* the labs a run is about
    Procs,      \* processes that read
    Pollers,    \* those of them that poll first, in the "poll" lab
    Writers,    \* processes that write
    MaxWrites   \* bound: writes during a run

FlagLabs == {"wait_event", "killable", "poll", "excl"}
ObjectLabs == {"complete", "semaphore", "mutex"}

ASSUME ConstantsAssumption ==
    /\ Labs \subseteq FlagLabs \cup ObjectLabs
    /\ IsFiniteSet(Procs) /\ Pollers \subseteq Procs
    /\ MaxWrites \in Nat

VARIABLES
    lab,        \* the lab that is loaded
    module,     \* "loading", "failed" or "live"
    data_ready, \* the flag of the wait condition
    nsleepers,  \* "excl": readers between their entry and their leaving
    lock,       \* "excl", nsleepers_lock: the readers that hold it
    count,      \* what the object has to give: a completion's done, a
                \* semaphore's count, 1 for an unlocked mutex
    ramdisk,    \* number of the last write
    pc,         \* where each reading or polling process is
    woken,      \* processes woken since they queued themselves
    wr,         \* where each writing process is
    given,      \* not in the code: writes that have given the object
    passed,     \* not in the code: readers let through ("excl": not counted)
    seen        \* not in the code: latest write that was read

vars == <<lab, module, data_ready, nsleepers, lock, count, ramdisk, pc, woken,
          wr, given, passed, seen>>

TypeOK ==
    /\ lab \in Labs /\ module \in {"loading", "failed", "live"}
    /\ data_ready \in {0, 1}
    /\ nsleepers \in 0..Cardinality(Procs) /\ lock \subseteq Procs
    /\ count \in 0..(IF lab = "mutex" THEN 1 ELSE MaxWrites + 1)
    /\ ramdisk \in 0..MaxWrites /\ seen \in 0..ramdisk
    /\ pc \in [Procs -> {"idle", "queue", "test", "asleep", "clear", "copy",
                         "lock", "dec", "unlock", "take",
                         "poll_wait", "poll_test", "poll_asleep", "poll_last"}]
    /\ woken \subseteq Procs
    /\ wr \in [Writers -> {"idle", "first", "second"}]
    /\ given \in 0..MaxWrites
    /\ passed \in 0..(MaxWrites * Cardinality(Procs))

Init ==
    /\ lab \in Labs /\ module = "loading"
    /\ data_ready = 0 /\ nsleepers = 0 /\ lock = {} /\ ramdisk = 0
    /\ count = IF lab \in {"semaphore", "mutex"} THEN 1 ELSE 0
    /\ pc = [p \in Procs |-> "idle"] /\ woken = {}
    /\ wr = [w \in Writers |-> "idle"]
    /\ given = 0 /\ passed = 0 /\ seen = 0

Goto(p, l) == pc' = [pc EXCEPT ![p] = l]

-----------------------------------------------------------------------------
(* my_init, up to and with my_generic_init, which may fail. *)

LoadVars == <<lab, lock, ramdisk, pc, woken, wr, given, passed, seen>>

\* The flag labs and the completion.
InitFlag ==
    /\ module = "loading" /\ lab \notin {"semaphore", "mutex"}
    /\ data_ready' = 0 /\ nsleepers' = 0
    /\ module' \in {"live", "failed"}
    /\ UNCHANGED count /\ UNCHANGED LoadVars

\* Mutant: the object is left free.
GrabNothing ==
    /\ module = "loading" /\ lab \in {"semaphore", "mutex"}
    /\ module' \in {"live", "failed"}
    /\ UNCHANGED <<data_ready, nsleepers, count>> /\ UNCHANGED LoadVars

\* "grab the lock so the readers will block"; a signal can end the attempt.
GrabLock ==
    /\ module = "loading" /\ lab \in {"semaphore", "mutex"}
    /\ \/ count' = 0 /\ module' \in {"live", "failed"}
       \/ module' = "failed" /\ UNCHANGED count
    /\ UNCHANGED <<data_ready, nsleepers>> /\ UNCHANGED LoadVars

-----------------------------------------------------------------------------
(* mycdrv_read of process p. *)

ReadVars == <<lab, module, ramdisk, wr, given>>

\* An exclusive sleeper counts itself in.
ReadEnter(p) ==
    /\ module = "live" /\ pc[p] = "idle"
    /\ lab = "poll" => p \notin Pollers
    /\ nsleepers' = IF lab = "excl" THEN nsleepers + 1 ELSE nsleepers
    /\ Goto(p, IF lab \in ObjectLabs THEN "take" ELSE "queue")
    /\ UNCHANGED <<data_ready, lock, count, woken, passed, seen>>
    /\ UNCHANGED ReadVars

SleepVars == <<data_ready, nsleepers, lock, count, seen>>

\* wait_event: onto the queue, test, sleep.
ReadQueue(p) ==
    /\ pc[p] = "queue"
    /\ woken' = woken \ {p}
    /\ Goto(p, "test")
    /\ UNCHANGED passed /\ UNCHANGED SleepVars /\ UNCHANGED ReadVars

LeaveSleep(p) == Goto(p, IF lab = "excl" THEN "lock" ELSE "clear")

ReadTest(p) ==
    /\ pc[p] = "test"
    /\ \/ /\ data_ready = 1
          /\ LeaveSleep(p)
          /\ passed' = IF lab = "excl" THEN passed ELSE passed + 1
       \/ data_ready = 0 /\ Goto(p, "asleep") /\ UNCHANGED passed
    /\ UNCHANGED woken /\ UNCHANGED SleepVars /\ UNCHANGED ReadVars

ReadWoken(p) ==
    /\ pc[p] = "asleep" /\ p \in woken
    /\ Goto(p, "queue")
    /\ UNCHANGED <<woken, passed>> /\ UNCHANGED SleepVars
    /\ UNCHANGED ReadVars

\* Mutant: a signalled reader returns at once.
ReadSignalReturn(p) ==
    /\ pc[p] = "asleep"
    /\ Goto(p, "idle")
    /\ UNCHANGED <<woken, passed>> /\ UNCHANGED SleepVars
    /\ UNCHANGED ReadVars

\* A signal (a fatal one, for "killable") ends the sleep; the return value is
\* ignored, and the read goes on as if there were data.
ReadSignal(p) ==
    /\ pc[p] = "asleep"
    /\ LeaveSleep(p)
    /\ UNCHANGED <<woken, passed>> /\ UNCHANGED SleepVars
    /\ UNCHANGED ReadVars

\* Mutant: the flag is cleared and the data left unread.
ReadClearAndReturn(p) ==
    /\ pc[p] = "clear"
    /\ data_ready' = 0
    /\ Goto(p, IF lab = "excl" THEN "unlock" ELSE "idle")
    /\ UNCHANGED <<nsleepers, lock, count, woken, passed, seen>>
    /\ UNCHANGED ReadVars

ReadClear(p) ==
    /\ pc[p] = "clear"
    /\ data_ready' = 0
    /\ Goto(p, IF lab = "excl" THEN "unlock" ELSE "copy")
    /\ UNCHANGED <<nsleepers, lock, count, woken, passed, seen>>
    /\ UNCHANGED ReadVars

\* "excl": spin_lock, atomic_dec_and_test, (ReadClear,) spin_unlock.
SpinLock(p) ==
    /\ pc[p] = "lock" /\ lock = {}
    /\ lock' = {p}
    /\ Goto(p, "dec")
    /\ UNCHANGED <<data_ready, nsleepers, count, woken, passed, seen>>
    /\ UNCHANGED ReadVars

DecAndTest(p) ==
    /\ pc[p] = "dec"
    /\ nsleepers' = nsleepers - 1
    /\ Goto(p, IF nsleepers' = 0 THEN "clear" ELSE "unlock")
    /\ UNCHANGED <<data_ready, lock, count, woken, passed, seen>>
    /\ UNCHANGED ReadVars

SpinUnlock(p) ==
    /\ pc[p] = "unlock"
    /\ lock' = lock \ {p}
    /\ Goto(p, "copy")
    /\ UNCHANGED <<data_ready, nsleepers, count, woken, passed, seen>>
    /\ UNCHANGED ReadVars

\* wait_for_completion, down_interruptible, mutex_lock_interruptible.
Take(p) ==
    /\ pc[p] = "take" /\ count > 0
    /\ count' = count - 1 /\ passed' = passed + 1
    /\ Goto(p, "copy")
    /\ UNCHANGED <<data_ready, nsleepers, lock, woken, seen>>
    /\ UNCHANGED ReadVars

\* A signal: -ERESTARTSYS or -EBUSY.  A completion is waited for regardless.
Interrupted(p) ==
    /\ pc[p] = "take" /\ count = 0 /\ lab # "complete"
    /\ Goto(p, "idle")
    /\ UNCHANGED <<woken, passed>> /\ UNCHANGED SleepVars
    /\ UNCHANGED ReadVars

\* mycdrv_generic_read
ReadCopy(p) ==
    /\ pc[p] = "copy"
    /\ seen' = ramdisk
    /\ Goto(p, "idle")
    /\ UNCHANGED <<data_ready, nsleepers, lock, count, woken, passed>>
    /\ UNCHANGED ReadVars

Read(p) ==
    \/ ReadQueue(p) \/ ReadTest(p) \/ ReadWoken(p) \/ ReadClear(p)
    \/ SpinLock(p) \/ DecAndTest(p) \/ SpinUnlock(p) \/ ReadCopy(p)

-----------------------------------------------------------------------------
(* mycdrv_poll of process p, called by lab_poll_test.c in a loop. *)

PollVars == <<passed, SleepVars, ReadVars>>

PollEnter(p) ==
    /\ module = "live" /\ pc[p] = "idle" /\ lab = "poll" /\ p \in Pollers
    /\ Goto(p, "poll_wait")
    /\ UNCHANGED woken /\ UNCHANGED PollVars

\* poll_wait puts p on wq.
PollWait(p) ==
    /\ pc[p] = "poll_wait"
    /\ woken' = woken \ {p}
    /\ Goto(p, "poll_test")
    /\ UNCHANGED PollVars

PollTest(p) ==
    /\ pc[p] = "poll_test"
    /\ Goto(p, IF data_ready = 1 THEN "queue" ELSE "poll_asleep")
    /\ UNCHANGED woken /\ UNCHANGED PollVars

PollWoken(p) ==
    /\ pc[p] = "poll_asleep" /\ p \in woken
    /\ woken' = woken \ {p}
    /\ Goto(p, "poll_test")
    /\ UNCHANGED PollVars

\* The timeout of ten seconds; the driver is asked once more.
PollTimeout(p) ==
    /\ pc[p] = "poll_asleep"
    /\ Goto(p, "poll_last")
    /\ UNCHANGED woken /\ UNCHANGED PollVars

\* Mutant: a timeout is returned without asking the driver again.
PollGiveUp(p) ==
    /\ pc[p] = "poll_last"
    /\ Goto(p, "idle")
    /\ UNCHANGED woken /\ UNCHANGED PollVars

PollLast(p) ==
    /\ pc[p] = "poll_last"
    /\ Goto(p, IF data_ready = 1 THEN "queue" ELSE "idle")
    /\ UNCHANGED woken /\ UNCHANGED PollVars

Poll(p) ==
    \/ PollWait(p) \/ PollTest(p) \/ PollWoken(p) \/ PollTimeout(p)
    \/ PollLast(p)

-----------------------------------------------------------------------------
(* mycdrv_write of process w: the data, and then two more steps. *)

\* mycdrv_generic_write
WriteCopy(w) ==
    /\ module = "live" /\ wr[w] = "idle" /\ ramdisk < MaxWrites
    /\ ramdisk' = ramdisk + 1
    /\ wr' = [wr EXCEPT ![w] = "first"]
    /\ UNCHANGED <<lab, module, pc, woken, given, passed>>
    /\ UNCHANGED SleepVars

WriteVars == <<lab, module, nsleepers, lock, ramdisk, pc, passed, seen>>

SetReady == data_ready' = 1 /\ UNCHANGED <<woken, count, given>>

Sleeping == {p \in Procs : pc[p] \in {"test", "asleep"}}
Polling == {p \in Procs : pc[p] \in {"poll_test", "poll_asleep"}}

\* Mutants: a wake-up that reaches one sleeper, and none.
WakeUpOne ==
    /\ \/ \E p \in Sleeping \cup Polling : woken' = woken \cup {p}
       \/ Sleeping \cup Polling = {} /\ UNCHANGED woken
    /\ UNCHANGED <<data_ready, count, given>>

WakeUpNobody == UNCHANGED <<data_ready, woken, count, given>>

\* wake_up_interruptible: every sleeper and poller, or one of the exclusive
\* sleepers; a killable sleeper is not its to wake.
WakeUp ==
    /\ CASE lab = "excl" ->
              IF Sleeping \subseteq woken THEN UNCHANGED woken
              ELSE \E p \in Sleeping \ woken : woken' = woken \cup {p}
         [] lab = "killable" -> woken' = woken \cup Polling
         [] OTHER -> woken' = woken \cup Sleeping \cup Polling
    /\ UNCHANGED <<data_ready, count, given>>

\* complete, up, mutex_unlock; a mutex unlocked twice is unlocked once.
Give ==
    /\ count' = IF lab = "mutex" THEN 1 ELSE count + 1
    /\ given' = given + 1
    /\ UNCHANGED <<data_ready, woken>>

\* lab_poll.c and lab_excl.c wake before they set the flag, the latter two
\* seconds before.  A delay is no synchronisation.
WakesFirst == lab \in {"poll", "excl"}

WriteFirst(w) ==
    /\ wr[w] = "first" /\ lab \in FlagLabs
    /\ IF WakesFirst THEN WakeUp ELSE SetReady
    /\ wr' = [wr EXCEPT ![w] = "second"]
    /\ UNCHANGED WriteVars

WriteSecond(w) ==
    /\ wr[w] = "second"
    /\ IF WakesFirst THEN SetReady ELSE WakeUp
    /\ wr' = [wr EXCEPT ![w] = "idle"]
    /\ UNCHANGED WriteVars

WriteGive(w) ==
    /\ wr[w] = "first" /\ lab \in ObjectLabs
    /\ Give
    /\ wr' = [wr EXCEPT ![w] = "idle"]
    /\ UNCHANGED WriteVars

-----------------------------------------------------------------------------

Next ==
    \/ InitFlag \/ GrabLock
    \/ \E p \in Procs :
          \/ ReadEnter(p) \/ Read(p) \/ ReadSignal(p)
          \/ Take(p) \/ Interrupted(p)
          \/ PollEnter(p) \/ Poll(p)
    \/ \E w \in Writers :
          WriteCopy(w) \/ WriteFirst(w) \/ WriteSecond(w) \/ WriteGive(w)

\* A system call that is not blocked goes on, the object is handed to one of
\* those who wait for it, and a poll times out.  Nobody has to read or to
\* write, and no signal has to come.
Fairness ==
    /\ \A p \in Procs : WF_vars(Read(p)) /\ WF_vars(Poll(p))
    /\ WF_vars(\E p \in Procs : Take(p))
    /\ \A w \in Writers :
           WF_vars(WriteFirst(w) \/ WriteSecond(w) \/ WriteGive(w))

Spec == Init /\ [][Next]_vars /\ Fairness

-----------------------------------------------------------------------------
(* Properties. *)

WritesOver == \A w \in Writers : wr[w] = "idle"

\* In none of the labs is a write missed although the flag is cleared, or the
\* object taken, before the ramdisk is read, and by readers that a signal has
\* let through: with nothing left to let a reader through and nobody on the
\* way from there to the data, the last write was read.
LastWriteIsRead ==
    /\ module = "live" /\ data_ready = 0 /\ count = 0 /\ WritesOver
    /\ \A p \in Procs : pc[p] \notin {"unlock", "copy"}
    => seen = ramdisk

\* read() sleeps "until woken by a write() function" (lab_wait_event.c:20):
\* with data_ready set and every write over, each sleeper has been woken.
SleepersAreWoken ==
    data_ready = 1 /\ WritesOver =>
        \A p \in Procs : pc[p] = "asleep" => p \in woken

\* It is so in lab_wait_event.c, where the flag is set before the wake-up.
SetThenWake == lab = "wait_event" => SleepersAreWoken

\* Readers of lab_excl.c that have entered and not left.
Inside == {p \in Procs : pc[p] \in {"queue", "test", "asleep", "lock", "dec"}}

\* nsleepers is right whatever ends a reader's sleep, a signal included: it
\* counts those who have not left, so that data_ready is not kept up for
\* nobody; and nobody leaves between another's decrement and its clearing.
SleepersCounted ==
    lab = "excl" =>
        /\ nsleepers = Cardinality(Inside)
        /\ \A p \in Procs : pc[p] \in {"dec", "clear", "unlock"} => lock = {p}

\* One write lets one reader through.  The completion and the semaphore
\* remember every write that nobody was waiting for, the mutex one of them.
OneReaderPerWrite ==
    module = "live" /\ lab \in ObjectLabs =>
        IF lab = "mutex" THEN count <= given - passed
        ELSE count = given - passed

\* A sleeper that finds the flag set, or the object free, is let through
\* unless others take its place.
SleeperGoesOn ==
    /\ \A p \in Procs :
           (lab = "wait_event" /\ pc[p] = "asleep" /\ data_ready = 1)
               ~> (pc[p] # "asleep" \/ data_ready = 0)
    /\ (count > 0 /\ \E p \in Procs : pc[p] = "take")
           ~> (count = 0 \/ \A p \in Procs : pc[p] # "take")

\* Whoever polls learns of the data, or somebody else takes it: what the
\* order in lab_poll.c's write loses, the timeout brings back.
PollerLearns ==
    \A p \in Pollers :
        (pc[p] = "poll_asleep" /\ data_ready = 1)
            ~> (pc[p] = "queue" \/ data_ready = 0)

\* "1 sleeper wakes up solution" (lab_wait_event.c:16): as many sleeps are
\* ended by the condition as writes have set it, at most.
OneSleeperPerWrite ==
    passed + Cardinality({w \in Writers : wr[w] = "first"}) <= ramdisk

=============================================================================
