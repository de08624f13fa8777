------------------------------ MODULE UioRead -------------------------------
(***************************************************************************)
(* chapter_23_deferrable_functions/lab_uio.c: user space handles an        *)
(* interrupt by reading the number of events since the last read.  The     *)
(* handler counts into nevents and wakes the readers; read() sleeps until  *)
(* nevents is positive, takes its value and subtracts it; poll() tells     *)
(* whether it is positive.                                                 *)
(***************************************************************************)
EXTENDS Integers

CONSTANTS
    Readers,    \* processes that poll and read
    MaxIrqs     \* bound: interrupts delivered during a run

ASSUME MaxIrqsAssumption == MaxIrqs \in Nat

VARIABLES
    module,     \* next step of my_init or my_exit
    handler,    \* my_interrupt is on the line
    nevents,    \* events to report
    isr,        \* next operation of my_interrupt, "idle" outside it
    pc,         \* where each reader is
    nev,        \* the local variable of each mycdrv_read
    woken,      \* readers woken since they queued themselves on wq
    raised,     \* not in the code: interrupts counted since my_init's reset
    reported,   \* not in the code: sum of the counts given to user space
    faulted     \* not in the code: sum of the counts lost to copy_to_user

vars == <<module, handler, nevents, isr, pc, nev, woken, raised, reported,
          faulted>>

TypeOK ==
    /\ module \in {"request_irq", "reset", "register", "failed", "live",
                   "free_irq", "gone"}
    /\ handler \in BOOLEAN
    /\ nevents \in 0..MaxIrqs
    /\ isr \in {"idle", "wake_up"}
    /\ pc \in [Readers -> {"idle", "poll_wait", "poll_test", "poll_asleep",
                           "queue", "test", "asleep", "signal", "read", "sub",
                           "copy"}]
    /\ nev \in [Readers -> 0..MaxIrqs]
    /\ woken \subseteq Readers
    /\ {raised, reported, faulted} \subseteq 0..MaxIrqs

Init ==
    /\ module = "request_irq" /\ handler = FALSE
    /\ nevents = 0 /\ isr = "idle"
    /\ pc = [r \in Readers |-> "idle"] /\ nev = [r \in Readers |-> 0]
    /\ woken = {}
    /\ raised = 0 /\ reported = 0 /\ faulted = 0

-----------------------------------------------------------------------------
(* Loading and unloading. *)

LoadVars == <<isr, pc, nev, woken, reported, faulted>>

RequestIrq ==
    /\ module = "request_irq"
    /\ \/ module' = "reset" /\ handler' = TRUE
       \/ module' = "failed" /\ UNCHANGED handler
    /\ UNCHANGED <<nevents, raised>> /\ UNCHANGED LoadVars

\* The handler is on the line already when its count is reset.
ResetEvents ==
    /\ module = "reset"
    /\ nevents' = 0 /\ raised' = 0
    /\ module' = "register"
    /\ UNCHANGED handler /\ UNCHANGED LoadVars

\* my_generic_init, whose failure is returned as it is.
Register ==
    /\ module = "register"
    /\ module' \in {"live", "failed"}
    /\ UNCHANGED <<handler, nevents, raised>> /\ UNCHANGED LoadVars

\* my_exit, possible when no process has the device open.
FreeIrq ==
    /\ module = "live" /\ \A r \in Readers : pc[r] = "idle"
    /\ module' = "free_irq"
    /\ handler' = FALSE
    /\ UNCHANGED <<nevents, raised>> /\ UNCHANGED LoadVars

FreeIrqDone ==
    /\ module = "free_irq" /\ isr = "idle"
    /\ module' = "gone"
    /\ UNCHANGED <<handler, nevents, raised>> /\ UNCHANGED LoadVars

-----------------------------------------------------------------------------
(* my_interrupt *)

IsrVars == <<module, handler, pc, nev, reported, faulted>>

IsrCount ==
    /\ handler /\ isr = "idle" /\ raised < MaxIrqs
    /\ nevents' = nevents + 1 /\ raised' = raised + 1
    /\ isr' = "wake_up"
    /\ UNCHANGED woken /\ UNCHANGED IsrVars

\* Mutant: only the processes that sleep in read() are woken.
IsrWakeReaders ==
    /\ isr = "wake_up"
    /\ woken' = woken \cup { r \in Readers : pc[r] \in {"test", "asleep"} }
    /\ isr' = "idle"
    /\ UNCHANGED <<nevents, raised>> /\ UNCHANGED IsrVars

IsrWakeUp ==
    /\ isr = "wake_up"
    /\ woken' = woken \cup
           { r \in Readers :
               pc[r] \in {"test", "asleep", "poll_test", "poll_asleep"} }
    /\ isr' = "idle"
    /\ UNCHANGED <<nevents, raised>> /\ UNCHANGED IsrVars

-----------------------------------------------------------------------------
(* mycdrv_read of process r. *)

ReadVars == <<module, handler, isr, raised>>

Goto(r, l) == pc' = [pc EXCEPT ![r] = l]

ReadEnter(r) ==
    /\ module = "live" /\ pc[r] = "idle"
    /\ Goto(r, "queue")
    /\ UNCHANGED <<nevents, nev, woken, reported, faulted>>
    /\ UNCHANGED ReadVars

ReadQueue(r) ==
    /\ pc[r] = "queue"
    /\ woken' = woken \ {r}
    /\ Goto(r, "test")
    /\ UNCHANGED <<nevents, nev, reported, faulted>> /\ UNCHANGED ReadVars

ReadTest(r) ==
    /\ pc[r] = "test"
    /\ Goto(r, IF nevents > 0 THEN "signal" ELSE "asleep")
    /\ UNCHANGED <<nevents, nev, woken, reported, faulted>>
    /\ UNCHANGED ReadVars

ReadWoken(r) ==
    /\ pc[r] = "asleep" /\ r \in woken
    /\ Goto(r, "queue")
    /\ UNCHANGED <<nevents, nev, woken, reported, faulted>>
    /\ UNCHANGED ReadVars

\* A signal while asleep, or found pending afterwards: -ERESTARTSYS.
ReadSignal(r) ==
    /\ pc[r] \in {"asleep", "signal"}
    /\ Goto(r, "idle")
    /\ UNCHANGED <<nevents, nev, woken, reported, faulted>>
    /\ UNCHANGED ReadVars

ReadNoSignal(r) ==
    /\ pc[r] = "signal"
    /\ Goto(r, "read")
    /\ UNCHANGED <<nevents, nev, woken, reported, faulted>>
    /\ UNCHANGED ReadVars

\* nev = atomic_read(&nevents)
ReadEvents(r) ==
    /\ pc[r] = "read"
    /\ nev' = [nev EXCEPT ![r] = nevents]
    /\ Goto(r, "sub")
    /\ UNCHANGED <<nevents, woken, reported, faulted>> /\ UNCHANGED ReadVars

\* Mutant: the count is reset instead of reduced by what was read.
ReadReset(r) ==
    /\ pc[r] = "sub"
    /\ nevents' = 0
    /\ Goto(r, "copy")
    /\ UNCHANGED <<nev, woken, reported, faulted>> /\ UNCHANGED ReadVars

\* atomic_sub(nev, &nevents)
ReadSub(r) ==
    /\ pc[r] = "sub"
    /\ nevents' = nevents - nev[r]
    /\ Goto(r, "copy")
    /\ UNCHANGED <<nev, woken, reported, faulted>> /\ UNCHANGED ReadVars

\* The count is copied to user space, or is lost with -EIO.
ReadCopy(r) ==
    /\ pc[r] = "copy"
    /\ \/ reported' = reported + nev[r] /\ UNCHANGED faulted
       \/ faulted' = faulted + nev[r] /\ UNCHANGED reported
    /\ nev' = [nev EXCEPT ![r] = 0]
    /\ Goto(r, "idle")
    /\ UNCHANGED <<nevents, woken>> /\ UNCHANGED ReadVars

Read(r) ==
    \/ ReadQueue(r) \/ ReadTest(r) \/ ReadWoken(r) \/ ReadNoSignal(r)
    \/ ReadEvents(r) \/ ReadSub(r) \/ ReadCopy(r)

-----------------------------------------------------------------------------
(* mycdrv_poll of process r, which reads when it is told to. *)

PollVars == <<module, handler, isr, raised, nevents, nev, reported, faulted>>

PollEnter(r) ==
    /\ module = "live" /\ pc[r] = "idle"
    /\ Goto(r, "poll_wait")
    /\ UNCHANGED woken /\ UNCHANGED PollVars

PollWait(r) ==
    /\ pc[r] = "poll_wait"
    /\ woken' = woken \ {r}
    /\ Goto(r, "poll_test")
    /\ UNCHANGED PollVars

\* Mutant: one event is not enough.
PollTestOffByOne(r) ==
    /\ pc[r] = "poll_test"
    /\ Goto(r, IF nevents > 1 THEN "queue" ELSE "poll_asleep")
    /\ UNCHANGED woken /\ UNCHANGED PollVars

PollTest(r) ==
    /\ pc[r] = "poll_test"
    /\ Goto(r, IF nevents > 0 THEN "queue" ELSE "poll_asleep")
    /\ UNCHANGED woken /\ UNCHANGED PollVars

PollWoken(r) ==
    /\ pc[r] = "poll_asleep" /\ r \in woken
    /\ woken' = woken \ {r}
    /\ Goto(r, "poll_test")
    /\ UNCHANGED PollVars

Poll(r) == PollWait(r) \/ PollTest(r) \/ PollWoken(r)

-----------------------------------------------------------------------------

Next ==
    \/ RequestIrq \/ ResetEvents \/ Register \/ FreeIrq \/ FreeIrqDone
    \/ IsrCount \/ IsrWakeUp
    \/ \E r \in Readers : \/ ReadEnter(r) \/ ReadSignal(r) \/ Read(r)
                          \/ PollEnter(r) \/ Poll(r)

\* A handler runs to its end, calls that are not blocked go on.
Fairness ==
    /\ WF_vars(IsrWakeUp)
    /\ \A r \in Readers : WF_vars(Read(r)) /\ WF_vars(Poll(r))

Spec == Init /\ [][Next]_vars /\ Fairness

-----------------------------------------------------------------------------
(* Properties. *)

\* Events with a reader that has them in nev and has not given them away.
InHand(r) == IF pc[r] = "copy" THEN nev[r] ELSE 0

\* With one process reading, every interrupt since my_init's reset is in the
\* queue, in its hands, reported, or gone with a failed copy_to_user.
Conservation ==
    \A r \in Readers :
        raised = nevents + InHand(r) + reported + faulted

\* An event to report leaves nobody asleep: a sleeping reader or poller has
\* been woken or is about to be.
NobodySleepsOnEvents ==
    nevents > 0 /\ isr = "idle" =>
        \A r \in Readers : pc[r] \in {"asleep", "poll_asleep"} => r \in woken

\* A poller learns of events, unless another process has read them.
PollerLearns ==
    \A r \in Readers :
        (pc[r] = "poll_asleep" /\ nevents > 0)
            ~> (pc[r] = "queue" \/ nevents <= 0)

\* "The information passed back by the read should include the number of
\* events" (lab_uio.c:24-25): no event is reported twice.
ReportedOnce == reported <= raised

=============================================================================
