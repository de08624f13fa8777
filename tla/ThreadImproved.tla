--------------------------- MODULE ThreadImproved ---------------------------
(***************************************************************************)
(* chapter_23_deferrable_functions, the labs whose bottom half is a kernel *)
(* thread, with their header lab_one_interrupt.h.  The handler counts,     *)
(* raises the flag cond and wakes the thread; the thread clears cond,      *)
(* sleeps until it is raised, and then                                     *)
(*                                                                         *)
(*   "plain"     lab_one_thread.c           counts one bottom half         *)
(*   "improved"  lab_one_thread_improved.c  loops until no event is left   *)
(*                                                                         *)
(* Each atomic operation of the code is one step.  kthread_run,            *)
(* kthread_stop, wait_event_interruptible and wake_up_interruptible are    *)
(* the kernel's: a sleeper puts itself on the queue before it tests its    *)
(* condition, so that a wake-up between the test and the sleep is kept.    *)
(***************************************************************************)
EXTENDS Integers

CONSTANTS
    Labs,           \* the labs a run is about
    MaxIrqs         \* bound: interrupts delivered during a run

ASSUME MaxIrqsAssumption ==
    Labs \subseteq {"plain", "improved"} /\ MaxIrqs \in Nat

VARIABLES
    lab,            \* the lab that is loaded
    module,         \* where the module is between insmod and rmmod
    counter_th,     \* top halves counted
    counter_bh,     \* events the thread has consumed
    nevents,        \* events waiting for the thread
    catchup,        \* events consumed beyond the first of each wake-up
    cond,           \* the flag the thread waits for
    isr,            \* next operation of my_interrupt, "idle" outside it
    thr,            \* next operation of thr_fun
    runnable,       \* the thread was woken since it queued itself on wq
    stop            \* kthread_should_stop()

vars == <<lab, module, counter_th, counter_bh, nevents, catchup, cond, isr,
          thr, runnable, stop>>

counters == <<counter_th, counter_bh, nevents, catchup>>

TypeOK ==
    /\ lab \in Labs
    /\ module \in {"insmod", "request_irq", "failed", "live", "kthread_stop",
                   "free_irq", "gone"}
    /\ counter_th \in 0..MaxIrqs
    /\ {counter_bh, nevents, catchup} \subseteq Nat
    /\ cond \in {0, 1}
    /\ isr \in {"idle", "inc_th", "set_cond", "wake_up"}
    /\ thr \in {"none", "err_ptr", "created", "clear", "prepare", "test",
                "asleep", "check_cond", "should_stop", "check", "inc_bh",
                "dec_nevents", "inc_catchup", "while", "dead"}
    /\ {runnable, stop} \subseteq BOOLEAN

Init ==
    /\ lab \in Labs /\ module = "insmod"
    /\ counter_th = 0 /\ counter_bh = 0 /\ nevents = 0 /\ catchup = 0
    /\ cond = 0 /\ isr = "idle" /\ thr = "none"
    /\ runnable = FALSE /\ stop = FALSE

-----------------------------------------------------------------------------
(* Loading and unloading. *)

\* my_init: the atomics are set, the thread is created.  kthread_run reports
\* a failure with an error pointer, which the test for NULL lets through.
KthreadRun ==
    /\ module = "insmod"
    /\ cond' = 1 /\ nevents' = 0 /\ catchup' = 0
    /\ thr' \in {"created", "err_ptr"}
    /\ module' = "request_irq"
    /\ UNCHANGED <<lab, counter_th, counter_bh, isr, runnable, stop>>

\* my_generic_init, the thread already running.
RequestIrq ==
    /\ module = "request_irq"
    /\ counter_th' = 0 /\ counter_bh' = 0
    /\ module' \in {"live", "failed"}
    /\ UNCHANGED <<lab, nevents, catchup, cond, isr, thr, runnable, stop>>

\* my_exit: kthread_stop tells the thread to stop and wakes it ...  Given an
\* error pointer it faults: no unloading follows.
KthreadStop ==
    /\ module = "live" /\ thr # "err_ptr"
    /\ module' = "kthread_stop"
    /\ stop' = TRUE /\ runnable' = TRUE
    /\ UNCHANGED <<lab, counters, cond, isr, thr>>

\* Mutant: the handler is freed before the thread is known to be dead.
FreeIrqFirst ==
    /\ module = "kthread_stop"
    /\ module' = "free_irq"
    /\ UNCHANGED <<lab, counters, cond, isr, thr, runnable, stop>>

\* ... and waits for its end; then free_irq takes the handler off the line ...
FreeIrq ==
    /\ module = "kthread_stop" /\ thr = "dead"
    /\ module' = "free_irq"
    /\ UNCHANGED <<lab, counters, cond, isr, thr, runnable, stop>>

\* ... and waits for a handler in progress.
FreeIrqDone ==
    /\ module = "free_irq" /\ isr = "idle"
    /\ module' = "gone"
    /\ UNCHANGED <<lab, counters, cond, isr, thr, runnable, stop>>

-----------------------------------------------------------------------------
(* The top half: my_interrupt. *)

IsrVars == <<lab, module, counter_bh, catchup, thr, stop>>

IrqComes ==
    /\ module \in {"live", "kthread_stop"} /\ isr = "idle"
    /\ counter_th < MaxIrqs

IsrIncEvents ==
    /\ IrqComes /\ lab = "improved"
    /\ nevents' = nevents + 1
    /\ isr' = "inc_th"
    /\ UNCHANGED <<counter_th, cond, runnable>> /\ UNCHANGED IsrVars

\* The plain lab has no nevents.
IsrEnter ==
    /\ IrqComes /\ lab = "plain"
    /\ isr' = "inc_th"
    /\ UNCHANGED <<counter_th, nevents, cond, runnable>>
    /\ UNCHANGED IsrVars

IsrCount ==
    /\ isr = "inc_th"
    /\ counter_th' = counter_th + 1
    /\ isr' = "set_cond"
    /\ UNCHANGED <<nevents, cond, runnable>> /\ UNCHANGED IsrVars

IsrSetCond ==
    /\ isr = "set_cond"
    /\ cond' = 1
    /\ isr' = "wake_up"
    /\ UNCHANGED <<counter_th, nevents, runnable>> /\ UNCHANGED IsrVars

\* Mutant: the wake-up is forgotten.
IsrNoWakeUp ==
    /\ isr = "wake_up"
    /\ isr' = "idle"
    /\ UNCHANGED <<counter_th, nevents, cond, runnable>>
    /\ UNCHANGED IsrVars

\* After mdelay: wakes the thread if it is on the queue.
IsrWakeUp ==
    /\ isr = "wake_up"
    /\ runnable' = (runnable \/ thr \in {"test", "asleep"})
    /\ isr' = "idle"
    /\ UNCHANGED <<counter_th, nevents, cond>> /\ UNCHANGED IsrVars

Isr == IsrEnter \/ IsrIncEvents \/ IsrCount \/ IsrSetCond \/ IsrWakeUp

-----------------------------------------------------------------------------
(* The bottom half: thr_fun. *)

ThrVars == <<lab, module, counter_th, isr, stop>>

\* The new thread's first schedule: it may have been told to stop already.
ThrStart ==
    /\ thr = "created"
    /\ thr' = IF stop THEN "dead" ELSE "clear"
    /\ UNCHANGED <<counter_bh, nevents, catchup, cond, runnable>>
    /\ UNCHANGED ThrVars

ThrClearCond ==
    /\ thr = "clear"
    /\ cond' = 0
    /\ thr' = "prepare"
    /\ UNCHANGED <<counter_bh, nevents, catchup, runnable>>
    /\ UNCHANGED ThrVars

\* wait_event_interruptible, three steps: onto the queue, test, sleep.
ThrPrepare ==
    /\ thr = "prepare"
    /\ runnable' = FALSE
    /\ thr' = "test"
    /\ UNCHANGED <<counter_bh, nevents, catchup, cond>> /\ UNCHANGED ThrVars

\* Mutant: the condition leaves out kthread_should_stop().
ThrTestCondOnly ==
    /\ thr = "test"
    /\ thr' = IF cond = 1
              THEN (IF lab = "plain" THEN "check_cond" ELSE "should_stop")
              ELSE "asleep"
    /\ UNCHANGED <<counter_bh, nevents, catchup, cond, runnable>>
    /\ UNCHANGED ThrVars

ThrTest ==
    /\ thr = "test"
    /\ thr' = IF stop \/ cond = 1
              THEN (IF lab = "plain" THEN "check_cond" ELSE "should_stop")
              ELSE "asleep"
    /\ UNCHANGED <<counter_bh, nevents, catchup, cond, runnable>>
    /\ UNCHANGED ThrVars

ThrWoken ==
    /\ thr = "asleep" /\ runnable
    /\ thr' = "prepare"
    /\ UNCHANGED <<counter_bh, nevents, catchup, cond, runnable>>
    /\ UNCHANGED ThrVars

\* if (atomic_read(&cond)): it may be awake only to stop.
ThrCheckCond ==
    /\ thr = "check_cond"
    /\ thr' = IF cond = 1 THEN "inc_bh" ELSE "while"
    /\ UNCHANGED <<counter_bh, nevents, catchup, cond, runnable>>
    /\ UNCHANGED ThrVars

ThrShouldStop ==
    /\ thr = "should_stop"
    /\ thr' = IF stop THEN "dead" ELSE "check"
    /\ UNCHANGED <<counter_bh, nevents, catchup, cond, runnable>>
    /\ UNCHANGED ThrVars

\* "did we get a spurious interrupt, or was it queued too late?": continue
\* jumps to the loop's condition.
ThrCheck ==
    /\ thr = "check"
    /\ thr' = IF nevents <= 0 THEN "while" ELSE "inc_bh"
    /\ UNCHANGED <<counter_bh, nevents, catchup, cond, runnable>>
    /\ UNCHANGED ThrVars

ThrCount ==
    /\ thr = "inc_bh"
    /\ counter_bh' = counter_bh + 1
    /\ thr' = IF lab = "plain" THEN "while" ELSE "dec_nevents"
    /\ UNCHANGED <<nevents, catchup, cond, runnable>> /\ UNCHANGED ThrVars

\* Mutant: the queue is reset instead of decremented.
ThrResetEvents ==
    /\ thr = "dec_nevents"
    /\ nevents' = 0
    /\ thr' = "while"
    /\ UNCHANGED <<counter_bh, catchup, cond, runnable>> /\ UNCHANGED ThrVars

ThrDecAndTest ==
    /\ thr = "dec_nevents"
    /\ nevents' = nevents - 1
    /\ thr' = IF nevents' = 0 THEN "while" ELSE "inc_catchup"
    /\ UNCHANGED <<counter_bh, catchup, cond, runnable>> /\ UNCHANGED ThrVars

ThrCatchup ==
    /\ thr = "inc_catchup"
    /\ catchup' = catchup + 1
    /\ thr' = "inc_bh"
    /\ UNCHANGED <<counter_bh, nevents, cond, runnable>> /\ UNCHANGED ThrVars

\* Mutant: the loop does not ask whether it should stop.
ThrWhileForever ==
    /\ thr = "while"
    /\ thr' = "clear"
    /\ UNCHANGED <<counter_bh, nevents, catchup, cond, runnable>>
    /\ UNCHANGED ThrVars

ThrWhile ==
    /\ thr = "while"
    /\ thr' = IF stop THEN "dead" ELSE "clear"
    /\ UNCHANGED <<counter_bh, nevents, catchup, cond, runnable>>
    /\ UNCHANGED ThrVars

Thr ==
    \/ ThrStart \/ ThrClearCond \/ ThrPrepare \/ ThrTest \/ ThrWoken
    \/ ThrCheckCond \/ ThrShouldStop \/ ThrCheck \/ ThrCount
    \/ ThrDecAndTest \/ ThrCatchup \/ ThrWhile

-----------------------------------------------------------------------------

Next ==
    \/ KthreadRun \/ RequestIrq \/ KthreadStop \/ FreeIrq \/ FreeIrqDone
    \/ Isr \/ Thr

\* Handlers run to their end, a runnable thread runs, my_exit goes on when
\* what it waits for has happened.  No interrupt and no rmmod has to come.
Fairness ==
    /\ WF_vars(IsrCount \/ IsrSetCond \/ IsrWakeUp)
    /\ WF_vars(Thr)
    /\ WF_vars(FreeIrq \/ FreeIrqDone)

Spec == Init /\ [][Next]_vars /\ Fairness

-----------------------------------------------------------------------------
(* Properties. *)

\* No interleaving of my_interrupt and thr_fun loses an event from the books:
\* each one counted by the handler was consumed by the thread or is still in
\* nevents, up to the one each half has in hand.  The plain lab coalesces;
\* it never counts a bottom half without an interrupt of its own.
Conservation ==
    IF lab = "plain" THEN counter_bh <= counter_th
    ELSE counter_th + (IF isr = "inc_th" THEN 1 ELSE 0) =
            (counter_bh - (IF thr = "dec_nevents" THEN 1 ELSE 0)) + nevents

\* A raised cond that no handler is still going to announce has its thread
\* awake: setting the flag before the wake-up loses none.
FlagWakesThread ==
    module = "live" /\ cond = 1 /\ isr = "idle" /\ thr = "asleep" => runnable

\* my_exit leaves nobody behind: when the module is gone its thread is dead
\* and its handler has returned.
UnloadedIsQuiet == module = "gone" => thr = "dead" /\ isr = "idle"

\* Of the event service that the lab asks for, its safety: a bottom half is
\* counted for an event that was raised, and once.  The thread may see an
\* event before the handler has counted it.
ES == INSTANCE EventService WITH
          raised <- counter_th + (IF isr = "inc_th" THEN 1 ELSE 0),
          handled <- counter_bh
CountsOnlyEvents == ES!SafeSpec

\* rmmod ends, whatever the thread is doing when it is told to stop: it sees
\* the request and dies, if interrupts cease.  Until free_irq, which comes
\* last, they keep the inner loop of lab_one_thread_improved.c going, which
\* does not look at the request.
IrqsCease == <>[][~IsrEnter /\ ~IsrIncEvents]_vars
RmmodEnds == IrqsCease => (module = "kthread_stop" ~> module = "gone")

\* The steps the thread has left when it is told to stop: those to the end of
\* thr_fun's loop, and a round of the inner loop for each event.
ToGo ==
    CASE thr \in {"none", "err_ptr", "dead"} -> 0
      [] thr \in {"created", "while"} -> 1
      [] thr = "dec_nevents" -> 3 * nevents + 1
      [] thr = "inc_bh" -> 3 * nevents + 2
      [] thr \in {"check_cond", "should_stop", "check", "inc_catchup"} ->
            3 * nevents + 3
      [] thr = "test" -> 3 * nevents + 4
      [] thr = "prepare" -> 3 * nevents + 5
      [] thr \in {"asleep", "clear"} -> 3 * nevents + 6

\* A thread that is told to stop goes to its end step by step, and nothing
\* but an interrupt puts it back, by one round: rmmod waits as long as they
\* come faster than rounds, however many there are.
StopComesNearer ==
    [][stop => \/ Thr /\ ToGo' < ToGo
               \/ IsrIncEvents /\ ToGo' <= ToGo + 3
               \/ ToGo' = ToGo]_vars

\* What the lab asks for (lab_one_thread_improved.c:23-24, a bottom half that
\* catches up, "cleaning up the pending queue"): a thread that sleeps with
\* no wake-up on its way has left no event pending.
QueueCleanedUp ==
    module = "live" /\ isr = "idle" /\ thr = "asleep" /\ ~runnable =>
        nevents = 0

\* What lab_one_thread.c:36-37 asks for and both thread labs do in my_exit: no
\* thread runs the code of a module that is not there.
NoOrphanThread == module \in {"failed", "gone"} => thr \in {"none", "dead"}

\* What the message at lab_one_thread_improved.c:92 announces: a thread that
\* could not be created makes the loading fail.
LiveHasThread == module = "live" => thr # "err_ptr"

=============================================================================
