-------------------------- MODULE TaskletImproved ---------------------------
(***************************************************************************)
(* chapter_23_deferrable_functions/lab_one_tasklet_improved.c with its     *)
(* header lab_one_interrupt.h: a shared interrupt whose top half counts    *)
(* events in an atomic and schedules one static tasklet, and a tasklet     *)
(* that loops until the count is back to zero.                             *)
(*                                                                         *)
(* The top half and the tasklet run on different processors: each atomic   *)
(* operation of the code is one step here.  The handler of one interrupt   *)
(* line never runs concurrently with itself, and neither does a tasklet.   *)
(***************************************************************************)
EXTENDS Integers

CONSTANT MaxIrqs    \* bound: interrupts delivered during a run

ASSUME MaxIrqsAssumption == MaxIrqs \in Nat

VARIABLES
    module,         \* where the module is between insmod and rmmod
    counter_th,     \* top halves run
    counter_bh,     \* events the bottom half has consumed
    nevents,        \* events waiting for the bottom half
    catchup,        \* events consumed by a run that was started for another
    isr,            \* next operation of my_interrupt, "idle" outside it
    sched,          \* TASKLET_STATE_SCHED of t_name
    bh              \* next operation of t_fun, "idle" when not running

vars == <<module, counter_th, counter_bh, nevents, catchup, isr, sched, bh>>

IsrVars == <<module, counter_bh, catchup, bh>>
BhVars == <<module, counter_th, isr>>

\* The state's types: nevents is an int in the code and never a negative one.
TypeOK ==
    /\ module \in {"loading", "failed", "live", "free_irq", "gone"}
    /\ counter_th \in 0..MaxIrqs
    /\ counter_bh \in Nat
    /\ nevents \in Nat
    /\ catchup \in Nat
    /\ isr \in {"idle", "inc_nevents", "schedule", "delay"}
    /\ sched \in BOOLEAN
    /\ bh \in {"idle", "check", "inc_bh", "dec_nevents", "inc_catchup"}

Init ==
    /\ module = "loading"
    /\ counter_th = 0 /\ counter_bh = 0 /\ nevents = 0 /\ catchup = 0
    /\ isr = "idle" /\ sched = FALSE /\ bh = "idle"

-----------------------------------------------------------------------------
(* Loading and unloading. *)

\* my_init resets the four atomics, then request_irq succeeds or fails.
MyInit ==
    /\ module = "loading"
    /\ module' \in {"live", "failed"}
    /\ counter_th' = 0 /\ counter_bh' = 0 /\ nevents' = 0 /\ catchup' = 0
    /\ UNCHANGED <<isr, sched, bh>>

\* my_exit: free_irq first takes the handler off the line ...
FreeIrq ==
    /\ module = "live"
    /\ module' = "free_irq"
    /\ UNCHANGED <<counter_th, counter_bh, nevents, catchup, isr, sched, bh>>

\* ... and then waits for a handler in progress.  Nothing kills the tasklet.
FreeIrqDone ==
    /\ module = "free_irq" /\ isr = "idle"
    /\ module' = "gone"
    /\ UNCHANGED <<counter_th, counter_bh, nevents, catchup, isr, sched, bh>>

-----------------------------------------------------------------------------
(* The top half: my_interrupt. *)

\* An interrupt arrives on the line and the handler counts it.
IsrEnter ==
    /\ module = "live" /\ isr = "idle" /\ counter_th < MaxIrqs
    /\ counter_th' = counter_th + 1
    /\ isr' = "inc_nevents"
    /\ UNCHANGED <<nevents, sched>> /\ UNCHANGED IsrVars

IsrIncEvents ==
    /\ isr = "inc_nevents"
    /\ nevents' = nevents + 1
    /\ isr' = "schedule"
    /\ UNCHANGED <<counter_th, sched>> /\ UNCHANGED IsrVars

\* tasklet_schedule is a no-op on a tasklet that is already scheduled.
IsrSchedule ==
    /\ isr = "schedule"
    /\ sched' = TRUE
    /\ isr' = "delay"
    /\ UNCHANGED <<counter_th, nevents>> /\ UNCHANGED IsrVars

\* mdelay(delay) is over and the handler returns.
IsrReturn ==
    /\ isr = "delay"
    /\ isr' = "idle"
    /\ UNCHANGED <<counter_th, nevents, sched>> /\ UNCHANGED IsrVars

Isr == IsrEnter \/ IsrIncEvents \/ IsrSchedule \/ IsrReturn

-----------------------------------------------------------------------------
(* The bottom half: t_fun, called by the softirq. *)

\* The softirq takes the tasklet off its list: the SCHED bit is cleared
\* before the function is called, so the tasklet can be queued once more.
SoftirqRun ==
    /\ sched /\ bh = "idle"
    /\ sched' = FALSE
    /\ bh' = "check"
    /\ UNCHANGED <<counter_bh, nevents, catchup>> /\ UNCHANGED BhVars

BhCheckOffByOne ==
    /\ bh = "check"
    /\ bh' = IF nevents < 0 THEN "idle" ELSE "inc_bh"
    /\ UNCHANGED <<counter_bh, nevents, catchup, sched>> /\ UNCHANGED BhVars

\* "did we get a spurious interrupt, or was it queued too late?"
BhCheck ==
    /\ bh = "check"
    /\ bh' = IF nevents <= 0 THEN "idle" ELSE "inc_bh"
    /\ UNCHANGED <<counter_bh, nevents, catchup, sched>> /\ UNCHANGED BhVars

BhCount ==
    /\ bh = "inc_bh"
    /\ counter_bh' = counter_bh + 1
    /\ bh' = "dec_nevents"
    /\ UNCHANGED <<nevents, catchup, sched>> /\ UNCHANGED BhVars

\* Mutants: the queue is reset instead of decremented, the schedule bit is
\* dropped at the end of the run, and a run consumes a single event.
BhResetEvents ==
    /\ bh = "dec_nevents"
    /\ nevents' = 0
    /\ bh' = "idle"
    /\ UNCHANGED <<counter_bh, catchup, sched>> /\ UNCHANGED BhVars

BhDecAndClearSched ==
    /\ bh = "dec_nevents"
    /\ nevents' = nevents - 1
    /\ bh' = "idle"
    /\ sched' = FALSE
    /\ UNCHANGED <<counter_bh, catchup>> /\ UNCHANGED BhVars

BhDecOnce ==
    /\ bh = "dec_nevents"
    /\ nevents' = nevents - 1
    /\ bh' = "idle"
    /\ UNCHANGED <<counter_bh, catchup, sched>> /\ UNCHANGED BhVars

BhDecAndTest ==
    /\ bh = "dec_nevents"
    /\ nevents' = nevents - 1
    /\ bh' = IF nevents' = 0 THEN "idle" ELSE "inc_catchup"
    /\ UNCHANGED <<counter_bh, catchup, sched>> /\ UNCHANGED BhVars

BhCatchup ==
    /\ bh = "inc_catchup"
    /\ catchup' = catchup + 1
    /\ bh' = "inc_bh"
    /\ UNCHANGED <<counter_bh, nevents, sched>> /\ UNCHANGED BhVars

Bh == SoftirqRun \/ BhCheck \/ BhCount \/ BhDecAndTest \/ BhCatchup

-----------------------------------------------------------------------------

Next == MyInit \/ FreeIrq \/ FreeIrqDone \/ Isr \/ Bh

\* A handler runs to its end and a scheduled tasklet is run: the processors
\* do that.  Nobody owes the module another interrupt, or an rmmod.
Fairness ==
    /\ WF_vars(IsrIncEvents \/ IsrSchedule \/ IsrReturn)
    /\ WF_vars(Bh)
    /\ WF_vars(FreeIrqDone)

Spec == Init /\ [][Next]_vars /\ Fairness

-----------------------------------------------------------------------------
(* Properties. *)

\* Number of events between two updates of the counters in each half.
InIsr == IF isr = "inc_nevents" THEN 1 ELSE 0
InBh == IF bh = "dec_nevents" THEN 1 ELSE 0

\* No event is lost or counted twice, whatever the interleaving of the two
\* halves: interrupts counted by my_interrupt are the ones consumed by t_fun
\* plus the ones in nevents, up to the event each half has in hand.
Conservation == counter_th - InIsr = (counter_bh - InBh) + nevents

\* t_fun never takes an event that is not there, so that its loop ends on
\* zero and cannot run past it (atomic_dec_and_test would then not stop it).
NoUnderflow == bh \in {"inc_bh", "dec_nevents", "inc_catchup"} => nevents > 0

\* An event in the queue always has a bottom half to come: the tasklet is
\* running, is scheduled, or the handler is about to schedule it.
NoStrandedEvent ==
    nevents > 0 => bh # "idle" \/ sched \/ isr = "schedule"

\* The two halves together are the event service the lab asks for, its
\* liveness included: every counted interrupt is consumed.
ES == INSTANCE EventService WITH raised <- counter_th, handled <- counter_bh
ImplementsEventService == ES!Spec

=============================================================================
