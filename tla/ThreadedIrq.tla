---------------------------- MODULE ThreadedIrq -----------------------------
(***************************************************************************)
(* The producer/consumer lab of chapter_23_deferrable_functions as a       *)
(* threaded interrupt handler,                                             *)
(*                                                                         *)
(*   "one"  lab_one_threaded.c with lab_one_interrupt.h, or                *)
(*   "all"  one line of lab_all_threaded.c with lab_all_interrupt.h: its   *)
(*          elements of the tables interrupts, bhs and nevents stand for   *)
(*          counter_th, counter_bh and nevents.  The lines share nothing   *)
(*          but the order in which they are requested and freed.           *)
(*                                                                         *)
(* The interrupt thread belongs to the kernel: a handler that returns      *)
(* IRQ_WAKE_THREAD sets the thread's RUNTHREAD flag, and the thread clears *)
(* the flag and calls thread_fun.  The flag is one bit: it remembers that  *)
(* there was an interrupt and not how many.                                *)
(*                                                                         *)
(* The loop of thread_fun has no test before its first decrement, so that  *)
(* the width of an atomic_t matters: the counters are kept modulo 2^W.     *)
(***************************************************************************)
EXTENDS Integers

CONSTANTS
    Labs,       \* the labs a run is about
    W,          \* bound: width of an atomic_t, 32 in the code
    MaxIrqs     \* bound: interrupts delivered during a run

\* interrupts[irq] < 0 says that the line is not ours: an int's worth of
\* interrupts is more than a run has.
ASSUME WidthAssumption ==
    /\ Labs \subseteq {"one", "all"}
    /\ W \in Nat \ {0} /\ MaxIrqs \in 0..(2^(W - 1) - 1)

Word == 0..(2^W - 1)
Inc(n) == (n + 1) % 2^W
Dec(n) == (n - 1) % 2^W

VARIABLES
    lab,            \* the lab that is loaded
    module,         \* where the module is between insmod and rmmod
    counter_th,     \* top halves counted
    counter_bh,     \* rounds of thread_fun's loop counted
    nevents,        \* events waiting for the thread
    isr,            \* next operation of my_interrupt, "idle" outside it
    runthread,      \* IRQTF_RUNTHREAD of the action
    thr,            \* next operation of the interrupt thread
    came            \* not in the code: interrupts that were counted

vars == <<lab, module, counter_th, counter_bh, nevents, isr, runthread, thr,
          came>>

TypeOK ==
    /\ lab \in Labs
    /\ module \in {"loading", "failed", "requested", "live", "free_irq",
                   "kthread_stop", "gone"}
    /\ {counter_th, counter_bh, nevents} \subseteq Word
    /\ came \in 0..MaxIrqs
    /\ isr \in {"idle", "inc_nevents", "return"}
    /\ runthread \in BOOLEAN
    /\ thr \in {"none", "wait", "inc_bh", "dec_nevents"}

Init ==
    /\ lab \in Labs /\ module = "loading"
    /\ counter_th = 0 /\ counter_bh = 0 /\ nevents = 0 /\ came = 0
    /\ isr = "idle" /\ runthread = FALSE /\ thr = "none"

-----------------------------------------------------------------------------
(* Loading and unloading. *)

\* request_threaded_irq creates the thread and puts the handler on the line,
\* or fails.
RequestThreadedIrq(next) ==
    \/ module' = next /\ thr' = "wait"
    \/ module' = "failed" /\ thr' = "none"

\* my_init of lab_one_threaded.c: the atomics are reset first.
MyInit ==
    /\ module = "loading" /\ lab = "one"
    /\ counter_th' = 0 /\ counter_bh' = 0 /\ nevents' = 0
    /\ RequestThreadedIrq("live")
    /\ UNCHANGED <<lab, isr, runthread, came>>

\* A round of get_irqs of lab_all_interrupt.h: the flag, the request, ...
GetIrq ==
    /\ module = "loading" /\ lab = "all"
    /\ counter_th' = Dec(0) /\ counter_bh' = 0 /\ nevents' = 0
    /\ RequestThreadedIrq("requested")
    /\ UNCHANGED <<lab, isr, runthread, came>>

\* ... and the counter cleared when the line is ours already: what the
\* handler has counted is forgotten, the events it has raised are not.
ClearLine ==
    /\ module = "requested"
    /\ counter_th' = 0
    /\ module' = "live"
    /\ UNCHANGED <<lab, counter_bh, nevents, isr, runthread, thr, came>>

lineVars == <<lab, counter_th, counter_bh, nevents, isr, runthread, came>>

\* my_generic_exit: free_irq takes the handler off the line, if the counter
\* of a line of lab_all_interrupt.h is not negative, ...
FreeIrq ==
    /\ module = "live"
    /\ lab = "all" => counter_th < 2^(W - 1)
    /\ module' = "free_irq"
    /\ UNCHANGED thr /\ UNCHANGED lineVars

\* ... waits for a handler in progress and stops the thread, ...
FreeIrqSync ==
    /\ module = "free_irq" /\ isr = "idle"
    /\ module' = "kthread_stop"
    /\ UNCHANGED thr /\ UNCHANGED lineVars

\* ... which ends when it is back at its wait.  Kernels differ on a flag that
\* is still set: before 4.20 it is dropped, later ones run thread_fun first
\* (ThrRun).
ThrStopped ==
    /\ module = "kthread_stop" /\ thr = "wait"
    /\ thr' = "none"
    /\ module' = "gone"
    /\ UNCHANGED lineVars

-----------------------------------------------------------------------------
(* The top half: my_interrupt. *)

IsrVars == <<lab, module, counter_bh, thr>>

IsrEnter ==
    /\ module \in {"requested", "live"} /\ isr = "idle" /\ came < MaxIrqs
    /\ counter_th' = Inc(counter_th) /\ came' = came + 1
    /\ isr' = "inc_nevents"
    /\ UNCHANGED <<nevents, runthread>> /\ UNCHANGED IsrVars

IsrIncEvents ==
    /\ isr = "inc_nevents"
    /\ nevents' = Inc(nevents)
    /\ isr' = "return"
    /\ UNCHANGED <<counter_th, runthread, came>> /\ UNCHANGED IsrVars

\* Mutant: the handler does not ask for its thread (IRQ_HANDLED).
IsrHandled ==
    /\ isr = "return"
    /\ isr' = "idle"
    /\ UNCHANGED <<counter_th, nevents, runthread, came>>
    /\ UNCHANGED IsrVars

\* After mdelay: IRQ_WAKE_THREAD.
IsrWakeThread ==
    /\ isr = "return"
    /\ runthread' = TRUE
    /\ isr' = "idle"
    /\ UNCHANGED <<counter_th, nevents, came>> /\ UNCHANGED IsrVars

Isr == IsrEnter \/ IsrIncEvents \/ IsrWakeThread

-----------------------------------------------------------------------------
(* The bottom half: the interrupt thread and thread_fun. *)

ThrVars == <<lab, module, counter_th, isr, came>>

ThrRun ==
    /\ thr = "wait" /\ runthread
    /\ runthread' = FALSE
    /\ thr' = "inc_bh"
    /\ UNCHANGED <<counter_bh, nevents>> /\ UNCHANGED ThrVars

ThrCount ==
    /\ thr = "inc_bh"
    /\ counter_bh' = Inc(counter_bh)
    /\ thr' = "dec_nevents"
    /\ UNCHANGED <<nevents, runthread>> /\ UNCHANGED ThrVars

ThrResetEvents ==
    /\ thr = "dec_nevents"
    /\ nevents' = 0
    /\ thr' = "wait"
    /\ UNCHANGED <<counter_bh, runthread>> /\ UNCHANGED ThrVars

ThrReadOnly ==
    /\ thr = "dec_nevents"
    /\ thr' = IF nevents = 0 THEN "wait" ELSE "inc_bh"
    /\ UNCHANGED <<counter_bh, nevents, runthread>> /\ UNCHANGED ThrVars

\* while (!atomic_dec_and_test(&nevents))
ThrDecAndTest ==
    /\ thr = "dec_nevents"
    /\ nevents' = Dec(nevents)
    /\ thr' = IF nevents' = 0 THEN "wait" ELSE "inc_bh"
    /\ UNCHANGED <<counter_bh, runthread>> /\ UNCHANGED ThrVars

Thr == ThrRun \/ ThrCount \/ ThrDecAndTest

-----------------------------------------------------------------------------

Next ==
    \/ MyInit \/ GetIrq \/ ClearLine
    \/ FreeIrq \/ FreeIrqSync \/ ThrStopped \/ Isr \/ Thr

\* A handler runs to its end, the thread runs when it is flagged, free_irq
\* goes on when what it waits for has happened.  No interrupt and no rmmod
\* has to come.
Fairness ==
    /\ WF_vars(IsrIncEvents \/ IsrWakeThread)
    /\ WF_vars(Thr)
    /\ WF_vars(FreeIrqSync)
    /\ WF_vars(ThrStopped)

Spec == Init /\ [][Next]_vars /\ Fairness

-----------------------------------------------------------------------------
(* Properties. *)

\* The books balance through every overflow: modulo 2^W, interrupts that came
\* are rounds counted plus nevents, up to the one each half has in hand.  In
\* lab_one_threaded.c counter_th is that number; a line of lab_all_threaded.c
\* may have lost some, which get_irqs has cleared, but none of their events.
ConservationMod ==
    /\ (came - (IF isr = "inc_nevents" THEN 1 ELSE 0)) % 2^W =
          (counter_bh - (IF thr = "dec_nevents" THEN 1 ELSE 0) + nevents) % 2^W
    /\ lab = "one" => counter_th = came
    /\ module \notin {"requested", "failed"} => counter_th <= came

\* No pending event is stranded, although the loop may have to go through the
\* whole cycle of the counter for it: every interrupt is consumed in the end,
\* and rmmod ends.
Drained ==
    (module \in {"requested", "live"} /\ nevents # 0) ~>
        (nevents = 0 \/ module = "gone")
RmmodEnds == module = "free_irq" ~> module = "gone"

\* What the producer/consumer lab is about: the consumer takes what the
\* producer made, so that the rounds counted stay within the interrupts that
\* came.  The code breaks it: an interrupt whose event is consumed by the run
\* in progress flags the thread again, and the run that follows starts from
\* zero.
NoPhantomEvent == counter_bh <= came

\* What thread_fun of lab_all_threaded.c compares before it prints: with no
\* event on its way the two tables agree.  get_irqs' clearing makes them
\* differ for good.
TablesAgree ==
    lab = "all" /\ module = "live" /\ isr = "idle" /\ thr = "wait"
        /\ nevents = 0 => counter_bh = counter_th

=============================================================================
