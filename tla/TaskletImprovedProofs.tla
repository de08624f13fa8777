----------------------- MODULE TaskletImprovedProofs ------------------------
(***************************************************************************)
(* What lab_one_tasklet_improved.c promises, for any number of interrupts: *)
(* no event is lost, counted twice or left without a bottom half to come,  *)
(* and the two halves implement the event service.                         *)
(***************************************************************************)
EXTENDS TaskletImproved, TLAPS

\* my_init runs before there is a handler on the line, and resets counters
\* that nobody is using.
Unloaded ==
    module \in {"loading", "failed"} =>
        /\ isr = "idle" /\ bh = "idle" /\ sched = FALSE
        /\ counter_th = 0 /\ counter_bh = 0

\* The inductive invariant.  Conservation needs NoUnderflow (a run that takes
\* an event of nobody breaks the balance) and Unloaded (the reset of my_init
\* would, too); NoStrandedEvent needs NoUnderflow, which makes the run's last
\* decrement the one that empties the queue.
IInv == TypeOK /\ Conservation /\ NoUnderflow /\ NoStrandedEvent /\ Unloaded

LEMMA InitIInv == Init => IInv
<1> SUFFICES ASSUME Init PROVE IInv
    OBVIOUS
<1> USE DEF Init
<1>1. TypeOK
    <2>1. sched \in BOOLEAN
        BY Zenon
    <2>2. counter_th \in 0..MaxIrqs /\ counter_bh \in Nat /\ nevents \in Nat
          /\ catchup \in Nat
        BY MaxIrqsAssumption
    <2>3. module = "loading" /\ isr = "idle" /\ bh = "idle"
        OBVIOUS
    <2> QED
        BY <2>1, <2>2, <2>3 DEF TypeOK
<1>2. Conservation
    BY DEF Conservation, InIsr, InBh
<1>3. NoUnderflow /\ NoStrandedEvent /\ Unloaded
    BY DEF NoUnderflow, NoStrandedEvent, Unloaded
<1> QED
    BY <1>1, <1>2, <1>3 DEF IInv

\* The top half: it adds the event it counted, then sees that it is taken.
LEMMA IsrIInv == IInv /\ Isr => IInv'
<1> SUFFICES ASSUME IInv, Isr PROVE IInv'
    OBVIOUS
<1> USE MaxIrqsAssumption
    DEF IInv, TypeOK, Conservation, NoUnderflow, NoStrandedEvent, Unloaded,
        InIsr, InBh, IsrVars
<1>1. CASE IsrEnter
    BY <1>1 DEF IsrEnter
<1>2. CASE IsrIncEvents
    BY <1>2 DEF IsrIncEvents
<1>3. CASE IsrSchedule
    BY <1>3 DEF IsrSchedule
<1>4. CASE IsrReturn
    BY <1>4 DEF IsrReturn
<1> QED
    BY <1>1, <1>2, <1>3, <1>4 DEF Isr

\* The bottom half: it takes an event only after it has seen one.
LEMMA BhIInv == IInv /\ Bh => IInv'
<1> SUFFICES ASSUME IInv, Bh PROVE IInv'
    OBVIOUS
<1> USE MaxIrqsAssumption
    DEF IInv, TypeOK, Conservation, NoUnderflow, NoStrandedEvent, Unloaded,
        InIsr, InBh, BhVars
<1>1. CASE SoftirqRun
    BY <1>1 DEF SoftirqRun
<1>2. CASE BhCheck
    BY <1>2 DEF BhCheck
<1>3. CASE BhCount
    BY <1>3 DEF BhCount
<1>4. CASE BhDecAndTest
    BY <1>4 DEF BhDecAndTest
<1>5. CASE BhCatchup
    BY <1>5 DEF BhCatchup
<1> QED
    BY <1>1, <1>2, <1>3, <1>4, <1>5 DEF Bh

\* Loading and unloading.
LEMMA ModuleIInv == IInv /\ (MyInit \/ FreeIrq \/ FreeIrqDone) => IInv'
<1> SUFFICES ASSUME IInv, MyInit \/ FreeIrq \/ FreeIrqDone PROVE IInv'
    OBVIOUS
<1> USE MaxIrqsAssumption
    DEF IInv, TypeOK, Conservation, NoUnderflow, NoStrandedEvent, Unloaded,
        InIsr, InBh
<1>1. CASE MyInit
    BY <1>1 DEF MyInit
<1>2. CASE FreeIrq
    BY <1>2 DEF FreeIrq
<1>3. CASE FreeIrqDone
    BY <1>3 DEF FreeIrqDone
<1> QED
    BY <1>1, <1>2, <1>3

LEMMA StutterIInv == IInv /\ UNCHANGED vars => IInv'
BY DEF IInv, TypeOK, Conservation, NoUnderflow, NoStrandedEvent, Unloaded,
       InIsr, InBh, vars

THEOREM Invariance == Spec => []IInv
<1>1. IInv /\ [Next]_vars => IInv'
    BY IsrIInv, BhIInv, ModuleIInv, StutterIInv DEF Next
<1> QED
    BY <1>1, InitIInv, PTL DEF Spec

\* The types hold, nevents is never negative.
THEOREM TypeCorrect == Spec => []TypeOK
BY Invariance, PTL DEF IInv

\* No interleaving of my_interrupt and t_fun loses an event or counts one
\* twice.
THEOREM NothingLost == Spec => []Conservation
BY Invariance, PTL DEF IInv

\* The loop of t_fun never runs past zero.
THEOREM LoopStopsAtZero == Spec => []NoUnderflow
BY Invariance, PTL DEF IInv

\* A pending event always has a bottom half to come.
THEOREM NeverStranded == Spec => []NoStrandedEvent
BY Invariance, PTL DEF IInv

-----------------------------------------------------------------------------
(* The safety part of the refinement. *)

\* Every step of the two halves is a step of the event service or invisible
\* to it: only IsrEnter raises an event, only BhCount handles one, and there
\* is one to handle.
LEMMA StepRefines == IInv /\ [Next]_vars => [ES!Next]_(ES!vars)
<1> SUFFICES ASSUME IInv, [Next]_vars PROVE [ES!Next]_(ES!vars)
    OBVIOUS
<1> USE DEF IInv, TypeOK, ES!vars
<1>1. CASE MyInit
    BY <1>1 DEF MyInit, Unloaded
<1>2. CASE IsrEnter
    BY <1>2 DEF IsrEnter, IsrVars, ES!Next, ES!Raise
<1>3. CASE BhCount
    <2>1. counter_bh < counter_th
        BY <1>3, MaxIrqsAssumption
           DEF BhCount, Conservation, NoUnderflow, InIsr, InBh
    <2> QED
        BY <1>3, <2>1 DEF BhCount, BhVars, ES!Next, ES!Handle
<1>4. CASE FreeIrq \/ FreeIrqDone \/ UNCHANGED vars
    BY <1>4 DEF FreeIrq, FreeIrqDone, vars
<1>5. CASE IsrIncEvents \/ IsrSchedule \/ IsrReturn
    BY <1>5 DEF IsrIncEvents, IsrSchedule, IsrReturn, IsrVars
<1>6. CASE SoftirqRun \/ BhCheck \/ BhDecAndTest \/ BhCatchup
    BY <1>6 DEF SoftirqRun, BhCheck, BhDecAndTest, BhCatchup, BhVars
<1> QED
    BY <1>1, <1>2, <1>3, <1>4, <1>5, <1>6 DEF Next, Isr, Bh

\* The driver implements the event service's safety: bottom halves count
\* interrupts that happened, one at a time, and never more than happened.
THEOREM RefinesEventService == Spec => ES!SafeSpec
<1>1. Init => ES!Init
    BY DEF Init, ES!Init
<1> QED
    BY <1>1, StepRefines, Invariance, PTL DEF Spec, ES!SafeSpec

=============================================================================
