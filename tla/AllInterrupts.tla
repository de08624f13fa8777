--------------------------- MODULE AllInterrupts ----------------------------
(***************************************************************************)
(* chapter_23_deferrable_functions/lab_all_interrupt.h: a handler shared   *)
(* with every interrupt line that allows it, and two tables of counters,   *)
(* interrupts and bhs, indexed by the line.  interrupts[irq] doubles as    *)
(* the flag that tells the lines that were obtained (-1: it was not).      *)
(*                                                                         *)
(* The halves are those of lab_all_tasklet.c and lab_all_workqueue.c (the  *)
(* "static" labs), with one my_data for all lines, or those of             *)
(* lab_all_tasklet_dynamic.c and lab_all_workqueue_dynamic.c (the          *)
(* "dynamic" labs), with a my_dat allocated for each interrupt, or the     *)
(* thread of lab_all_thread.c (the "thread" lab), woken by all lines.      *)
(*                                                                         *)
(* Handlers of different lines run at the same time, on different          *)
(* processors; a handler is not concurrent with itself on one line.        *)
(***************************************************************************)
EXTENDS Integers, FiniteSets

CONSTANTS
    Labs,       \* the labs a run is about
    MAXIRQS,    \* bound: interrupt lines, 256 in the code
    MaxCalls    \* bound: interrupts delivered on a line

ASSUME ConstantsAssumption ==
    /\ Labs \subseteq {"static", "dynamic", "thread"}
    /\ MAXIRQS \in Nat \ {0} /\ MaxCalls \in Nat

Irqs == 0..(MAXIRQS - 1)

VARIABLES
    lab,            \* the kind of lab that is loaded
    module,         \* next step of my_generic_init or my_generic_exit
    irq,            \* loop variable of get_irqs and freeup_irqs
    ramdisk,        \* the memory of both tables
    registered,     \* lines our handler is on
    interrupts,     \* first table
    bhs,            \* second table
    isr,            \* next operation of my_interrupt on each line
    data_irq,       \* my_data.irq (static labs)
    pending,        \* the static tasklet or work item is scheduled
    bh,             \* t_fun or w_fun of the static item is running
    cond,           \* the condition the thread waits for
    thr,            \* next operation of thr_fun
    thr_irq,        \* its local variable irq
    should_stop,    \* kthread_should_stop()
    queue,          \* allocated items on their way, by their irq (dynamic)
    calls,          \* not in the code: my_interrupt's calls that counted
    ncalls, nbhs    \* not in the code: these and bhs, all lines together

thread == <<cond, thr, thr_irq, should_stop>>
vars == <<lab, module, irq, ramdisk, registered, interrupts, bhs, isr,
          data_irq, pending, bh, queue, calls, ncalls, nbhs, thread>>

Dynamic == lab = "dynamic"

TypeOK ==
    /\ lab \in Labs
    /\ module \in {"kthread_run", "kmalloc", "misc_register", "failed", "flag",
                   "request", "succeeded", "live", "stopping", "freeup",
                   "free_irq", "deregister", "gone"}
    /\ irq \in Irqs
    /\ ramdisk \in {"none", "allocated", "freed"}
    /\ registered \in [Irqs -> BOOLEAN]
    /\ interrupts \in [Irqs -> -1..MaxCalls]
    /\ bhs \in [Irqs -> 0..(MAXIRQS * MaxCalls)]
    /\ isr \in [Irqs -> {"idle", "set_irq", "cond", "count", "schedule",
                        "delay"}]
    /\ data_irq \in Irqs
    /\ {pending, bh} \subseteq BOOLEAN
    /\ cond \in 0..1 /\ thr_irq \in Irqs /\ should_stop \in BOOLEAN
    /\ thr \in {"none", "err_ptr", "created", "irq", "clear", "test",
                "asleep", "count", "while", "ended"}
    /\ queue \in [Irqs -> 0..MaxCalls]
    /\ calls \in [Irqs -> 0..MaxCalls]
    /\ {ncalls, nbhs} \subseteq 0..(MAXIRQS * MaxCalls)

Init ==
    /\ lab \in Labs
    /\ module = IF lab = "thread" THEN "kthread_run" ELSE "kmalloc"
    /\ irq = 0 /\ ramdisk = "none"
    /\ cond = 0 /\ thr = "none" /\ thr_irq = 0 /\ should_stop = FALSE
    /\ registered = [i \in Irqs |-> FALSE]
    /\ interrupts = [i \in Irqs |-> 0] /\ bhs = [i \in Irqs |-> 0]
    /\ isr = [i \in Irqs |-> "idle"]
    /\ data_irq = 0 /\ pending = FALSE /\ bh = FALSE
    /\ queue = [i \in Irqs |-> 0] /\ calls = [i \in Irqs |-> 0]
    /\ ncalls = 0 /\ nbhs = 0

countVars == <<calls, ncalls>>
bhVars == <<data_irq, pending, bh, queue>>
halves == <<lab, bhs, nbhs, isr, bhVars, countVars, thread>>

-----------------------------------------------------------------------------
(* Loading: my_init, my_generic_init and get_irqs. *)

\* atomic_set(&cond, 1), and a thread of which nobody knows should the rest
\* of loading fail.  A failure of kthread_run is an error pointer, which the
\* test for NULL lets through.
KthreadRun ==
    /\ module = "kthread_run" /\ module' = "kmalloc"
    /\ cond' = 1 /\ thr' \in {"created", "err_ptr"}
    /\ UNCHANGED <<lab, irq, ramdisk, registered, interrupts, bhs, nbhs, isr>>
    /\ UNCHANGED <<bhVars, countVars, thr_irq, should_stop>>

\* kmalloc leaves what was there before.
KmallocRamdisk ==
    /\ module = "kmalloc"
    /\ ramdisk' = "allocated"
    /\ interrupts' \in [Irqs -> {-1, 0}]
    /\ module' = "misc_register"
    /\ UNCHANGED <<irq, registered>> /\ UNCHANGED halves

\* On a failure the function returns at once, the ramdisk still allocated.
MiscRegister ==
    /\ module = "misc_register"
    /\ module' \in {"flag", "failed"}
    /\ UNCHANGED <<irq, ramdisk, registered, interrupts>> /\ UNCHANGED halves

\* One round of get_irqs' loop, three steps.
FlagIrq ==
    /\ module = "flag"
    /\ interrupts' = [interrupts EXCEPT ![irq] = -1]
    /\ bhs' = [bhs EXCEPT ![irq] = 0]
    /\ module' = "request"
    /\ UNCHANGED <<lab, irq, ramdisk, registered, isr, nbhs, bhVars>>
    /\ UNCHANGED <<countVars, thread>>

\* The loop goes on with the next line, or is over.
NextIrq(again, over) ==
    /\ irq' = IF irq + 1 < MAXIRQS THEN irq + 1 ELSE 0
    /\ module' = IF irq + 1 < MAXIRQS THEN again ELSE over

RequestIrq ==
    /\ module = "request"
    /\ \/ /\ registered' = [registered EXCEPT ![irq] = TRUE]
          /\ module' = "succeeded" /\ UNCHANGED irq
       \/ NextIrq("flag", "live") /\ UNCHANGED registered
    /\ UNCHANGED <<ramdisk, interrupts>> /\ UNCHANGED halves

\* Mutant: the flag is not cleared.
RequestNotFlagged ==
    /\ module = "succeeded"
    /\ NextIrq("flag", "live")
    /\ UNCHANGED <<ramdisk, registered, interrupts>> /\ UNCHANGED halves

\* The line is ours already when its counter is cleared.
RequestSucceeded ==
    /\ module = "succeeded"
    /\ interrupts' = [interrupts EXCEPT ![irq] = 0]
    /\ NextIrq("flag", "live")
    /\ UNCHANGED <<ramdisk, registered>> /\ UNCHANGED halves

-----------------------------------------------------------------------------
(* Unloading: my_exit, my_generic_exit and freeup_irqs. *)

Woken == IF thr = "asleep" THEN "test" ELSE thr

\* kthread_stop: it wakes the thread up and waits for it to end.  Given an
\* error pointer it faults: no unloading follows.
KthreadStop ==
    /\ lab = "thread" /\ module = "live" /\ module' = "stopping"
    /\ thr # "err_ptr"
    /\ should_stop' = TRUE /\ thr' = Woken
    /\ UNCHANGED <<lab, irq, ramdisk, registered, interrupts, bhs, nbhs, isr>>
    /\ UNCHANGED <<bhVars, countVars, cond, thr_irq>>

MyGenericExit ==
    /\ \/ lab # "thread" /\ module = "live"
       \/ module = "stopping" /\ thr = "ended"
    /\ module' = "freeup"
    /\ UNCHANGED <<irq, ramdisk, registered, interrupts>> /\ UNCHANGED halves

\* Mutant: the comparison that the code's comment describes.
FreeupIrqIfCalled ==
    /\ module = "freeup"
    /\ \/ /\ interrupts[irq] > 0
          /\ registered' = [registered EXCEPT ![irq] = FALSE]
          /\ module' = "free_irq" /\ UNCHANGED irq
       \/ /\ interrupts[irq] <= 0
          /\ NextIrq("freeup", "deregister") /\ UNCHANGED registered
    /\ UNCHANGED <<ramdisk, interrupts>> /\ UNCHANGED halves

\* "if greater than 0, was able to share"
FreeupIrq ==
    /\ module = "freeup"
    /\ \/ /\ interrupts[irq] >= 0
          /\ registered' = [registered EXCEPT ![irq] = FALSE]
          /\ module' = "free_irq" /\ UNCHANGED irq
       \/ /\ interrupts[irq] < 0
          /\ NextIrq("freeup", "deregister") /\ UNCHANGED registered
    /\ UNCHANGED <<ramdisk, interrupts>> /\ UNCHANGED halves

\* free_irq waits for a handler in progress on its line.
FreeIrqDone ==
    /\ module = "free_irq" /\ isr[irq] = "idle"
    /\ NextIrq("freeup", "deregister")
    /\ UNCHANGED <<ramdisk, registered, interrupts>> /\ UNCHANGED halves

\* misc_deregister, kfree(ramdisk); a bottom half may still be to come.
Deregister ==
    /\ module = "deregister"
    /\ ramdisk' = "freed"
    /\ module' = "gone"
    /\ UNCHANGED <<irq, registered, interrupts>> /\ UNCHANGED halves

-----------------------------------------------------------------------------
(* The top half: my_interrupt on line i. *)

IsrVars == <<lab, module, irq, ramdisk, registered, bhs, nbhs, bh, thr_irq,
             should_stop>>

IsrEnter(i) ==
    /\ registered[i] /\ isr[i] = "idle" /\ calls[i] < MaxCalls
    /\ isr' = [isr EXCEPT ![i] = "set_irq"]
    /\ UNCHANGED <<interrupts, data_irq, pending, queue, countVars, cond, thr>>
    /\ UNCHANGED IsrVars

\* data->irq = irq, in the shared my_data or in the interrupt's own my_dat.
IsrSetIrq(i) ==
    /\ isr[i] = "set_irq"
    /\ data_irq' = IF Dynamic THEN data_irq ELSE i
    /\ isr' = [isr EXCEPT ![i] = IF lab = "thread" THEN "cond" ELSE "count"]
    /\ UNCHANGED <<interrupts, pending, queue, countVars, cond, thr>>
    /\ UNCHANGED IsrVars

\* atomic_set(&cond, 1)
IsrSetCond(i) ==
    /\ isr[i] = "cond" /\ isr' = [isr EXCEPT ![i] = "count"]
    /\ cond' = 1
    /\ UNCHANGED <<interrupts, data_irq, pending, queue, countVars, thr>>
    /\ UNCHANGED IsrVars

IsrCount(i) ==
    /\ isr[i] = "count"
    /\ interrupts' = [interrupts EXCEPT ![i] = @ + 1]
    /\ calls' = [calls EXCEPT ![i] = @ + 1] /\ ncalls' = ncalls + 1
    /\ isr' = [isr EXCEPT ![i] = "schedule"]
    /\ UNCHANGED <<data_irq, pending, queue, cond, thr>> /\ UNCHANGED IsrVars

IsrSchedule(i) ==
    /\ isr[i] = "schedule" /\ lab # "thread"
    /\ IF Dynamic
       THEN queue' = [queue EXCEPT ![i] = @ + 1] /\ UNCHANGED pending
       ELSE pending' = TRUE /\ UNCHANGED queue
    /\ isr' = [isr EXCEPT ![i] = "delay"]
    /\ UNCHANGED <<interrupts, data_irq, countVars, cond, thr>>
    /\ UNCHANGED IsrVars

\* wake_up_interruptible(&wq)
IsrWakeUp(i) ==
    /\ isr[i] = "schedule" /\ lab = "thread"
    /\ thr' = Woken
    /\ isr' = [isr EXCEPT ![i] = "delay"]
    /\ UNCHANGED <<interrupts, data_irq, pending, queue, countVars, cond>>
    /\ UNCHANGED IsrVars

IsrReturn(i) ==
    /\ isr[i] = "delay"
    /\ isr' = [isr EXCEPT ![i] = "idle"]
    /\ UNCHANGED <<interrupts, data_irq, pending, queue, countVars, cond, thr>>
    /\ UNCHANGED IsrVars

Isr(i) ==
    \/ IsrEnter(i) \/ IsrSetIrq(i) \/ IsrSetCond(i) \/ IsrCount(i)
    \/ IsrSchedule(i) \/ IsrWakeUp(i) \/ IsrReturn(i)

-----------------------------------------------------------------------------
(* The bottom half. *)

BhVars == <<lab, module, irq, ramdisk, registered, interrupts, isr, data_irq,
            countVars, thread>>

\* Mutant: an item stays queued while its function runs.
BhDynamicKept(i) ==
    /\ queue[i] > 0
    /\ bhs' = [bhs EXCEPT ![i] = @ + 1] /\ nbhs' = nbhs + 1
    /\ UNCHANGED <<pending, bh, queue>> /\ UNCHANGED BhVars

\* The static item: pending is cleared before the function is called.
BhRun ==
    /\ pending /\ ~bh
    /\ pending' = FALSE /\ bh' = TRUE
    /\ UNCHANGED <<bhs, nbhs, queue>> /\ UNCHANGED BhVars

\* atomic_inc(&bhs[data->irq])
BhCount ==
    /\ bh
    /\ bhs' = [bhs EXCEPT ![data_irq] = @ + 1] /\ nbhs' = nbhs + 1
    /\ bh' = FALSE
    /\ UNCHANGED <<pending, queue>> /\ UNCHANGED BhVars

\* An allocated item: it counts for its own line and is freed.
BhDynamic(i) ==
    /\ queue[i] > 0
    /\ queue' = [queue EXCEPT ![i] = @ - 1]
    /\ bhs' = [bhs EXCEPT ![i] = @ + 1] /\ nbhs' = nbhs + 1
    /\ UNCHANGED <<pending, bh>> /\ UNCHANGED BhVars

-----------------------------------------------------------------------------
(* The thread. *)

ThrVars == <<lab, module, irq, ramdisk, registered, interrupts, isr, bhVars,
             countVars, should_stop>>

ThrTo(from, to) == thr = from /\ thr' = to /\ UNCHANGED ThrVars

\* A thread that is stopped before it has run is not given thr_fun to call.
ThrBegin ==
    /\ ThrTo("created", IF should_stop THEN "ended" ELSE "irq")
    /\ UNCHANGED <<cond, thr_irq, bhs, nbhs>>

\* int irq = data->irq
ThrIrq ==
    /\ ThrTo("irq", "clear")
    /\ thr_irq' = data_irq /\ UNCHANGED <<cond, bhs, nbhs>>

\* atomic_set(&cond, 0)
ThrClear ==
    /\ ThrTo("clear", "test")
    /\ cond' = 0 /\ UNCHANGED <<thr_irq, bhs, nbhs>>

\* wait_event_interruptible
ThrTest ==
    /\ ThrTo("test", IF should_stop \/ cond = 1 THEN "count" ELSE "asleep")
    /\ UNCHANGED <<cond, thr_irq, bhs, nbhs>>

\* if (atomic_read(&cond) == 1) atomic_inc(&bhs[irq])
ThrCount ==
    /\ ThrTo("count", "while")
    /\ IF cond = 1
       THEN bhs' = [bhs EXCEPT ![thr_irq] = @ + 1] /\ nbhs' = nbhs + 1
       ELSE UNCHANGED <<bhs, nbhs>>
    /\ UNCHANGED <<cond, thr_irq>>

\* while (!kthread_should_stop())
ThrWhile ==
    /\ ThrTo("while", IF should_stop THEN "ended" ELSE "irq")
    /\ UNCHANGED <<cond, thr_irq, bhs, nbhs>>

ThrFun ==
    ThrBegin \/ ThrIrq \/ ThrClear \/ ThrTest \/ ThrCount \/ ThrWhile

-----------------------------------------------------------------------------

Loading ==
    \/ KthreadRun \/ KmallocRamdisk \/ MiscRegister \/ FlagIrq \/ RequestIrq
    \/ RequestSucceeded
Unloading ==
    \/ KthreadStop \/ MyGenericExit \/ FreeupIrq \/ FreeIrqDone \/ Deregister

Next ==
    \/ Loading \/ Unloading \/ BhRun \/ BhCount \/ ThrFun
    \/ \E i \in Irqs : Isr(i) \/ BhDynamic(i)

Spec == Init /\ [][Next]_vars

-----------------------------------------------------------------------------
(* Properties. *)

\* The flag freeup_irqs goes by tells the truth about every line it has not
\* dealt with, although handlers write to it before get_irqs has cleared it:
\* free_irq is called for the lines obtained and for no other.
FlagIsTrue ==
    \A i \in Irqs :
        module \in {"live", "stopping", "freeup"} /\ irq <= i =>
            (interrupts[i] >= 0 <=> registered[i])

\* rmmod leaves the handler on no line, and lab_all_thread.c's thread neither
\* counts nor waits any more when the tables go.
AllFreed ==
    module = "gone" =>
        /\ \A i \in Irqs : ~registered[i] /\ isr[i] = "idle"
        /\ lab = "thread" => thr = "ended"

\* The dynamic labs' answer to the producer/consumer problem: line by line,
\* each interrupt is a bottom half counted or an item on its way.  In the
\* others bottom halves are missing, and counted for another line, but there
\* are no more of them than interrupts: lab_all_thread.c begins with a
\* condition that is set, and sets it before it counts.
LineConservation ==
    /\ Dynamic => \A i \in Irqs :
        calls[i] = bhs[i] + queue[i] + (IF isr[i] = "schedule" THEN 1 ELSE 0)
    /\ ~Dynamic => nbhs <= ncalls + (IF lab = "thread"
            THEN Cardinality({i \in Irqs : isr[i] = "count"}) ELSE 0)

\* What freeup_irqs reports (lab_all_interrupt.h:58-61, "which had %10d,
\* %10d events") is what happened on the line: no interrupt is missing ...
CountIsKept ==
    module = "live" =>
        \A i \in Irqs : registered[i] => interrupts[i] = calls[i]

\* ... and the bottom halves of a line are its own.
BhsOfTheirLine == \A i \in Irqs : bhs[i] <= calls[i]

=============================================================================
