---------------------------- MODULE BottomHalf -----------------------------
(***************************************************************************)
(* chapter_23_deferrable_functions, four solutions of the producer and     *)
(* consumer lab with their header lab_one_interrupt.h:                     *)
(*                                                                         *)
(*   "tasklet"           lab_one_tasklet.c            one static tasklet   *)
(*   "work"              lab_one_workqueue.c          one static work item *)
(*   "tasklet_dynamic"   lab_one_tasklet_dynamic.c    one per interrupt    *)
(*   "work_dynamic"      lab_one_workqueue_dynamic.c  one per interrupt    *)
(*                                                                         *)
(* In the dynamic labs the handler allocates a my_dat, which embeds the    *)
(* item, and the bottom half frees it.  Scheduling an item that is pending *)
(* already does nothing; the pending bit is cleared before the function is *)
(* called, and an item's function never runs concurrently with itself.     *)
(*                                                                         *)
(* A freed block can be handed out to the next interrupt at once.  This    *)
(* matters for the dynamic tasklet: after t_fun, which has freed it, the   *)
(* softirq still clears the RUN bit in its state.  Workers leave the item  *)
(* of a work function alone once the function is called.                   *)
(***************************************************************************)
EXTENDS Integers, FiniteSets

CONSTANTS
    Labs,       \* the labs a run is about
    Blocks,     \* bound: the memory blocks kmalloc hands out
    Static,     \* the item of the static labs
    None,       \* no item
    MaxIrqs     \* bound: interrupts delivered during a run

ASSUME ConstantsAssumption ==
    /\ Labs \subseteq {"tasklet", "work", "tasklet_dynamic", "work_dynamic"}
    /\ IsFiniteSet(Blocks) /\ {Static, None} \cap Blocks = {}
    /\ Static # None
    /\ MaxIrqs \in Nat

Items == Blocks \cup {Static}

VARIABLES
    lab,            \* the lab that is loaded
    module,         \* where the module is between insmod and rmmod
    counter_th,     \* top halves counted
    counter_bh,     \* bottom halves counted
    isr,            \* next operation of my_interrupt, "idle" outside it
    data,           \* the handler's item
    allocated,      \* blocks that kmalloc has handed out
    pending,        \* items that are scheduled
    run,            \* RUN bit of each tasklet
    bh,             \* next operation of the function called for an item
    unlocking,      \* softirqs between t_fun's return and tasklet_unlock
    reported        \* the counter_th the last bottom half has reported

vars == <<lab, module, counter_th, counter_bh, isr, data, allocated, pending,
          run, bh, unlocking, reported>>

Dynamic == lab \in {"tasklet_dynamic", "work_dynamic"}
Tasklet == lab \in {"tasklet", "tasklet_dynamic"}

TypeOK ==
    /\ lab \in Labs
    /\ module \in {"loading", "failed", "live", "free_irq", "gone"}
    /\ {counter_th, counter_bh, reported} \subseteq 0..MaxIrqs
    /\ isr \in {"idle", "init", "inc_th", "schedule", "delay", "oops"}
    /\ data \in Items \cup {None}
    /\ allocated \subseteq Blocks
    /\ pending \subseteq (IF Dynamic THEN Blocks ELSE {Static})
    /\ run \in [Items -> BOOLEAN]
    /\ bh \in [Items -> {"idle", "inc_bh", "report"}]
    /\ unlocking \in [Items -> 0..MaxIrqs]

Init ==
    /\ lab \in Labs
    /\ module = "loading"
    /\ counter_th = 0 /\ counter_bh = 0 /\ reported = 0
    /\ isr = "idle" /\ data = None
    /\ allocated = {} /\ pending = {}
    /\ run = [b \in Items |-> FALSE]
    /\ bh = [b \in Items |-> "idle"]
    /\ unlocking = [b \in Items |-> 0]

items == <<lab, allocated, pending, run, bh, unlocking, reported>>

-----------------------------------------------------------------------------
(* Loading and unloading. *)

\* my_generic_init, after INIT_WORK in lab_one_workqueue.c.
MyInit ==
    /\ module = "loading"
    /\ counter_th' = 0 /\ counter_bh' = 0
    /\ module' \in {"live", "failed"}
    /\ UNCHANGED <<isr, data>> /\ UNCHANGED items

\* my_generic_exit: the handler is off the line, and free_irq waits for it.
\* Nobody waits for the bottom halves.
FreeIrq ==
    /\ module = "live"
    /\ module' = "free_irq"
    /\ UNCHANGED <<counter_th, counter_bh, isr, data>> /\ UNCHANGED items

FreeIrqDone ==
    /\ module = "free_irq" /\ isr = "idle"
    /\ module' = "gone"
    /\ UNCHANGED <<counter_th, counter_bh, isr, data>> /\ UNCHANGED items

-----------------------------------------------------------------------------
(* The top half: my_interrupt. *)

Interrupt == module = "live" /\ isr = "idle" /\ counter_th < MaxIrqs

IsrEnter ==
    /\ Interrupt /\ ~Dynamic
    /\ data' = Static
    /\ isr' = "inc_th"
    /\ UNCHANGED <<module, counter_th, counter_bh>> /\ UNCHANGED items

\* kmalloc(GFP_ATOMIC) may fail, and its result is used without a test.
IsrKmalloc ==
    /\ Interrupt /\ Dynamic
    /\ \/ \E b \in Blocks \ allocated :
            /\ data' = b
            /\ allocated' = allocated \cup {b}
            /\ isr' = "init"
       \/ isr' = "oops" /\ UNCHANGED <<data, allocated>>
    /\ UNCHANGED <<lab, module, counter_th, counter_bh, pending, run, bh,
                   unlocking, reported>>

\* tasklet_init or INIT_WORK: a fresh item, neither pending nor running.
IsrInitItem ==
    /\ isr = "init"
    /\ run' = [run EXCEPT ![data] = FALSE]
    /\ pending' = pending \ {data}
    /\ isr' = "inc_th"
    /\ UNCHANGED <<lab, module, counter_th, counter_bh, data, allocated, bh,
                   unlocking, reported>>

IsrCount ==
    /\ isr = "inc_th"
    /\ counter_th' = counter_th + 1
    /\ isr' = "schedule"
    /\ UNCHANGED <<module, counter_bh, data>> /\ UNCHANGED items

\* Mutant: nothing is scheduled while another item is pending, as if all
\* interrupts shared one.
IsrScheduleShared ==
    /\ isr = "schedule"
    /\ pending' = IF pending = {} THEN {data} ELSE pending
    /\ data' = None
    /\ isr' = "delay"
    /\ UNCHANGED <<lab, module, counter_th, counter_bh, allocated, run, bh,
                   unlocking, reported>>

\* From here a block belongs to the bottom half.
IsrSchedule ==
    /\ isr = "schedule"
    /\ pending' = pending \cup {data}
    /\ data' = None
    /\ isr' = "delay"
    /\ UNCHANGED <<lab, module, counter_th, counter_bh, allocated, run, bh,
                   unlocking, reported>>

IsrReturn ==
    /\ isr = "delay"
    /\ isr' = "idle"
    /\ UNCHANGED <<module, counter_th, counter_bh, data>> /\ UNCHANGED items

-----------------------------------------------------------------------------
(* The bottom half of item b: t_fun or w_fun. *)

BhVars == <<lab, module, counter_th, isr, data>>

\* The softirq takes a scheduled tasklet whose RUN bit it can set, a worker
\* takes a pending item: the pending bit is cleared, the function called.
BhRun(b) ==
    /\ b \in pending /\ ~run[b] /\ bh[b] = "idle"
    /\ pending' = pending \ {b}
    /\ run' = [run EXCEPT ![b] = Tasklet]
    /\ bh' = [bh EXCEPT ![b] = "inc_bh"]
    /\ UNCHANGED <<counter_bh, allocated, unlocking, reported>>
    /\ UNCHANGED BhVars

BhCountFreed(b) ==
    /\ bh[b] = "inc_bh"
    /\ counter_bh' = counter_bh + 1
    /\ allocated' = allocated \ {b}
    /\ bh' = [bh EXCEPT ![b] = "report"]
    /\ UNCHANGED <<pending, run, unlocking, reported>> /\ UNCHANGED BhVars

BhCount(b) ==
    /\ bh[b] = "inc_bh"
    /\ counter_bh' = counter_bh + 1
    /\ bh' = [bh EXCEPT ![b] = "report"]
    /\ UNCHANGED <<allocated, pending, run, unlocking, reported>>
    /\ UNCHANGED BhVars

\* Mutant: the arguments of the report are swapped.
BhReportSwapped(b) ==
    /\ bh[b] = "report"
    /\ reported' = counter_bh
    /\ allocated' = allocated \ {b}
    /\ bh' = [bh EXCEPT ![b] = "idle"]
    /\ unlocking' = [unlocking EXCEPT ![b] = IF Tasklet THEN @ + 1 ELSE @]
    /\ UNCHANGED <<counter_bh, pending, run>> /\ UNCHANGED BhVars

\* pr_info reads the counters and the item's data; kfree, in the dynamic labs.
BhReport(b) ==
    /\ bh[b] = "report"
    /\ reported' = counter_th
    /\ allocated' = allocated \ {b}
    /\ bh' = [bh EXCEPT ![b] = "idle"]
    /\ unlocking' = [unlocking EXCEPT ![b] = IF Tasklet THEN @ + 1 ELSE @]
    /\ UNCHANGED <<counter_bh, pending, run>> /\ UNCHANGED BhVars

\* tasklet_unlock: the softirq writes to a block that t_fun has freed and
\* that another interrupt may own by now.
SoftirqUnlock(b) ==
    /\ unlocking[b] > 0
    /\ unlocking' = [unlocking EXCEPT ![b] = @ - 1]
    /\ run' = [run EXCEPT ![b] = FALSE]
    /\ UNCHANGED <<counter_bh, allocated, pending, bh, reported>>
    /\ UNCHANGED BhVars

Bh(b) == BhRun(b) \/ BhCount(b) \/ BhReport(b) \/ SoftirqUnlock(b)

-----------------------------------------------------------------------------

Next ==
    \/ MyInit \/ FreeIrq \/ FreeIrqDone
    \/ IsrEnter \/ IsrKmalloc \/ IsrInitItem \/ IsrCount \/ IsrSchedule
    \/ IsrReturn
    \/ \E b \in Items : Bh(b)

\* Handlers run to their end, every scheduled item is run; no interrupt and
\* no rmmod has to come.
Fairness ==
    /\ WF_vars(IsrInitItem \/ IsrCount \/ IsrSchedule \/ IsrReturn)
    /\ \A b \in Items : WF_vars(Bh(b))

Spec == Init /\ [][Next]_vars /\ Fairness

-----------------------------------------------------------------------------
(* Properties. *)

HeldByIsr == IF isr \in {"init", "inc_th", "schedule"} THEN {data} ELSE {}
Running == {b \in Items : bh[b] # "idle"}

\* No block leaks and none is used after its kfree by the module's own code:
\* what is allocated is what the handler, the queue or a bottom half holds,
\* and no two of them hold the same block.
OwnedBlocks ==
    Dynamic =>
        /\ allocated = HeldByIsr \cup pending \cup Running
        /\ pending \cap Running = {}
        /\ HeldByIsr \cap (pending \cup Running) = {}

\* Coalescing loses runs but not news: when everything is quiet the last run
\* has seen every interrupt, whatever the order in which the items ran.
LastRunSawAll ==
    isr = "idle" /\ pending = {} /\ Running = {} => reported = counter_th

\* The aim of the exercise, none lost, is met by the dynamic labs: their two
\* halves are the event service, liveness included.
ES == INSTANCE EventService WITH
          raised <- IF Dynamic THEN counter_th ELSE 0,
          handled <- IF Dynamic THEN counter_bh ELSE 0
ImplementsEventService == ES!Spec

=============================================================================
