-------------------------- MODULE BottomHalfProofs --------------------------
(***************************************************************************)
(* What the labs with one bottom half promise, for any finite set of       *)
(* blocks and any number of interrupts: a block of the dynamic labs has    *)
(* one owner from kmalloc to kfree, the last run has seen every interrupt, *)
(* and the halves of the dynamic labs implement the event service.         *)
(*                                                                         *)
(* The second part is about packets, the items of the network drivers, and *)
(* about the device they belong to.                                        *)
(***************************************************************************)
EXTENDS BottomHalf, FiniteSetTheorems, FunctionTheorems, TLAPS

Holding == isr \in {"init", "inc_th", "schedule"}

\* The part of TypeOK the proofs need; the bounds of a run are left out.
Shape ==
    /\ counter_th \in Int /\ counter_bh \in Int
    /\ isr \in {"idle", "init", "inc_th", "schedule", "delay", "oops"}
    /\ pending \subseteq Items
    /\ bh \in [Items -> {"idle", "inc_bh", "report"}]
    /\ isr = "init" => Dynamic
    /\ Holding => data \in Items

\* my_init resets counters that nobody is using.
Unloaded ==
    module = "loading" =>
        /\ isr = "idle" /\ pending = {} /\ Running = {}
        /\ counter_th = 0 /\ counter_bh = 0 /\ reported = 0

\* The handler gives its block away when it schedules it, the queue when it
\* is run.
Owned == OwnedBlocks /\ (Dynamic => allocated \subseteq Blocks)

\* LastRunSawAll with the handler and the queue in progress.
Seen ==
    \/ reported = counter_th
    \/ pending # {} \/ Running # {} \/ isr = "schedule"

\* Items whose bottom half has not been counted yet.
Waiting == pending \cup {b \in Items : bh[b] = "inc_bh"}

\* One uncounted item for each interrupt that has no bottom half yet.
Counted ==
    Dynamic =>
        counter_th = counter_bh + Cardinality(Waiting)
                        + (IF isr = "schedule" THEN 1 ELSE 0)

IInv == Shape /\ Unloaded /\ Owned /\ Seen /\ Counted

-----------------------------------------------------------------------------
(* Each part is preserved by every step. *)

LEMMA FiniteWaiting == Shape => IsFiniteSet(Waiting)
<1> SUFFICES ASSUME Shape PROVE IsFiniteSet(Waiting)
    OBVIOUS
<1>1. IsFiniteSet(Items)
    BY ConstantsAssumption, FS_AddElement DEF Items
<1> QED
    BY <1>1, FS_Subset DEF Shape, Waiting

LEMMA InitIInv == Init => IInv
<1> SUFFICES ASSUME Init PROVE IInv
    OBVIOUS
<1>1. Waiting = {} /\ Running = {}
    BY DEF Init, Waiting, Running
<1>2. Shape /\ Unloaded /\ Owned /\ Seen
    BY <1>1 DEF Init, Shape, Unloaded, Owned, OwnedBlocks, HeldByIsr,
                Holding, Seen
<1>3. Counted
    BY <1>1, FS_EmptySet DEF Init, Counted
<1> QED
    BY <1>2, <1>3 DEF IInv

LEMMA ShapeStep == IInv /\ [Next]_vars => Shape'
<1> SUFFICES ASSUME IInv, [Next]_vars PROVE Shape'
    OBVIOUS
<1> USE DEF IInv, Shape, Holding, Dynamic, items, BhVars
<1>1. CASE MyInit \/ FreeIrq \/ FreeIrqDone \/ UNCHANGED vars
    BY <1>1 DEF MyInit, FreeIrq, FreeIrqDone, vars
<1>2. CASE IsrEnter \/ IsrKmalloc \/ IsrCount \/ IsrReturn
    BY <1>2 DEF IsrEnter, IsrKmalloc, IsrCount, IsrReturn, Interrupt, Items
<1>3. CASE IsrInitItem \/ IsrSchedule
    BY <1>3 DEF IsrInitItem, IsrSchedule
<1>4. ASSUME NEW b \in Items, Bh(b) PROVE Shape'
    BY <1>4 DEF Bh, BhRun, BhCount, BhReport, SoftirqUnlock
<1> QED
    BY <1>1, <1>2, <1>3, <1>4 DEF Next

\* my_init runs before there is a handler, and interrupts come after it.
LEMMA UnloadedStep == IInv /\ [Next]_vars => Unloaded'
<1> SUFFICES ASSUME IInv, [Next]_vars PROVE Unloaded'
    OBVIOUS
<1> USE DEF IInv, Shape, Unloaded, Running, items, BhVars
<1>1. CASE MyInit \/ FreeIrq \/ FreeIrqDone \/ UNCHANGED vars
    BY <1>1 DEF MyInit, FreeIrq, FreeIrqDone, vars
<1>2. CASE IsrEnter \/ IsrKmalloc
    BY <1>2 DEF IsrEnter, IsrKmalloc, Interrupt
<1>3. CASE IsrInitItem \/ IsrCount \/ IsrSchedule \/ IsrReturn
    BY <1>3 DEF IsrInitItem, IsrCount, IsrSchedule, IsrReturn
<1>4. ASSUME NEW b \in Items, Bh(b) PROVE Unloaded'
    BY <1>4 DEF Bh, BhRun, BhCount, BhReport, SoftirqUnlock
<1> QED
    BY <1>1, <1>2, <1>3, <1>4 DEF Next

\* A block changes hands: from kmalloc to the handler, to the queue, to the
\* bottom half, to kfree.
LEMMA OwnedStep == IInv /\ [Next]_vars => Owned'
<1> SUFFICES ASSUME IInv, [Next]_vars PROVE Owned'
    OBVIOUS
<1> USE DEF IInv, Shape, Owned, OwnedBlocks, HeldByIsr, Holding, Running,
            Dynamic, items, BhVars
<1>1. CASE MyInit \/ FreeIrq \/ FreeIrqDone \/ UNCHANGED vars
    BY <1>1 DEF MyInit, FreeIrq, FreeIrqDone, vars
<1>2. CASE IsrEnter
    BY <1>2 DEF IsrEnter
<1>3. CASE IsrKmalloc
    BY <1>3 DEF IsrKmalloc, Interrupt
<1>4. CASE IsrInitItem
    BY <1>4 DEF IsrInitItem
<1>5. CASE IsrSchedule
    BY <1>5 DEF IsrSchedule
<1>6. CASE IsrCount \/ IsrReturn
    BY <1>6 DEF IsrCount, IsrReturn
<1>7. ASSUME NEW b \in Items, Bh(b) PROVE Owned'
    <2>1. CASE BhRun(b)
        BY <2>1 DEF BhRun
    <2>2. CASE BhReport(b)
        BY <2>2 DEF BhReport
    <2>3. CASE BhCount(b) \/ SoftirqUnlock(b)
        BY <2>3 DEF BhCount, SoftirqUnlock
    <2> QED
        BY <1>7, <2>1, <2>2, <2>3 DEF Bh
<1> QED
    BY <1>1, <1>2, <1>3, <1>4, <1>5, <1>6, <1>7 DEF Next

\* An interrupt counted after the last report still has its item to come.
LEMMA SeenStep == IInv /\ [Next]_vars => Seen'
<1> SUFFICES ASSUME IInv, [Next]_vars PROVE Seen'
    OBVIOUS
<1> USE DEF IInv, Shape, Seen, Running, Dynamic, items, BhVars
<1>1. CASE MyInit
    BY <1>1 DEF MyInit, Unloaded
<1>2. CASE FreeIrq \/ FreeIrqDone \/ UNCHANGED vars
    BY <1>2 DEF FreeIrq, FreeIrqDone, vars
<1>3. CASE IsrEnter \/ IsrKmalloc
    BY <1>3 DEF IsrEnter, IsrKmalloc, Interrupt
<1>4. CASE IsrInitItem
    BY <1>4 DEF IsrInitItem, Owned, OwnedBlocks, HeldByIsr, Holding, Running
<1>5. CASE IsrCount \/ IsrSchedule \/ IsrReturn
    BY <1>5 DEF IsrCount, IsrSchedule, IsrReturn
<1>6. ASSUME NEW b \in Items, Bh(b) PROVE Seen'
    BY <1>6 DEF Bh, BhRun, BhCount, BhReport, SoftirqUnlock
<1> QED
    BY <1>1, <1>2, <1>3, <1>4, <1>5, <1>6 DEF Next

-----------------------------------------------------------------------------
(* The count of the items that wait. *)

LEMMA WaitingScheduled ==
    ASSUME IInv, IsrSchedule, Dynamic
    PROVE  Cardinality(Waiting') = Cardinality(Waiting) + 1
<1>1. data \notin Waiting
    BY DEF IInv, Shape, Owned, OwnedBlocks, HeldByIsr, Holding, IsrSchedule,
       Waiting, Running
<1>2. Waiting' = Waiting \cup {data}
    BY DEF IsrSchedule, Waiting
<1> QED
    BY <1>1, <1>2, FiniteWaiting, FS_AddElement DEF IInv

LEMMA WaitingCounted ==
    ASSUME IInv, NEW b \in Items, BhCount(b), Dynamic
    PROVE  /\ Cardinality(Waiting') = Cardinality(Waiting) - 1
           /\ Cardinality(Waiting) > 0
<1>1. b \in Waiting /\ b \notin pending
    BY DEF IInv, Shape, Owned, OwnedBlocks, BhCount, Waiting, Running
<1>2. Waiting' = Waiting \ {b}
    BY <1>1 DEF IInv, Shape, BhCount, Waiting
<1>3. IsFiniteSet(Waiting)
    BY FiniteWaiting DEF IInv
<1>4. Cardinality(Waiting) \in Nat /\ Cardinality(Waiting) # 0
    BY <1>1, <1>3, FS_CardinalityType, FS_EmptySet
<1>5. Cardinality(Waiting \ {b}) = Cardinality(Waiting) - 1
    BY <1>1, <1>3, FS_RemoveElement
<1> QED
    BY <1>2, <1>4, <1>5

LEMMA CountedStep == IInv /\ [Next]_vars => Counted'
<1> SUFFICES ASSUME IInv, [Next]_vars, Dynamic' PROVE Counted'
    BY DEF Counted
<1> DEFINE Same == Waiting' = Waiting
<1>0. Dynamic
    BY DEF Next, MyInit, FreeIrq, FreeIrqDone, IsrEnter, IsrKmalloc,
           IsrInitItem, IsrCount, IsrSchedule, IsrReturn, Bh, BhRun, BhCount,
           BhReport, SoftirqUnlock, items, BhVars, vars, Dynamic
<1>a. Cardinality(Waiting) \in Nat
    BY FiniteWaiting, FS_CardinalityType DEF IInv
<1>b. ASSUME NEW b \in Items, BhCount(b)
      PROVE  Cardinality(Waiting') = Cardinality(Waiting) - 1
    BY <1>0, <1>b, WaitingCounted
<1> USE <1>0, <1>a DEF IInv, Shape, Counted, items, BhVars
<1>1. CASE MyInit
    <2>1. Waiting = {} /\ Waiting' = {}
        BY <1>1 DEF MyInit, Unloaded, Waiting, Running
    <2> QED
        BY <1>1, <2>1, FS_EmptySet DEF MyInit, Unloaded
<1>2. CASE FreeIrq \/ FreeIrqDone \/ IsrReturn \/ IsrCount \/ UNCHANGED vars
    <2>1. Same
        BY <1>2 DEF FreeIrq, FreeIrqDone, IsrReturn, IsrCount, vars, Waiting
    <2> QED
        BY <1>2, <2>1
           DEF FreeIrq, FreeIrqDone, IsrReturn, IsrCount, vars
<1>3. CASE IsrEnter
    BY <1>3 DEF IsrEnter
<1>4. CASE IsrKmalloc
    <2>1. Same
        BY <1>4 DEF IsrKmalloc, Waiting
    <2> QED
        BY <1>4, <2>1 DEF IsrKmalloc, Interrupt
<1>5. CASE IsrInitItem
    <2>1. Same
        BY <1>5 DEF IsrInitItem, Waiting, Owned, OwnedBlocks, HeldByIsr,
           Running, Holding
    <2> QED
        BY <1>5, <2>1 DEF IsrInitItem
<1>6. CASE IsrSchedule
    BY <1>6, WaitingScheduled DEF IsrSchedule
<1>7. ASSUME NEW b \in Items, Bh(b) PROVE Counted'
    <2>1. CASE BhCount(b)
        <3>1. Cardinality(Waiting') = Cardinality(Waiting) - 1
            BY <2>1, <1>b
        <3> QED
            BY <2>1, <3>1 DEF BhCount
    <2>2. CASE BhRun(b) \/ BhReport(b) \/ SoftirqUnlock(b)
        <3>1. Same
            BY <2>2 DEF BhRun, BhReport, SoftirqUnlock, Waiting
        <3> QED
            BY <2>2, <3>1 DEF BhRun, BhReport, SoftirqUnlock
    <2> QED
        BY <1>7, <2>1, <2>2 DEF Bh
<1> QED
    BY <1>1, <1>2, <1>3, <1>4, <1>5, <1>6, <1>7 DEF Next

-----------------------------------------------------------------------------
(* The theorems. *)

THEOREM Invariance == Spec => []IInv
<1>1. IInv /\ [Next]_vars => IInv'
    BY ShapeStep, UnloadedStep, OwnedStep, SeenStep, CountedStep DEF IInv
<1> QED
    BY <1>1, InitIInv, PTL DEF Spec

\* No block of the dynamic labs leaks and none is freed while the handler,
\* the queue or another bottom half holds it, however many there are.
THEOREM BlocksHaveOwners == Spec => []OwnedBlocks
BY Invariance, PTL DEF IInv, Owned

\* Coalesced or not, the last bottom half has reported every interrupt.
THEOREM LastRunIsCurrent == Spec => []LastRunSawAll
<1>1. IInv => LastRunSawAll
    BY DEF IInv, Seen, LastRunSawAll
<1> QED
    BY <1>1, Invariance, PTL

\* Every step of the dynamic labs raises one event, handles one that was
\* raised, or is invisible; a bottom half never outruns its top half.
LEMMA StepRefines == IInv /\ [Next]_vars => [ES!Next]_(ES!vars)
<1> SUFFICES ASSUME IInv, [Next]_vars PROVE [ES!Next]_(ES!vars)
    OBVIOUS
<1> USE DEF IInv, Shape, items, BhVars, Dynamic, ES!vars
<1>1. CASE MyInit
    BY <1>1 DEF MyInit, Unloaded
<1>2. CASE IsrCount
    BY <1>2 DEF IsrCount, ES!Next, ES!Raise
<1>3. ASSUME NEW b \in Items, BhCount(b) PROVE [ES!Next]_(ES!vars)
    <2>1. CASE Dynamic
        <3>1. counter_bh < counter_th
            <4>1. Cardinality(Waiting) \in Nat
                BY FiniteWaiting, FS_CardinalityType
            <4> QED
                BY <1>3, <2>1, <4>1, WaitingCounted DEF Counted
        <3> QED
            BY <1>3, <2>1, <3>1 DEF BhCount, ES!Next, ES!Handle
    <2> QED
        BY <1>3, <2>1 DEF BhCount
<1>4. CASE FreeIrq \/ FreeIrqDone \/ UNCHANGED vars
    BY <1>4 DEF FreeIrq, FreeIrqDone, vars
<1>5. CASE IsrEnter \/ IsrKmalloc \/ IsrInitItem \/ IsrSchedule \/ IsrReturn
    BY <1>5 DEF IsrEnter, IsrKmalloc, IsrInitItem, IsrSchedule, IsrReturn
<1>6. ASSUME NEW b \in Items, BhRun(b) \/ BhReport(b) \/ SoftirqUnlock(b)
      PROVE  [ES!Next]_(ES!vars)
    BY <1>6 DEF BhRun, BhReport, SoftirqUnlock
<1> QED
    BY <1>1, <1>2, <1>3, <1>4, <1>5, <1>6 DEF Next, Bh

\* The dynamic labs implement the event service's safety, for any number of
\* blocks and interrupts.
THEOREM RefinesEventService == Spec => ES!SafeSpec
<1>1. Init => ES!Init
    BY DEF Init, ES!Init
<1> QED
    BY <1>1, StepRefines, Invariance, PTL DEF Spec, ES!SafeSpec


-----------------------------------------------------------------------------
(* The types and their bounds. *)

\* The items of the lab that is loaded.
Ours == IF Dynamic THEN Blocks ELSE {Static}

\* In the static labs no interrupt is counted twice by the one item.
Coalesced ==
    ~Dynamic =>
        /\ isr # "init" /\ \A b \in Items : b # Static => bh[b] = "idle"
        /\ counter_bh + (IF bh[Static] = "inc_bh" THEN 1 ELSE 0)
                      + (IF Static \in pending THEN 1 ELSE 0)
                      + (IF isr = "schedule" THEN 1 ELSE 0) <= counter_th

\* A softirq unlocks an item for which a bottom half has been counted; the
\* interrupts counted are those that may come.
Bounds ==
    /\ isr \in {"init", "inc_th"} => counter_th < MaxIrqs
    /\ Holding => data \in Ours
    /\ counter_bh <= counter_th
    /\ \A b \in Items :
            unlocking[b] + (IF bh[b] = "report" THEN 1 ELSE 0) <= counter_bh

TypeInv == TypeOK /\ Coalesced /\ Bounds

LEMMA InitTypeInv == Init => TypeInv
<1> SUFFICES ASSUME Init PROVE TypeInv
    OBVIOUS
<1>1. Coalesced /\ Bounds
    BY ConstantsAssumption DEF Init, Coalesced, Bounds, Holding, Items
<1>2. TypeOK
    BY ConstantsAssumption DEF Init, TypeOK
<1> QED
    BY <1>1, <1>2 DEF TypeInv

LEMMA IsrTypeInv ==
    ASSUME TypeInv,
           \/ IsrEnter \/ IsrKmalloc \/ IsrInitItem \/ IsrCount \/ IsrSchedule
           \/ IsrReturn
    PROVE  TypeInv'
<1> USE ConstantsAssumption
    DEF TypeInv, TypeOK, Coalesced, Bounds, Holding, Ours, Dynamic, Items,
        Interrupt, items
<1>1. CASE IsrEnter
    BY <1>1 DEF IsrEnter
<1>2. CASE IsrKmalloc
    BY <1>2 DEF IsrKmalloc
<1>3. CASE IsrInitItem
    BY <1>3 DEF IsrInitItem
<1>4. CASE IsrCount
    BY <1>4 DEF IsrCount
<1>5. CASE IsrSchedule
    BY <1>5 DEF IsrSchedule
<1>6. CASE IsrReturn
    BY <1>6 DEF IsrReturn
<1> QED
    BY <1>1, <1>2, <1>3, <1>4, <1>5, <1>6

\* That a bottom half does not outrun its top half is the event service's
\* part in the dynamic labs.
LEMMA BhTypeInv ==
    ASSUME TypeInv, NEW b \in Items, Bh(b),
           Dynamic => counter_bh' <= counter_th'
    PROVE  TypeInv'
<1> USE ConstantsAssumption
    DEF TypeInv, TypeOK, Coalesced, Bounds, Holding, Ours, Dynamic, Items,
        BhVars
<1>1. CASE BhRun(b)
    <2>1. run' \in [Items -> BOOLEAN]
        <3>1. Tasklet \in BOOLEAN
            BY DEF Tasklet
        <3> QED
            BY <1>1, <3>1 DEF BhRun
    <2>2. TypeOK'
        BY <1>1, <2>1 DEF BhRun
    <2>3. Coalesced' /\ Bounds'
        BY <1>1 DEF BhRun
    <2> QED
        BY <2>2, <2>3
<1>2. CASE BhCount(b)
    BY <1>2 DEF BhCount
<1>3. CASE BhReport(b)
    BY <1>3 DEF BhReport
<1>4. CASE SoftirqUnlock(b)
    BY <1>4 DEF SoftirqUnlock
<1> QED
    BY <1>1, <1>2, <1>3, <1>4 DEF Bh

LEMMA CountedBounds == IInv => (Dynamic => counter_bh <= counter_th)
<1> SUFFICES ASSUME IInv, Dynamic PROVE counter_bh <= counter_th
    OBVIOUS
<1>1. Cardinality(Waiting) \in Nat
    BY FiniteWaiting, FS_CardinalityType DEF IInv
<1> QED
    BY <1>1 DEF IInv, Counted, Shape

\* The counters stay within the interrupts that came, and the items within
\* those of the lab.
THEOREM TypeCorrect == Spec => []TypeOK
<1>1. IInv /\ IInv' /\ TypeInv /\ [Next]_vars => TypeInv'
    <2> SUFFICES ASSUME IInv, IInv', TypeInv, [Next]_vars PROVE TypeInv'
        OBVIOUS
    <2>1. CASE MyInit
        <3>1. UNCHANGED <<counter_th, counter_bh>>
            BY <2>1 DEF MyInit, IInv, Unloaded
        <3> QED
            BY <2>1, <3>1 DEF MyInit, items, TypeInv, TypeOK, Coalesced,
               Bounds, Holding, Ours, Dynamic
    <2>2. CASE FreeIrq \/ FreeIrqDone \/ UNCHANGED vars
        BY <2>2 DEF FreeIrq, FreeIrqDone, items, vars, TypeInv, TypeOK,
           Coalesced, Bounds, Holding, Ours, Dynamic
    <2>3. ASSUME NEW b \in Items, Bh(b) PROVE TypeInv'
        <3>1. Dynamic' <=> Dynamic
            BY <2>3 DEF Bh, BhRun, BhCount, BhReport, SoftirqUnlock, BhVars,
               Dynamic
        <3>2. (Dynamic => counter_bh <= counter_th)'
            BY CountedBounds, PTL
        <3> QED
            BY <2>3, <3>1, <3>2, BhTypeInv
    <2> QED
        BY <2>1, <2>2, <2>3, IsrTypeInv DEF Next
<1>2. TypeInv => TypeOK
    BY DEF TypeInv
<1> QED
    BY <1>1, <1>2, InitTypeInv, Invariance, PTL DEF Spec

\* What the event service's liveness rests on in the dynamic labs: an
\* interrupt that has no bottom half yet has its item scheduled or called, or
\* about to be scheduled by the handler.
NoneForgotten ==
    Dynamic /\ counter_bh < counter_th => isr = "schedule" \/ Waiting # {}

\* No bottom half waits for an interrupt yet to come.
THEOREM WorkIsOnItsWay == Spec => []NoneForgotten
<1>1. IInv => NoneForgotten
    BY FS_EmptySet DEF IInv, Counted, Shape, NoneForgotten
<1> QED
    BY <1>1, Invariance, PTL

-----------------------------------------------------------------------------
(* The packets of the network drivers are memory that is handed on as well:*)
(* whoever has one, the driver, the queue, the stack, it is freed once, by *)
(* its owner, for any set of packets and in all four drivers; and the      *)
(* drivers that count count each packet once.  N is Net, with names of its *)
(* own for its labs and for no packet.                                     *)

CONSTANTS Drivers, Packets, NoPacket, MaxUps

VARIABLES dev, link, stopped, skb, kfrees, xmit, cur, txBytes, txPackets,
          rxBytes, rxPackets, ups, reader, seenRx, seenTx

N == INSTANCE Net WITH Labs <- Drivers, None <- NoPacket

\* The parts of TypeOK the argument needs.
NetShape ==
    /\ cur \in Packets \cup {NoPacket}
    /\ skb \in [Packets -> {"unsent", "queued", "driver", "backlog", "through",
                            "dropped"}]
    /\ kfrees \in [Packets -> Nat]

\* The driver has the packet it was called with until it frees it or, in
\* lab_receive.c, hands it to the stack.
Owns ==
    \/ xmit \in {"print", "kfree"}
    \/ lab = "receive" /\ xmit \in {"bytes", "packets", "rx_bytes",
                                   "rx_packets", "netif_rx"}

\* It has that packet and no other.
OwnsCur ==
    /\ \A p \in Packets : skb[p] = "driver" <=> Owns /\ cur = p
    /\ Owns => cur \in Packets

\* lab_receive.c never frees, and only it receives.
Path ==
    /\ xmit = "kfree" => lab # "receive"
    /\ xmit \in {"rx_bytes", "rx_packets", "netif_rx"} => lab = "receive"

Freed ==
    \A p \in Packets :
        kfrees[p] = IF skb[p] \in {"through", "dropped"} THEN 1 ELSE 0

\* The inductive invariant.  Freed needs OwnsCur: a packet that is freed has
\* not been freed before, because the driver, the queue or the backlog has it.
NetInv == NetShape /\ OwnsCur /\ Path /\ Freed

LEMMA InitNetInv == N!Init => NetInv
BY DEF N!Init, NetInv, NetShape, OwnsCur, Owns, Path, Freed

\* my_start_xmit and my_rx, statement by statement.
LEMMA XmitIInv == NetInv /\ N!MyStartXmit => NetInv'
<1> SUFFICES ASSUME NetInv, N!MyStartXmit PROVE NetInv'
    OBVIOUS
<1> USE DEF NetInv, NetShape, OwnsCur, Owns, Path, Freed, N!XmitTo, N!devVars,
            N!linkVars, N!skbVars, N!statVars, N!readVars
<1>1. CASE N!PrintPacket
    BY <1>1 DEF N!PrintPacket
<1>2. CASE N!DevKfreeSkb
    BY <1>2 DEF N!DevKfreeSkb
<1>3. CASE N!TxBytes
    BY <1>3 DEF N!TxBytes
<1>4. CASE N!TxPackets
    BY <1>4 DEF N!TxPackets
<1>5. CASE N!RxBytes
    BY <1>5 DEF N!RxBytes
<1>6. CASE N!RxPackets
    BY <1>6 DEF N!RxPackets
<1>7. CASE N!NetifRx
    BY <1>7 DEF N!NetifRx
<1>8. CASE N!XmitReturn
    BY <1>8 DEF N!XmitReturn
<1> QED
    BY <1>1, <1>2, <1>3, <1>4, <1>5, <1>6, <1>7, <1>8 DEF N!MyStartXmit

\* The core and the stack: queueing, calling, dropping and delivering.
LEMMA CoreIInv ==
    NetInv /\ (N!Deactivate \/ \E p \in Packets :
                                N!Send(p) \/ N!StartXmit(p) \/ N!Deliver(p))
        => NetInv'
<1> SUFFICES ASSUME NetInv,
                    \/ N!Deactivate
                    \/ \E p \in Packets :
                            N!Send(p) \/ N!StartXmit(p) \/ N!Deliver(p)
             PROVE  NetInv'
    OBVIOUS
<1> USE DEF NetInv, NetShape, OwnsCur, Owns, Path, Freed, N!devVars,
            N!linkVars, N!skbVars, N!statVars, N!readVars
<1>1. CASE N!Deactivate
    BY <1>1 DEF N!Deactivate
<1>2. ASSUME NEW p \in Packets, N!Send(p) PROVE NetInv'
    BY <1>2 DEF N!Send
<1>3. ASSUME NEW p \in Packets, N!StartXmit(p) PROVE NetInv'
    BY <1>3 DEF N!StartXmit
<1>4. ASSUME NEW p \in Packets, N!Deliver(p) PROVE NetInv'
    BY <1>4 DEF N!Deliver
<1> QED
    BY <1>1, <1>2, <1>3, <1>4

\* Everything else leaves packets and the transmission alone.
Quiet == UNCHANGED <<lab, N!skbVars, xmit, cur>>

LEMMA OtherIInv == NetInv /\ Quiet => NetInv'
BY DEF Quiet, NetInv, NetShape, OwnsCur, Owns, Path, Freed, N!skbVars

LEMMA OtherSteps ==
    ASSUME \/ N!AllocNetdev \/ N!RegisterNetdev \/ N!MyExit
           \/ N!UnregisterNetdev \/ N!FreeNetdev \/ N!MyOpen \/ N!MyClose
           \/ N!MyGetStats \/ N!CopyRx \/ N!CopyTx
    PROVE  Quiet
BY DEF Quiet, N!AllocNetdev, N!RegisterNetdev, N!MyExit, N!UnregisterNetdev,
       N!FreeNetdev, N!MyOpen, N!MyClose, N!MyGetStats, N!CopyRx, N!CopyTx,
       N!devVars, N!linkVars, N!skbVars, N!statVars, N!readVars

LEMMA StutterIInv == NetInv /\ UNCHANGED N!vars => NetInv'
<1>1. UNCHANGED N!vars => Quiet
    BY DEF Quiet, N!vars, N!devVars, N!skbVars
<1> QED
    BY <1>1, OtherIInv

THEOREM NetInvariance == N!Spec => []NetInv
<1>1. NetInv /\ N!Next => NetInv'
    <2> SUFFICES ASSUME NetInv, N!Next PROVE NetInv'
        OBVIOUS
    <2>1. CASE N!MyStartXmit
        BY <2>1, XmitIInv
    <2>2. CASE N!Deactivate
        BY <2>2, CoreIInv
    <2>3. ASSUME NEW p \in Packets, N!Send(p) \/ N!StartXmit(p) \/ N!Deliver(p)
          PROVE  NetInv'
        BY <2>3, CoreIInv
    <2>4. CASE \/ N!AllocNetdev \/ N!RegisterNetdev \/ N!MyExit
               \/ N!UnregisterNetdev \/ N!FreeNetdev \/ N!MyOpen \/ N!MyClose
               \/ N!MyGetStats \/ N!CopyRx \/ N!CopyTx
        BY <2>4, OtherSteps, OtherIInv
    <2> QED
        BY <2>1, <2>2, <2>3, <2>4 DEF N!Next
<1>2. NetInv /\ [N!Next]_(N!vars) => NetInv'
    BY <1>1, StutterIInv
<1> QED
    BY <1>2, InitNetInv, PTL DEF N!Spec

\* A packet is freed once when it is through or dropped and never before, and
\* the driver keeps none after its call.
THEOREM FreedOnce == N!Spec => []N!SkbFreedOnce
<1>1. NetInv => N!SkbFreedOnce
    BY DEF NetInv, OwnsCur, Owns, Freed, N!SkbFreedOnce
<1> QED
    BY <1>1, NetInvariance, PTL

-----------------------------------------------------------------------------
(* The statistics. *)

\* How far a transmission has come with its packet: counted after it was freed
\* in lab_transmit.c, before it is handed on in lab_receive.c.
Sent ==
    /\ lab = "transmit" => txPackets = Cardinality(N!Transmitted)
            - (IF xmit \in {"bytes", "packets"} THEN 1 ELSE 0)
    /\ lab = "receive" => txPackets = Cardinality(N!Transmitted)
            + (IF xmit \in {"rx_bytes", "rx_packets", "netif_rx"} THEN 1
               ELSE 0)

Received ==
    /\ lab = "receive" =>
        /\ rxPackets = txPackets
                - (IF xmit \in {"rx_bytes", "rx_packets"} THEN 1 ELSE 0)
        /\ rxBytes = txBytes
                - (IF xmit \in {"packets", "rx_bytes"} THEN cur ELSE 0)
    /\ lab # "receive" => rxPackets = 0

\* Reception is behind at all times, so it is for a copy taken first.
Copied ==
    /\ reader = "tx" => seenRx <= txPackets
    /\ reader = "done" => seenRx <= seenTx

Numbers ==
    /\ lab \in {"stub", "simple", "transmit", "receive"}
    /\ txPackets \in Nat /\ rxPackets \in Int
    /\ txBytes \in Int /\ rxBytes \in Int
    /\ seenRx \in Int /\ seenTx \in Int

StatsInv == Numbers /\ Sent /\ Received /\ Copied

\* What Net assumes of its constants.
NetConstants ==
    /\ Drivers \subseteq {"stub", "simple", "transmit", "receive"}
    /\ Packets \subseteq Nat \ {0} /\ IsFiniteSet(Packets)
    /\ NoPacket \notin Packets /\ MaxUps \in Nat

\* The instance brings a Cardinality of its own.
LEMMA SameCardinality == \A S : N!Cardinality(S) = Cardinality(S)
BY DEF N!Cardinality, Cardinality, N!IsFiniteSet, IsFiniteSet

LEMMA FiniteTransmitted ==
    ASSUME NetConstants
    PROVE  IsFiniteSet(N!Transmitted) /\ Cardinality(N!Transmitted) \in Nat
<1>1. IsFiniteSet(N!Transmitted)
    BY FS_Subset DEF NetConstants, N!Transmitted
<1> QED
    BY <1>1, FS_CardinalityType

\* The packet that the driver gives away is transmitted with that.
LEMMA GivenAway ==
    ASSUME NetConstants, NetInv, N!DevKfreeSkb \/ N!NetifRx
    PROVE  Cardinality(N!Transmitted') = Cardinality(N!Transmitted) + 1
<1>1. cur \in Packets /\ skb[cur] = "driver"
    BY DEF NetInv, OwnsCur, Owns, Path, N!DevKfreeSkb, N!NetifRx, N!XmitTo
<1>2. N!Transmitted' = N!Transmitted \cup {cur} /\ cur \notin N!Transmitted
    BY <1>1 DEF N!Transmitted, N!DevKfreeSkb, N!NetifRx, NetInv, NetShape
<1> QED
    BY <1>2, FiniteTransmitted, FS_AddElement

\* Nothing else changes what is transmitted: it is received, but it was.
LEMMA NoneGiven ==
    ASSUME NetInv, [N!Next]_(N!vars), ~N!DevKfreeSkb, ~N!NetifRx
    PROVE  N!Transmitted' = N!Transmitted
<1> USE DEF NetInv, NetShape, N!Transmitted, N!skbVars
<1>1. ASSUME NEW p \in Packets, N!Send(p) \/ N!StartXmit(p) \/ N!Deliver(p)
      PROVE  N!Transmitted' = N!Transmitted
    BY <1>1 DEF N!Send, N!StartXmit, N!Deliver
<1>2. CASE N!Deactivate
    BY <1>2 DEF N!Deactivate
<1>3. CASE N!MyStartXmit \/ UNCHANGED N!vars
    BY <1>3 DEF N!MyStartXmit, N!PrintPacket, N!TxBytes, N!TxPackets,
       N!RxBytes, N!RxPackets, N!XmitReturn, N!vars
<1>4. CASE \/ N!AllocNetdev \/ N!RegisterNetdev \/ N!MyExit
           \/ N!UnregisterNetdev \/ N!FreeNetdev \/ N!MyOpen \/ N!MyClose
           \/ N!MyGetStats \/ N!CopyRx \/ N!CopyTx
    BY <1>4, OtherSteps DEF Quiet
<1> QED
    BY <1>1, <1>2, <1>3, <1>4 DEF N!Next

LEMMA StatsXmit ==
    ASSUME NetConstants, NetInv, NetInv', StatsInv, N!MyStartXmit
    PROVE  StatsInv'
<1>g. N!DevKfreeSkb \/ N!NetifRx =>
          Cardinality(N!Transmitted') = Cardinality(N!Transmitted) + 1
    BY GivenAway
<1>n. ~N!DevKfreeSkb /\ ~N!NetifRx => N!Transmitted' = N!Transmitted
    BY NoneGiven DEF N!Next
<1>t. Cardinality(N!Transmitted) \in Nat
    BY FiniteTransmitted
<1>l. lab = "receive" /\ xmit \in {"bytes", "packets", "rx_bytes"}
          => N!LengthRead = {cur} /\ cur \in Int
    <2> SUFFICES ASSUME lab = "receive",
                        xmit \in {"bytes", "packets", "rx_bytes"}
                 PROVE  N!LengthRead = {cur} /\ cur \in Int
        OBVIOUS
    <2>1. Owns
        BY DEF Owns
    <2>2. cur \in Packets /\ skb[cur] = "driver"
        BY <2>1 DEF NetInv, OwnsCur
    <2> QED
        BY <2>2 DEF NetConstants, N!LengthRead
<1>p. Packets \cup {0} \subseteq Int
    BY DEF NetConstants
<1>q. Path
    BY DEF NetInv
<1> USE <1>t, <1>q
    DEF StatsInv, Numbers, Sent, Received, Copied, Path, N!XmitTo, N!devVars,
        N!linkVars, N!skbVars, N!statVars, N!readVars
<1>1. CASE N!PrintPacket
    BY <1>1, <1>n DEF N!PrintPacket, N!DevKfreeSkb, N!NetifRx
<1>2. CASE N!DevKfreeSkb
    BY <1>2, <1>g DEF N!DevKfreeSkb
<1>3. CASE N!TxBytes
    BY <1>3, <1>n, <1>l, <1>p DEF N!TxBytes, N!DevKfreeSkb, N!NetifRx
<1>4. CASE N!TxPackets
    BY <1>4, <1>n DEF N!TxPackets, N!DevKfreeSkb, N!NetifRx
<1>5. CASE N!RxBytes
    BY <1>5, <1>n, <1>l, <1>p DEF N!RxBytes, N!DevKfreeSkb, N!NetifRx
<1>6. CASE N!RxPackets
    BY <1>6, <1>n DEF N!RxPackets, N!DevKfreeSkb, N!NetifRx
<1>7. CASE N!NetifRx
    BY <1>7, <1>g DEF N!NetifRx
<1>8. CASE N!XmitReturn
    BY <1>8, <1>n DEF N!XmitReturn, N!DevKfreeSkb, N!NetifRx
<1> QED
    BY <1>1, <1>2, <1>3, <1>4, <1>5, <1>6, <1>7, <1>8 DEF N!MyStartXmit

LEMMA StatsStep ==
    ASSUME NetConstants, NetInv, NetInv', StatsInv, [N!Next]_(N!vars)
    PROVE  StatsInv'
<1>x. ASSUME N!MyStartXmit PROVE StatsInv'
    BY <1>x, StatsXmit
<1>k. ~N!DevKfreeSkb /\ ~N!NetifRx => N!Transmitted' = N!Transmitted
    BY NoneGiven
<1>t. Cardinality(N!Transmitted) \in Nat
    BY FiniteTransmitted
<1> USE <1>t DEF StatsInv, Numbers, Sent, Received, Copied, N!devVars,
        N!linkVars, N!skbVars, N!statVars, N!readVars, N!MyStartXmit
<1>1. ASSUME NEW p \in Packets, N!StartXmit(p) PROVE StatsInv'
    BY <1>1, <1>k, <1>x DEF N!StartXmit
<1>2. ASSUME ~N!MyStartXmit,
             UNCHANGED <<lab, xmit, cur, N!statVars>>, UNCHANGED N!readVars
      PROVE  StatsInv'
    BY <1>2, <1>k
<1>3. CASE N!MyGetStats \/ N!CopyRx \/ N!CopyTx
    BY <1>3, <1>k, <1>x DEF N!MyGetStats, N!CopyRx, N!CopyTx
<1>4. ASSUME NEW p \in Packets, N!Send(p) \/ N!Deliver(p) PROVE StatsInv'
    BY <1>4, <1>2, <1>x DEF N!Send, N!Deliver
<1>5. CASE \/ N!AllocNetdev \/ N!RegisterNetdev \/ N!MyExit
           \/ N!UnregisterNetdev \/ N!FreeNetdev \/ N!MyOpen \/ N!MyClose
           \/ N!Deactivate \/ UNCHANGED N!vars
    BY <1>5, <1>2, <1>x DEF N!AllocNetdev, N!RegisterNetdev, N!MyExit,
       N!UnregisterNetdev, N!FreeNetdev, N!MyOpen, N!MyClose, N!Deactivate,
       N!vars
<1> QED
    BY <1>x, <1>1, <1>3, <1>4, <1>5 DEF N!Next

\* The bytes of packets: those of one are as many as its name says, and no two
\* packets share one.
LEMMA NewBytes ==
    ASSUME NEW S \in SUBSET Nat, NEW c \in Nat \ {0}, c \notin S,
           IsFiniteSet(N!Bytes(S))
    PROVE  /\ IsFiniteSet(N!Bytes(S \cup {c}))
           /\ Cardinality(N!Bytes(S \cup {c})) = Cardinality(N!Bytes(S)) + c
<1> DEFINE piece == {c} \X (1..c)
<1>1. IsFiniteSet(piece) /\ Cardinality(piece) = c
    <2> DEFINE f == [i \in 1..c |-> <<c, i>>]
    <2>1. IsFiniteSet(1..c) /\ Cardinality(1..c) = c
        BY FS_Interval
    <2>2. f \in [1..c -> piece]
        OBVIOUS
    <2>3. \A i, k \in 1..c : f[i] = f[k] => i = k
        OBVIOUS
    <2>4. \A x \in piece : \E i \in 1..c : f[i] = x
        OBVIOUS
    <2>5. f \in Bijection(1..c, piece)
        BY <2>2, <2>3, <2>4, Fun_IsBij
    <2>6. ExistsBijection(1..c, piece)
        BY <2>5 DEF ExistsBijection
    <2> HIDE DEF f, piece
    <2> QED
        BY <2>1, <2>6, FS_Bijection
<1>2. N!Bytes(S \cup {c}) = N!Bytes(S) \cup piece
    BY DEF N!Bytes
<1>3. N!Bytes(S) \cap piece = {}
    BY DEF N!Bytes
<1> HIDE DEF piece
<1>4. Cardinality(N!Bytes(S)) \in Nat /\ Cardinality({}) = 0
    BY FS_CardinalityType, FS_EmptySet
<1>5. /\ IsFiniteSet(N!Bytes(S) \cup piece)
      /\ Cardinality(N!Bytes(S) \cup piece) =
            Cardinality(N!Bytes(S)) + c - Cardinality({})
    BY <1>1, <1>3, FS_Union
<1>6. Cardinality(N!Bytes(S)) + c - Cardinality({})
        = Cardinality(N!Bytes(S)) + c
    BY <1>4
<1> QED
    BY <1>2, <1>5, <1>6

\* What lab_receive.c has counted is what it sent, with the packet that it is
\* about to hand on.
Summed ==
    lab = "receive" =>
        /\ IsFiniteSet(N!Bytes(N!Transmitted))
        /\ txBytes = Cardinality(N!Bytes(N!Transmitted))
              + (IF xmit \in {"packets", "rx_bytes", "rx_packets", "netif_rx"}
                 THEN cur ELSE 0)

LEMMA SummedStep ==
    ASSUME NetConstants, NetInv, NetInv', StatsInv, Summed,
           [N!Next]_(N!vars)
    PROVE  Summed'
<1> SUFFICES ASSUME lab' = "receive" PROVE Summed'
    BY DEF Summed
<1>l. lab = "receive"
    <2> USE DEF N!devVars
    <2>1. ASSUME NEW q \in Packets, N!Send(q) \/ N!StartXmit(q) \/ N!Deliver(q)
          PROVE  lab' = lab
        BY <2>1 DEF N!Send, N!StartXmit, N!Deliver
    <2>2. CASE N!MyStartXmit
        BY <2>2 DEF N!MyStartXmit, N!PrintPacket, N!DevKfreeSkb, N!TxBytes,
           N!TxPackets, N!RxBytes, N!RxPackets, N!NetifRx, N!XmitReturn
    <2>3. CASE N!Deactivate \/ UNCHANGED N!vars
        BY <2>3 DEF N!Deactivate, N!vars
    <2>4. CASE \/ N!AllocNetdev \/ N!RegisterNetdev \/ N!MyExit
               \/ N!UnregisterNetdev \/ N!FreeNetdev \/ N!MyOpen
               \/ N!MyClose \/ N!MyGetStats \/ N!CopyRx \/ N!CopyTx
        BY <2>4, OtherSteps DEF Quiet
    <2> QED
        BY <2>1, <2>2, <2>3, <2>4 DEF N!Next
<1>k. ~N!DevKfreeSkb
    BY <1>l DEF N!DevKfreeSkb, N!XmitTo, NetInv, Path
<1>t. /\ Cardinality(N!Bytes(N!Transmitted)) \in Nat
      /\ IsFiniteSet(N!Bytes(N!Transmitted))
    BY <1>l, FS_CardinalityType DEF Summed
<1>o. Owns => cur \in Nat \ {0} /\ skb[cur] = "driver" /\ cur \in Packets
    BY DEF NetInv, OwnsCur, NetConstants
<1>1. CASE N!NetifRx
    <2>1. cur \in Nat \ {0} /\ skb[cur] = "driver" /\ cur \in Packets
        BY <1>1, <1>l, <1>o DEF N!NetifRx, N!XmitTo, Owns
    <2>2. N!Transmitted' = N!Transmitted \cup {cur} /\ cur \notin N!Transmitted
        BY <1>1, <2>1 DEF N!Transmitted, N!NetifRx, NetInv, NetShape
    <2>3. N!Transmitted \in SUBSET Nat
        BY DEF N!Transmitted, NetConstants
    <2>4. /\ IsFiniteSet(N!Bytes(N!Transmitted \cup {cur}))
          /\ Cardinality(N!Bytes(N!Transmitted \cup {cur})) =
                Cardinality(N!Bytes(N!Transmitted)) + cur
        BY <1>t, <2>1, <2>2, <2>3, NewBytes
    <2>5. N!Bytes(N!Transmitted)' = N!Bytes(N!Transmitted \cup {cur})
        BY <2>2 DEF N!Bytes
    <2>6. /\ xmit = "netif_rx" /\ xmit' = "return" /\ txBytes' = txBytes
        BY <1>1 DEF N!NetifRx, N!XmitTo, N!statVars
    <2>7. txBytes = Cardinality(N!Bytes(N!Transmitted)) + cur
        BY <1>l, <2>6 DEF Summed
    <2>8. xmit' \notin {"packets", "rx_bytes", "rx_packets", "netif_rx"}
        BY <2>6
    <2>9. Cardinality(N!Bytes(N!Transmitted)') = txBytes'
          /\ txBytes' \in Nat
        BY <1>t, <2>1, <2>4, <2>5, <2>6, <2>7
    <2> QED
        BY <2>4, <2>5, <2>8, <2>9 DEF Summed
<1>2. CASE ~N!NetifRx
    <2>1. N!Transmitted' = N!Transmitted
        BY <1>2, <1>k, NoneGiven
    <2>2. N!Bytes(N!Transmitted)' = N!Bytes(N!Transmitted)
        BY <2>1 DEF N!Bytes
    <2> USE <1>l, <1>t, <2>2 DEF Summed, N!XmitTo, N!devVars, N!linkVars,
            N!skbVars, N!statVars, N!readVars
    <2>3. CASE N!TxBytes
        <3>1. cur \in Nat \ {0} /\ skb[cur] = "driver"
            BY <2>3, <1>o DEF N!TxBytes, Owns
        <3>2. txBytes' = txBytes + cur /\ cur' = cur
              /\ xmit = "bytes" /\ xmit' = "packets"
            BY <2>3, <3>1 DEF N!TxBytes, N!LengthRead
        <3> QED
            BY <3>1, <3>2
    <2>4. ASSUME UNCHANGED <<xmit, cur, txBytes>> PROVE Summed'
        BY <2>4
    <2>5. CASE N!PrintPacket
        BY <2>5 DEF N!PrintPacket
    <2>6. CASE N!TxPackets
        BY <2>6 DEF N!TxPackets
    <2>7. CASE N!RxBytes
        BY <2>7 DEF N!RxBytes
    <2>8. CASE N!RxPackets
        BY <2>8 DEF N!RxPackets
    <2>9. CASE N!XmitReturn
        BY <2>9 DEF N!XmitReturn
    <2>10. ASSUME NEW p \in Packets, N!StartXmit(p) PROVE Summed'
        BY <2>10 DEF N!StartXmit
    <2>11. ASSUME NEW p \in Packets, N!Send(p) \/ N!Deliver(p) PROVE Summed'
        BY <2>11, <2>4 DEF N!Send, N!Deliver
    <2>12. CASE \/ N!AllocNetdev \/ N!RegisterNetdev \/ N!MyExit
                \/ N!UnregisterNetdev \/ N!FreeNetdev \/ N!MyOpen
                \/ N!MyClose \/ N!Deactivate \/ N!MyGetStats \/ N!CopyRx
                \/ N!CopyTx \/ UNCHANGED N!vars
        BY <2>12, <2>4 DEF N!AllocNetdev, N!RegisterNetdev, N!MyExit,
           N!UnregisterNetdev, N!FreeNetdev, N!MyOpen, N!MyClose,
           N!Deactivate, N!MyGetStats, N!CopyRx, N!CopyTx, N!vars
    <2> QED
        BY <1>2, <1>k, <2>3, <2>5, <2>6, <2>7, <2>8, <2>9, <2>10, <2>11,
           <2>12 DEF N!Next, N!MyStartXmit
<1> QED
    BY <1>1, <1>2

\* Each packet is counted once, when it is sent and when it is received, with
\* all its bytes; and a copy of the counts taken at any time has no packet
\* received that was not sent.
THEOREM StatisticsAgree ==
    ASSUME NetConstants PROVE N!Spec => []N!StatsAgree
<1>1. N!Init => StatsInv
    <2> SUFFICES ASSUME N!Init PROVE StatsInv
        OBVIOUS
    <2>1. N!Transmitted = {}
        BY DEF N!Init, N!Transmitted
    <2>2. Cardinality(N!Transmitted) = 0
        BY <2>1, FS_EmptySet
    <2>3. lab \in {"stub", "simple", "transmit", "receive"}
        BY DEF NetConstants, N!Init
    <2>4. /\ txPackets = 0 /\ rxPackets = 0 /\ txBytes = 0 /\ rxBytes = 0
          /\ seenRx = 0 /\ seenTx = 0 /\ xmit = "idle" /\ reader = "idle"
        BY DEF N!Init
    <2>i. /\ xmit \notin {"bytes", "packets"}
          /\ xmit \notin {"rx_bytes", "rx_packets", "netif_rx"}
          /\ xmit \notin {"rx_bytes", "rx_packets"}
          /\ xmit \notin {"packets", "rx_bytes"}
          /\ 0 = 0 - 0 /\ 0 = 0 + 0
        BY <2>4
    <2>5. Sent
        BY <2>2, <2>4, <2>i DEF Sent
    <2>6. Received
        BY <2>4, <2>i DEF Received
    <2>7. Copied /\ Numbers
        BY <2>3, <2>4 DEF Copied, Numbers
    <2> QED
        BY <2>5, <2>6, <2>7 DEF StatsInv
<1>2. N!Init => Summed
    <2>1. N!Init => N!Transmitted = {} /\ xmit = "idle" /\ txBytes = 0
        BY DEF N!Init, N!Transmitted
    <2>2. N!Bytes({}) = {}
        BY DEF N!Bytes
    <2>3. IsFiniteSet({}) /\ Cardinality({}) = 0
        BY FS_EmptySet
    <2> QED
        BY <2>1, <2>2, <2>3 DEF Summed
<1>3. /\ NetInv /\ NetInv' /\ StatsInv /\ Summed /\ [N!Next]_(N!vars)
          => StatsInv' /\ Summed'
    BY NetConstants, StatsStep, SummedStep
<1>4. StatsInv /\ Summed => N!StatsAgree
    <2> SUFFICES ASSUME StatsInv, Summed PROVE N!StatsAgree
        OBVIOUS
    <2>1. /\ N!Counting /\ xmit = "idle"
                => txPackets = Cardinality(N!Transmitted)
          /\ lab = "receive" /\ xmit = "idle" =>
                rxPackets = txPackets /\ rxBytes = txBytes
          /\ reader = "done" => seenRx <= seenTx
        BY NetConstants, FiniteTransmitted
           DEF StatsInv, Numbers, Sent, Received, Copied, N!Counting
    <2>2. lab = "receive" /\ xmit = "idle"
                => txBytes = Cardinality(N!Bytes(N!Transmitted))
        BY FS_CardinalityType DEF Summed
    <2> QED
        BY <2>1, <2>2, SameCardinality DEF N!StatsAgree
<1> QED
    BY <1>1, <1>2, <1>3, <1>4, NetInvariance, PTL DEF N!Spec

-----------------------------------------------------------------------------
(* The device. *)

\* unregister_netdev closes the device and waits for those who read it: what
\* runs on the device, the link, a transmission, a reader, finds it registered,
\* and a packet is queued on a link that is up, whose queue runs.
DeviceInUse ==
    /\ link # "down" \/ reader \in {"rx", "tx"} => dev = "registered"
    /\ xmit # "idle" \/ (\E p \in Packets : skb[p] = "queued") => link = "up"
    /\ link = "up" => ~stopped

\* Where the module is in loading and unloading the device.
Lifetime ==
    /\ module \in {"live", "unregister"} <=> dev = "registered"
    /\ module \in {"free", "gone", "failed", "out", "register"} =>
            link = "down" /\ reader \in {"idle", "done"}

\* Neither rmmod nor ifconfig takes the device from under a transmission or a
\* reader, and what waits to be sent is not on a stopped queue.
THEOREM DeviceStaysInUse == N!Spec => []DeviceInUse
<1> DEFINE Inv == DeviceInUse /\ Lifetime
<1>1. N!Init => Inv
    BY DEF N!Init, DeviceInUse, Lifetime
<1>2. NetInv /\ Inv /\ [N!Next]_(N!vars) => Inv'
    <2> SUFFICES ASSUME NetInv, Inv, [N!Next]_(N!vars) PROVE Inv'
        OBVIOUS
    <2> USE DEF DeviceInUse, Lifetime, N!devVars, N!linkVars, N!skbVars,
                N!statVars, N!readVars
    <2>1. CASE \/ N!AllocNetdev \/ N!RegisterNetdev \/ N!MyExit
               \/ N!UnregisterNetdev \/ N!FreeNetdev
        BY <2>1 DEF N!AllocNetdev, N!RegisterNetdev, N!MyExit,
           N!UnregisterNetdev, N!FreeNetdev
    <2>2. CASE N!MyOpen \/ N!Deactivate \/ N!MyClose
        BY <2>2 DEF N!MyOpen, N!Deactivate, N!MyClose, NetInv, NetShape
    <2>3. CASE N!MyStartXmit
        <3>1. \A p \in Packets : skb'[p] = "queued" => skb[p] = "queued"
            BY <2>3 DEF N!MyStartXmit, N!PrintPacket, N!DevKfreeSkb,
               N!TxBytes, N!TxPackets, N!RxBytes, N!RxPackets, N!NetifRx,
               N!XmitReturn, NetInv, NetShape
        <3>2. xmit # "idle"
            BY <2>3 DEF N!MyStartXmit, N!PrintPacket, N!DevKfreeSkb,
               N!TxBytes, N!TxPackets, N!RxBytes, N!RxPackets, N!NetifRx,
               N!XmitReturn, N!XmitTo
        <3>3. UNCHANGED <<module, dev, link, stopped, reader>>
            BY <2>3 DEF N!MyStartXmit, N!PrintPacket, N!DevKfreeSkb,
               N!TxBytes, N!TxPackets, N!RxBytes, N!RxPackets, N!NetifRx,
               N!XmitReturn
        <3> QED
            BY <3>1, <3>2, <3>3
    <2>4. CASE N!MyGetStats \/ N!CopyRx \/ N!CopyTx \/ UNCHANGED N!vars
        BY <2>4 DEF N!MyGetStats, N!CopyRx, N!CopyTx, N!vars
    <2>5. ASSUME NEW p \in Packets, N!Send(p) \/ N!StartXmit(p) \/ N!Deliver(p)
          PROVE  Inv'
        BY <2>5 DEF N!Send, N!StartXmit, N!Deliver, NetInv, NetShape
    <2> QED
        BY <2>1, <2>2, <2>3, <2>4, <2>5 DEF N!Next
<1> QED
    BY <1>1, <1>2, NetInvariance, PTL DEF N!Spec

\* The types hold; the statistics only grow.
THEOREM NetTypeCorrect == ASSUME NetConstants PROVE N!Spec => []N!TypeOK
<1> DEFINE HasPacket == xmit # "idle" => cur \in Packets
<1>1. N!Init => N!TypeOK /\ HasPacket
    <2> SUFFICES ASSUME N!Init PROVE N!TypeOK
        BY DEF N!Init
    <2>1. /\ skb \in [Packets -> {"unsent", "queued", "driver", "backlog",
                                 "through", "dropped"}]
          /\ kfrees \in [Packets -> Nat]
        BY DEF N!Init
    <2>2. stopped \in BOOLEAN
        BY DEF N!Init
    <2> QED
        BY <2>1, <2>2 DEF N!Init, N!TypeOK
<1>3. HasPacket /\ [N!Next]_(N!vars) => HasPacket'
    BY DEF N!Next, N!AllocNetdev, N!RegisterNetdev, N!MyExit,
       N!UnregisterNetdev, N!FreeNetdev, N!MyOpen, N!Deactivate, N!MyClose,
       N!MyStartXmit, N!PrintPacket, N!DevKfreeSkb, N!TxBytes, N!TxPackets,
       N!RxBytes, N!RxPackets, N!NetifRx, N!XmitReturn, N!XmitTo,
       N!MyGetStats, N!CopyRx, N!CopyTx, N!Send, N!StartXmit, N!Deliver,
       N!vars
<1>2. NetInv /\ HasPacket /\ N!TypeOK /\ [N!Next]_(N!vars) => N!TypeOK'
    <2> SUFFICES ASSUME NetInv, HasPacket, N!TypeOK, [N!Next]_(N!vars)
                 PROVE  N!TypeOK'
        OBVIOUS
    <2> USE NetConstants DEF NetConstants, N!TypeOK, N!devVars, N!linkVars,
            N!skbVars, N!statVars, N!readVars, N!XmitTo
    <2>1. CASE \/ N!AllocNetdev \/ N!RegisterNetdev \/ N!MyExit
               \/ N!UnregisterNetdev \/ N!FreeNetdev
        BY <2>1 DEF N!AllocNetdev, N!RegisterNetdev, N!MyExit,
           N!UnregisterNetdev, N!FreeNetdev
    <2>2. CASE N!MyOpen \/ N!MyClose
        <3>1. stopped' \in BOOLEAN
            BY <2>2 DEF N!MyOpen, N!MyClose
        <3> QED
            BY <2>2, <3>1 DEF N!MyOpen, N!MyClose
    <2>10. CASE UNCHANGED N!vars
        BY <2>10 DEF N!vars
    <2>3. CASE N!Deactivate
        BY <2>3 DEF N!Deactivate
    <2>4. CASE N!MyGetStats \/ N!CopyRx \/ N!CopyTx
        BY <2>4 DEF N!MyGetStats, N!CopyRx, N!CopyTx
    <2>5. CASE N!PrintPacket \/ N!XmitReturn
        BY <2>5 DEF N!PrintPacket, N!XmitReturn
    <2>6. CASE N!DevKfreeSkb \/ N!NetifRx
        BY <2>6 DEF N!DevKfreeSkb, N!NetifRx
    <2>7. CASE N!TxBytes \/ N!RxBytes
        <3>1. cur \in Packets
            BY <2>7 DEF N!TxBytes, N!RxBytes
        <3>2. N!LengthRead \subseteq Nat
            BY <3>1 DEF N!LengthRead
        <3> QED
            BY <2>7, <3>2 DEF N!TxBytes, N!RxBytes
    <2>8. CASE N!TxPackets \/ N!RxPackets
        BY <2>8 DEF N!TxPackets, N!RxPackets
    <2>9. ASSUME NEW p \in Packets, N!Send(p) \/ N!StartXmit(p) \/ N!Deliver(p)
          PROVE  N!TypeOK'
        BY <2>9 DEF N!Send, N!StartXmit, N!Deliver
    <2> QED
        BY <2>1, <2>2, <2>3, <2>4, <2>5, <2>6, <2>7, <2>8, <2>9,
           <2>10 DEF N!Next, N!MyStartXmit
<1> QED
    BY <1>1, <1>2, <1>3, NetInvariance, PTL DEF N!Spec

=============================================================================
