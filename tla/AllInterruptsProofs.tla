------------------------ MODULE AllInterruptsProofs -------------------------
(***************************************************************************)
(* What the labs on all interrupt lines promise, for any number of lines   *)
(* and of interrupts on them: the flags by which the lines are freed are   *)
(* true, rmmod leaves no handler and no thread, and bottom halves are not  *)
(* more than interrupts: the event service, of each line by itself in the  *)
(* dynamic labs, of all lines together in the others.                      *)
(***************************************************************************)
EXTENDS AllInterrupts, FiniteSetTheorems, TLAPS

CONSTANT Line   \* the interrupt line of which OfLine speaks

\* The part of TypeOK the proofs need; the bounds of a run are left out.
Shape ==
    /\ lab \in {"static", "dynamic", "thread"} /\ irq \in Irqs
    /\ registered \in [Irqs -> BOOLEAN]
    /\ interrupts \in [Irqs -> Int] /\ bhs \in [Irqs -> Int]
    /\ isr \in [Irqs -> {"idle", "set_irq", "cond", "count", "schedule",
                        "delay"}]
    /\ data_irq \in Irqs /\ thr_irq \in Irqs
    /\ pending \in BOOLEAN /\ bh \in BOOLEAN /\ cond \in {0, 1}
    /\ queue \in [Irqs -> Int] /\ calls \in [Irqs -> Int]
    /\ ncalls \in Int /\ nbhs \in Int

Early == {"kthread_run", "kmalloc", "misc_register", "failed"}
Late == {"freeup", "free_irq", "deregister", "gone"}

\* Lines get_irqs has not requested yet.
Untried(i) ==
    \/ module \in Early
    \/ module \in {"flag", "request"} /\ irq <= i
    \/ module = "succeeded" /\ irq < i

FlagTrue(i) == interrupts[i] >= 0 <=> registered[i]

\* get_irqs makes the flags true line by line, freeup_irqs goes by them line
\* by line; both leave the loop with irq 0.
Lines ==
    /\ module \in Early \cup {"live", "stopping", "deregister", "gone"}
            => irq = 0
    /\ \A i \in Irqs :
        /\ Untried(i) => ~registered[i] /\ calls[i] = 0 /\ queue[i] = 0
        /\ module \in {"flag", "request", "succeeded"} /\ i < irq
                => FlagTrue(i)
        /\ module = "request" /\ i = irq => interrupts[i] = -1
        /\ module = "succeeded" /\ i = irq
                => registered[i] /\ interrupts[i] >= -1
        /\ module \in {"live", "stopping"} => FlagTrue(i)
        /\ module = "freeup" /\ irq <= i => FlagTrue(i)
        /\ module = "free_irq" /\ irq < i => FlagTrue(i)
        /\ module \in {"freeup", "free_irq"} /\ i < irq => ~registered[i]
        /\ module = "free_irq" /\ i = irq => ~registered[i]
        /\ module \in {"deregister", "gone"} => ~registered[i]

\* A handler runs on a line that is ours, or that free_irq waits for.
Handlers ==
    \A i \in Irqs :
        isr[i] # "idle" => registered[i] \/ (module = "free_irq" /\ i = irq)

\* Each lab has its own kind of bottom half, and the thread of lab_all_thread.c
\* has ended when the lines are freed.
Kinds ==
    /\ lab # "static" => ~pending /\ ~bh
    /\ lab # "dynamic" => \A i \in Irqs : queue[i] = 0
    /\ lab # "thread" => thr = "none" /\ module # "kthread_run"
    /\ lab = "thread" /\ module \in Late => thr = "ended"

\* The first part of LineConservation.
ByLine ==
    Dynamic => \A i \in Irqs :
        calls[i] = bhs[i] + queue[i] + (IF isr[i] = "schedule" THEN 1 ELSE 0)

At(pc) == {i \in Irqs : isr[i] = pc}

\* The second: the interrupts that have no bottom half yet, but for those that
\* are coalesced, and the condition under which the thread will count.
InAll ==
    /\ lab = "static" =>
        nbhs + (IF bh THEN 1 ELSE 0) + (IF pending THEN 1 ELSE 0)
             + Cardinality(At("schedule")) <= ncalls
    /\ lab = "thread" =>
        nbhs + (IF thr \in {"test", "asleep", "count"} THEN cond ELSE 0)
            <= ncalls + Cardinality(At("count"))

IInv == Shape /\ Lines /\ Handlers /\ Kinds /\ ByLine /\ InAll

-----------------------------------------------------------------------------
(* Each part is preserved by every step. *)

LEMMA FiniteAt ==
    ASSUME NEW pc
    PROVE  IsFiniteSet(At(pc)) /\ Cardinality(At(pc)) \in Nat
<1>1. IsFiniteSet(Irqs)
    BY ConstantsAssumption, FS_Interval DEF Irqs
<1>2. IsFiniteSet(At(pc))
    BY <1>1, FS_Subset DEF At
<1> QED
    BY <1>2, FS_CardinalityType

LEMMA IrqsOrdered ==
    /\ 0 \in Irqs /\ MAXIRQS \in Int
    /\ \A i \in Irqs : i \in Int /\ 0 <= i /\ i < MAXIRQS
    /\ \A i \in Irqs : i + 1 < MAXIRQS => i + 1 \in Irqs
BY ConstantsAssumption DEF Irqs

LEMMA InitIInv == Init => IInv
<1> SUFFICES ASSUME Init PROVE IInv
    OBVIOUS
<1>1. Shape
    BY ConstantsAssumption, IrqsOrdered DEF Init, Shape
<1>4. Lines /\ Handlers
    BY <1>1, IrqsOrdered DEF Init, Lines, Handlers, Early, Untried
<1>5. Kinds /\ ByLine
    BY <1>1 DEF Init, Shape, Kinds, ByLine, Late, Dynamic
<1>2. At("schedule") = {} /\ At("count") = {}
    BY DEF Init, At
<1>3. InAll
    BY <1>2, FS_EmptySet DEF Init, InAll
<1> QED
    BY <1>1, <1>3, <1>4, <1>5 DEF IInv

LEMMA ShapeStep == IInv /\ [Next]_vars => Shape'
<1> SUFFICES ASSUME IInv, [Next]_vars PROVE Shape'
    OBVIOUS
<1> USE IrqsOrdered DEF IInv, Shape, halves, bhVars, countVars, thread
<1>1. CASE Loading
    <2>1. CASE KmallocRamdisk
        <3>1. interrupts' \in [Irqs -> Int]
            BY <2>1 DEF KmallocRamdisk
        <3> QED
            BY <2>1, <3>1 DEF KmallocRamdisk
    <2>2. CASE FlagIrq \/ RequestSucceeded
        BY <2>2 DEF FlagIrq, RequestSucceeded, NextIrq
    <2>3. CASE KthreadRun \/ MiscRegister \/ RequestIrq
        BY <2>3 DEF KthreadRun, MiscRegister, RequestIrq, NextIrq
    <2> QED
        BY <1>1, <2>1, <2>2, <2>3 DEF Loading
<1>2. CASE Unloading
    BY <1>2 DEF Unloading, KthreadStop, MyGenericExit, FreeupIrq, FreeIrqDone,
       Deregister, NextIrq
<1>3. ASSUME NEW i \in Irqs, Isr(i) PROVE Shape'
    <2>1. CASE IsrCount(i)
        BY <2>1 DEF IsrCount, IsrVars
    <2>2. CASE IsrSchedule(i)
        <3>1. queue[i] + 1 \in Int
            OBVIOUS
        <3>2. queue' \in [Irqs -> Int]
            <4>1. queue' = queue \/ queue' = [queue EXCEPT ![i] = @ + 1]
                BY <2>2 DEF IsrSchedule
            <4> QED
                BY <3>1, <4>1
        <3>3. pending' \in BOOLEAN
            BY <2>2 DEF IsrSchedule
        <3> QED
            BY <2>2, <3>2, <3>3 DEF IsrSchedule, IsrVars
    <2>3. CASE IsrEnter(i) \/ IsrSetIrq(i) \/ IsrSetCond(i) \/ IsrWakeUp(i)
                \/ IsrReturn(i)
        BY <2>3 DEF IsrEnter, IsrSetIrq, IsrSetCond, IsrWakeUp, IsrReturn,
           IsrVars
    <2> QED
        BY <1>3, <2>1, <2>2, <2>3 DEF Isr
<1>4. ASSUME NEW i \in Irqs, BhDynamic(i) PROVE Shape'
    BY <1>4 DEF BhDynamic, BhVars
<1>5. CASE BhRun \/ BhCount
    <2>1. CASE BhRun
        BY <2>1 DEF BhRun, BhVars
    <2>2. CASE BhCount
        <3>1. bhs[data_irq] + 1 \in Int /\ nbhs + 1 \in Int
            OBVIOUS
        <3> QED
            BY <2>2, <3>1 DEF BhCount, BhVars
    <2> QED
        BY <1>5, <2>1, <2>2
<1>6. CASE ThrFun
    BY <1>6 DEF ThrFun, ThrBegin, ThrIrq, ThrClear, ThrTest, ThrCount,
       ThrWhile, ThrTo, ThrVars
<1>7. CASE UNCHANGED vars
    BY <1>7 DEF vars
<1> QED
    BY <1>1, <1>2, <1>3, <1>4, <1>5, <1>6, <1>7 DEF Next

\* Bottom halves and the thread touch nothing the loops go by.
LEMMA LinesStep == IInv /\ [Next]_vars => Lines'
<1> SUFFICES ASSUME IInv, [Next]_vars PROVE Lines'
    OBVIOUS
<1> USE IrqsOrdered DEF IInv, Shape, Lines, FlagTrue, Untried, Early, halves,
        bhVars, countVars, thread
<1>1. CASE KthreadRun \/ KmallocRamdisk \/ MiscRegister
    BY <1>1 DEF KthreadRun, KmallocRamdisk, MiscRegister
<1>2. CASE FlagIrq
    BY <1>2 DEF FlagIrq
<1>3. CASE RequestIrq
    BY <1>3 DEF RequestIrq, NextIrq
<1>4. CASE RequestSucceeded
    BY <1>4 DEF RequestSucceeded, NextIrq
<1>5. CASE KthreadStop \/ MyGenericExit \/ Deregister
    BY <1>5 DEF KthreadStop, MyGenericExit, Deregister
<1>6. CASE FreeupIrq
    BY <1>6 DEF FreeupIrq, NextIrq
<1>7. CASE FreeIrqDone
    BY <1>7 DEF FreeIrqDone, NextIrq
<1>8. ASSUME NEW i \in Irqs, Isr(i) PROVE Lines'
    <2>1. CASE IsrCount(i)
        BY <2>1 DEF IsrCount, IsrVars, Handlers
    <2>2. CASE IsrSchedule(i)
        BY <2>2 DEF IsrSchedule, IsrVars, Handlers
    <2>3. CASE IsrEnter(i) \/ IsrSetIrq(i) \/ IsrSetCond(i) \/ IsrWakeUp(i)
                \/ IsrReturn(i)
        BY <2>3 DEF IsrEnter, IsrSetIrq, IsrSetCond, IsrWakeUp, IsrReturn,
           IsrVars
    <2> QED
        BY <1>8, <2>1, <2>2, <2>3 DEF Isr
<1>9. ASSUME NEW i \in Irqs, BhDynamic(i) PROVE Lines'
    BY <1>9 DEF BhDynamic, BhVars
<1>10. CASE BhRun \/ BhCount \/ ThrFun \/ UNCHANGED vars
    BY <1>10 DEF BhRun, BhCount, BhVars, ThrFun, ThrBegin, ThrIrq, ThrClear,
       ThrTest, ThrCount, ThrWhile, ThrTo, ThrVars, vars
<1> QED
    BY <1>1, <1>2, <1>3, <1>4, <1>5, <1>6, <1>7, <1>8, <1>9, <1>10
       DEF Next, Loading, Unloading

LEMMA HandlersStep == IInv /\ [Next]_vars => Handlers'
<1> SUFFICES ASSUME IInv, [Next]_vars PROVE Handlers'
    OBVIOUS
<1> USE DEF IInv, Shape, Handlers, halves, bhVars, countVars, thread
<1>1. CASE Loading
    BY <1>1 DEF Loading, KthreadRun, KmallocRamdisk, MiscRegister, FlagIrq,
       RequestIrq, RequestSucceeded, NextIrq
<1>2. CASE Unloading
    BY <1>2 DEF Unloading, KthreadStop, MyGenericExit, FreeupIrq, FreeIrqDone,
       Deregister, NextIrq
<1>3. ASSUME NEW i \in Irqs, Isr(i) PROVE Handlers'
    BY <1>3 DEF Isr, IsrEnter, IsrSetIrq, IsrSetCond, IsrCount, IsrSchedule,
       IsrWakeUp, IsrReturn, IsrVars
<1>4. ASSUME NEW i \in Irqs, BhDynamic(i) PROVE Handlers'
    BY <1>4 DEF BhDynamic, BhVars
<1>5. CASE BhRun \/ BhCount \/ ThrFun \/ UNCHANGED vars
    BY <1>5 DEF BhRun, BhCount, BhVars, ThrFun, ThrBegin, ThrIrq, ThrClear,
       ThrTest, ThrCount, ThrWhile, ThrTo, ThrVars, vars
<1> QED
    BY <1>1, <1>2, <1>3, <1>4, <1>5 DEF Next

LEMMA KindsStep == IInv /\ [Next]_vars => Kinds'
<1> SUFFICES ASSUME IInv, [Next]_vars PROVE Kinds'
    OBVIOUS
<1> USE DEF IInv, Shape, Kinds, Late, Dynamic, Woken, halves, bhVars,
        countVars, thread
<1>1. CASE Loading
    BY <1>1 DEF Loading, KthreadRun, KmallocRamdisk, MiscRegister, FlagIrq,
       RequestIrq, RequestSucceeded, NextIrq
<1>2. CASE Unloading
    BY <1>2 DEF Unloading, KthreadStop, MyGenericExit, FreeupIrq, FreeIrqDone,
       Deregister, NextIrq
<1>3. ASSUME NEW i \in Irqs, Isr(i) PROVE Kinds'
    BY <1>3 DEF Isr, IsrEnter, IsrSetIrq, IsrSetCond, IsrCount, IsrSchedule,
       IsrWakeUp, IsrReturn, IsrVars
<1>4. ASSUME NEW i \in Irqs, BhDynamic(i) PROVE Kinds'
    BY <1>4 DEF BhDynamic, BhVars
<1>5. CASE BhRun \/ BhCount
    BY <1>5 DEF BhRun, BhCount, BhVars
<1>6. CASE ThrFun \/ UNCHANGED vars
    BY <1>6 DEF ThrFun, ThrBegin, ThrIrq, ThrClear, ThrTest, ThrCount,
       ThrWhile, ThrTo, ThrVars, vars
<1> QED
    BY <1>1, <1>2, <1>3, <1>4, <1>5, <1>6 DEF Next

\* A line's counters are zero when get_irqs clears the second table.
LEMMA ByLineStep == IInv /\ [Next]_vars => ByLine'
<1> SUFFICES ASSUME IInv, [Next]_vars PROVE ByLine'
    OBVIOUS
<1> USE DEF IInv, Shape, ByLine, Dynamic, halves, bhVars, countVars, thread
<1>1. CASE FlagIrq
    <2>1. calls[irq] = 0 /\ queue[irq] = 0 /\ isr[irq] = "idle"
        BY <1>1, IrqsOrdered DEF FlagIrq, Lines, Handlers, Untried
    <2> QED
        BY <1>1, <2>1 DEF FlagIrq
<1>2. CASE KthreadRun \/ KmallocRamdisk \/ MiscRegister \/ RequestIrq
            \/ RequestSucceeded
    BY <1>2 DEF KthreadRun, KmallocRamdisk, MiscRegister, RequestIrq,
       RequestSucceeded
<1>3. CASE Unloading
    BY <1>3 DEF Unloading, KthreadStop, MyGenericExit, FreeupIrq, FreeIrqDone,
       Deregister
<1>4. ASSUME NEW i \in Irqs, Isr(i) PROVE ByLine'
    BY <1>4 DEF Isr, IsrEnter, IsrSetIrq, IsrSetCond, IsrCount, IsrSchedule,
       IsrWakeUp, IsrReturn, IsrVars
<1>5. ASSUME NEW i \in Irqs, BhDynamic(i) PROVE ByLine'
    <2>1. /\ bhs' = [bhs EXCEPT ![i] = bhs[i] + 1]
          /\ queue' = [queue EXCEPT ![i] = queue[i] - 1]
          /\ UNCHANGED <<lab, calls, isr>>
        BY <1>5 DEF BhDynamic, BhVars
    <2>2. ASSUME NEW k \in Irqs PROVE bhs'[k] + queue'[k] = bhs[k] + queue[k]
        BY <2>1
    <2>3. \A k \in Irqs : bhs'[k] \in Int /\ queue'[k] \in Int
        BY <2>1
    <2> QED
        BY <2>1, <2>2, <2>3
<1>6. CASE BhRun \/ BhCount \/ ThrFun \/ UNCHANGED vars
    BY <1>6 DEF BhRun, BhCount, BhVars, ThrFun, ThrBegin, ThrIrq, ThrClear,
       ThrTest, ThrCount, ThrWhile, ThrTo, ThrVars, vars, Kinds
<1> QED
    BY <1>1, <1>2, <1>3, <1>4, <1>5, <1>6 DEF Next, Loading

-----------------------------------------------------------------------------
(* The counts of all lines together. *)

LEMMA Joins ==
    ASSUME Shape, NEW pc, NEW i \in Irqs, isr[i] # pc,
           isr' = [isr EXCEPT ![i] = pc]
    PROVE  Cardinality(At(pc)') = Cardinality(At(pc)) + 1
<1>1. At(pc)' = At(pc) \cup {i} /\ i \notin At(pc)
    BY DEF Shape, At
<1> QED
    BY <1>1, FiniteAt, FS_AddElement

LEMMA Leaves ==
    ASSUME Shape, NEW pc, NEW to, NEW i \in Irqs, isr[i] = pc, to # pc,
           isr' = [isr EXCEPT ![i] = to]
    PROVE  Cardinality(At(pc)') = Cardinality(At(pc)) - 1
<1>1. At(pc)' = At(pc) \ {i} /\ i \in At(pc)
    BY DEF Shape, At
<1> QED
    BY <1>1, FiniteAt, FS_RemoveElement

LEMMA Passes ==
    ASSUME Shape, NEW pc, NEW to, NEW i \in Irqs, isr[i] # pc, to # pc,
           isr' = [isr EXCEPT ![i] = to]
    PROVE  At(pc)' = At(pc)
BY DEF Shape, At

\* A static item is scheduled by an interrupt that has been counted.
LEMMA StaticStep ==
    ASSUME IInv, [Next]_vars, lab = "static"
    PROVE  nbhs' + (IF bh' THEN 1 ELSE 0) + (IF pending' THEN 1 ELSE 0)
                 + Cardinality(At("schedule")') <= ncalls'
<1> DEFINE Goal == nbhs' + (IF bh' THEN 1 ELSE 0) + (IF pending' THEN 1 ELSE 0)
                         + Cardinality(At("schedule")') <= ncalls'
<1>0. /\ nbhs + (IF bh THEN 1 ELSE 0) + (IF pending THEN 1 ELSE 0)
              + Cardinality(At("schedule")) <= ncalls
      /\ Cardinality(At("schedule")) \in Nat
    BY FiniteAt DEF IInv, InAll
<1>s. ASSUME UNCHANGED <<nbhs, bh, pending, ncalls>>,
             At("schedule")' = At("schedule")
      PROVE  Goal
    BY <1>0, <1>s
<1>e. ASSUME isr' = isr PROVE At("schedule")' = At("schedule")
    BY <1>e DEF At
<1>1. CASE Loading \/ Unloading \/ UNCHANGED vars
    <2>1. UNCHANGED <<nbhs, bh, pending, ncalls, isr>>
        BY <1>1 DEF Loading, KthreadRun, KmallocRamdisk, MiscRegister,
           FlagIrq, RequestIrq, RequestSucceeded, Unloading, KthreadStop,
           MyGenericExit, FreeupIrq, FreeIrqDone, Deregister, halves, bhVars,
           countVars, vars
    <2> QED
        BY <1>e, <1>s, <2>1
<1>2. CASE ThrFun
    BY <1>2 DEF ThrFun, ThrBegin, ThrIrq, ThrClear, ThrTest, ThrCount,
       ThrWhile, ThrTo, IInv, Kinds
<1>3. ASSUME NEW i \in Irqs, BhDynamic(i) PROVE Goal
    BY <1>3 DEF BhDynamic, IInv, Kinds
<1>4. CASE BhRun \/ BhCount
    <2>1. isr' = isr /\ ncalls' = ncalls
        BY <1>4 DEF BhRun, BhCount, BhVars, countVars
    <2> QED
        BY <1>0, <1>4, <1>e, <2>1 DEF BhRun, BhCount, IInv, Shape
<1>5. ASSUME NEW i \in Irqs, Isr(i) PROVE Goal
    <2>1. CASE IsrCount(i)
        <3>1. Cardinality(At("schedule")') = Cardinality(At("schedule")) + 1
            BY <2>1, Joins DEF IsrCount, IInv
        <3>2. UNCHANGED <<nbhs, bh, pending>> /\ ncalls' = ncalls + 1
            BY <2>1 DEF IsrCount, IsrVars
        <3> QED
            BY <1>0, <3>1, <3>2 DEF IInv, Shape
    <2>2. CASE IsrSchedule(i)
        <3>1. Cardinality(At("schedule")') = Cardinality(At("schedule")) - 1
            BY <2>2, Leaves DEF IsrSchedule, IInv
        <3>2. UNCHANGED <<nbhs, bh, ncalls>> /\ pending' = TRUE
            BY <2>2 DEF IsrSchedule, IsrVars, countVars, Dynamic
        <3> QED
            BY <1>0, <3>1, <3>2 DEF IInv, Shape
    <2>3. CASE IsrEnter(i) \/ IsrSetIrq(i) \/ IsrSetCond(i) \/ IsrReturn(i)
        <3>1. At("schedule")' = At("schedule")
            BY <2>3, Passes DEF IsrEnter, IsrSetIrq, IsrSetCond, IsrReturn,
               IInv
        <3>2. UNCHANGED <<nbhs, bh, pending, ncalls>>
            BY <2>3 DEF IsrEnter, IsrSetIrq, IsrSetCond, IsrReturn, IsrVars,
               countVars
        <3> QED
            BY <1>s, <3>1, <3>2
    <2> QED
        BY <1>5, <2>1, <2>2, <2>3 DEF Isr, IsrWakeUp
<1> QED
    BY <1>1, <1>2, <1>3, <1>4, <1>5 DEF Next

\* The thread counts under a condition that a counted interrupt has set, or
\* one about to be counted, since the thread cleared it.
LEMMA ThreadStep ==
    ASSUME IInv, [Next]_vars, lab = "thread"
    PROVE  nbhs' + (IF thr' \in {"test", "asleep", "count"} THEN cond' ELSE 0)
                <= ncalls' + Cardinality(At("count")')
<1> DEFINE Open == IF thr \in {"test", "asleep", "count"} THEN cond ELSE 0
           Goal == nbhs' + Open' <= ncalls' + Cardinality(At("count")')
<1>0. /\ nbhs + Open <= ncalls + Cardinality(At("count"))
      /\ Cardinality(At("count")) \in Nat
      /\ nbhs \in Int /\ ncalls \in Int /\ cond \in {0, 1}
    BY FiniteAt DEF IInv, InAll, Shape
<1>s. ASSUME UNCHANGED <<nbhs, ncalls>>, Open' = Open,
             At("count")' = At("count")
      PROVE  Goal
    BY <1>0, <1>s
<1>e. ASSUME isr' = isr PROVE At("count")' = At("count")
    BY <1>e DEF At
<1>1. CASE KthreadRun
    BY <1>1, <1>e, <1>0 DEF KthreadRun, countVars
<1>2. CASE KthreadStop
    <2>1. UNCHANGED <<nbhs, ncalls, isr>> /\ Open' = Open
        BY <1>2 DEF KthreadStop, Woken, countVars
    <2> QED
        BY <1>e, <1>s, <2>1
<1>3. CASE (Loading /\ ~KthreadRun) \/ (Unloading /\ ~KthreadStop)
            \/ UNCHANGED vars
    <2>1. UNCHANGED <<nbhs, ncalls, isr, thr, cond>>
        BY <1>3 DEF Loading, KmallocRamdisk, MiscRegister, FlagIrq,
           RequestIrq, RequestSucceeded, Unloading, MyGenericExit, FreeupIrq,
           FreeIrqDone, Deregister, halves, countVars, thread, vars
    <2> QED
        BY <1>e, <1>s, <2>1
<1>4. CASE BhRun \/ BhCount
    BY <1>4 DEF BhRun, BhCount, IInv, Kinds
<1>5. ASSUME NEW i \in Irqs, BhDynamic(i) PROVE Goal
    BY <1>5 DEF BhDynamic, IInv, Kinds
<1>6. CASE ThrFun
    <2>1. At("count")' = At("count") /\ ncalls' = ncalls
        BY <1>6, <1>e DEF ThrFun, ThrBegin, ThrIrq, ThrClear, ThrTest,
           ThrCount, ThrWhile, ThrTo, ThrVars, countVars
    <2>2. CASE ThrBegin \/ ThrIrq \/ ThrClear \/ ThrWhile
        BY <1>0, <2>1, <2>2 DEF ThrBegin, ThrIrq, ThrClear, ThrWhile, ThrTo
    <2>3. CASE ThrTest
        BY <1>0, <2>1, <2>3 DEF ThrTest, ThrTo
    <2>4. CASE ThrCount
        BY <1>0, <2>1, <2>4 DEF ThrCount, ThrTo
    <2> QED
        BY <1>6, <2>2, <2>3, <2>4 DEF ThrFun
<1>7. ASSUME NEW i \in Irqs, Isr(i) PROVE Goal
    <2>1. CASE IsrSetCond(i)
        <3>1. Cardinality(At("count")') = Cardinality(At("count")) + 1
            BY <2>1, Joins DEF IsrSetCond, IInv
        <3>2. UNCHANGED <<nbhs, ncalls, thr>> /\ cond' = 1
            BY <2>1 DEF IsrSetCond, IsrVars, countVars
        <3> QED
            BY <1>0, <3>1, <3>2
    <2>2. CASE IsrCount(i)
        <3>1. Cardinality(At("count")') = Cardinality(At("count")) - 1
            BY <2>2, Leaves DEF IsrCount, IInv
        <3>2. UNCHANGED <<nbhs, thr, cond>> /\ ncalls' = ncalls + 1
            BY <2>2 DEF IsrCount, IsrVars
        <3> QED
            BY <1>0, <3>1, <3>2
    <2>3. CASE IsrEnter(i) \/ IsrSetIrq(i) \/ IsrWakeUp(i) \/ IsrReturn(i)
        <3>1. At("count")' = At("count")
            BY <2>3, Passes DEF IsrEnter, IsrSetIrq, IsrWakeUp, IsrReturn,
               IInv
        <3>2. UNCHANGED <<nbhs, ncalls>> /\ Open' = Open
            BY <2>3 DEF IsrEnter, IsrSetIrq, IsrWakeUp, IsrReturn, IsrVars,
               countVars, Woken
        <3> QED
            BY <1>s, <3>1, <3>2
    <2> QED
        BY <1>7, <2>1, <2>2, <2>3 DEF Isr, IsrSchedule
<1> QED
    BY <1>1, <1>2, <1>3, <1>4, <1>5, <1>6, <1>7 DEF Next

LEMMA LabStays == [Next]_vars => lab' = lab
BY DEF Next, Loading, KthreadRun, KmallocRamdisk, MiscRegister, FlagIrq,
   RequestIrq, RequestSucceeded, Unloading, KthreadStop, MyGenericExit,
   FreeupIrq, FreeIrqDone, Deregister, halves, BhRun, BhCount, BhDynamic,
   BhVars, ThrFun, ThrBegin, ThrIrq, ThrClear, ThrTest, ThrCount, ThrWhile,
   ThrTo, ThrVars, Isr, IsrEnter, IsrSetIrq, IsrSetCond, IsrCount, IsrSchedule,
   IsrWakeUp, IsrReturn, IsrVars, vars

LEMMA InAllStep == IInv /\ [Next]_vars => InAll'
BY LabStays, StaticStep, ThreadStep DEF InAll

-----------------------------------------------------------------------------
(* The theorems. *)

THEOREM Invariance == Spec => []IInv
<1>1. IInv /\ [Next]_vars => IInv'
    BY ShapeStep, LinesStep, HandlersStep, KindsStep, ByLineStep, InAllStep
       DEF IInv
<1> QED
    BY <1>1, InitIInv, PTL DEF Spec

\* However early a handler counts on a line that get_irqs has not cleared
\* yet, freeup_irqs finds the lines that are ours by their flags.
THEOREM FlagsAreTrue == Spec => []FlagIsTrue
<1>1. IInv => FlagIsTrue
    <2> SUFFICES ASSUME IInv, NEW i \in Irqs, irq <= i,
                        module \in {"live", "stopping", "freeup"}
                 PROVE  interrupts[i] >= 0 <=> registered[i]
        BY DEF FlagIsTrue
    <2> QED
        BY DEF IInv, Lines, FlagTrue
<1> QED
    BY <1>1, Invariance, PTL

\* rmmod leaves no handler on a line and no thread, for any number of lines.
THEOREM ExitFreesAll == Spec => []AllFreed
<1>1. IInv => AllFreed
    BY DEF IInv, Lines, Handlers, Kinds, Late, AllFreed
<1> QED
    BY <1>1, Invariance, PTL

\* No interrupt of the dynamic labs is without its bottom half, and no bottom
\* half of any lab is without an interrupt.
THEOREM BottomHalvesAreOfInterrupts == Spec => []LineConservation
<1>1. IInv => LineConservation
    <2> SUFFICES ASSUME IInv PROVE LineConservation
        OBVIOUS
    <2>1. Cardinality(At("schedule")) \in Nat
          /\ Cardinality(At("count")) \in Nat
        BY FiniteAt
    <2>2. ~Dynamic => nbhs <= ncalls + (IF lab = "thread"
                THEN Cardinality(At("count")) ELSE 0)
        <3>1. CASE lab = "static"
            BY <2>1, <3>1 DEF IInv, Shape, InAll
        <3>2. CASE lab = "thread"
            BY <2>1, <3>2 DEF IInv, Shape, InAll
        <3> QED
            BY <3>1, <3>2 DEF IInv, Shape, Dynamic
    <2> QED
        BY <2>2 DEF IInv, ByLine, LineConservation, At
<1> QED
    BY <1>1, Invariance, PTL

-----------------------------------------------------------------------------
(* The event service (EventService.tla), which a bottom half on its own line *)
(* gives to that line, and the others to all lines together.                 *)

OfLine == INSTANCE EventService WITH
              raised <- calls[Line], handled <- bhs[Line]

\* The thread of lab_all_thread.c may count as soon as the condition is set.
Together == INSTANCE EventService WITH
    raised <- ncalls
                + (IF lab = "thread" THEN Cardinality(At("count")) ELSE 0),
    handled <- nbhs

\* In the dynamic labs every line is served on its own: a bottom half is
\* counted on the line of an interrupt that has none yet, and clearing the
\* second table takes none away.
THEOREM DynamicServesLines ==
    ASSUME Line \in Irqs PROVE Spec /\ Dynamic => OfLine!SafeSpec
<1> USE DEF Dynamic
<1>1. Init => OfLine!Init
    BY DEF Init, OfLine!Init
<1>2. IInv /\ Dynamic /\ [Next]_vars => Dynamic' /\ [OfLine!Next]_(OfLine!vars)
    <2> SUFFICES ASSUME IInv, Dynamic, [Next]_vars
                 PROVE  [OfLine!Next]_(OfLine!vars)
        BY LabStays
    <2> USE DEF IInv, Shape, OfLine!vars
    <2>1. CASE FlagIrq
        <3>1. bhs[irq] = 0
            <4>1. calls[irq] = 0 /\ queue[irq] = 0 /\ isr[irq] = "idle"
                BY <2>1, IrqsOrdered DEF FlagIrq, Lines, Handlers, Untried
            <4> QED
                BY <4>1 DEF ByLine
        <3> QED
            BY <2>1, <3>1 DEF FlagIrq, countVars
    <2>2. CASE (Loading /\ ~FlagIrq) \/ Unloading \/ UNCHANGED vars
        BY <2>2 DEF Loading, KthreadRun, KmallocRamdisk, MiscRegister,
           RequestIrq, RequestSucceeded, Unloading, KthreadStop,
           MyGenericExit, FreeupIrq, FreeIrqDone, Deregister, halves,
           countVars, vars
    <2>3. CASE BhRun \/ BhCount
        BY <2>3 DEF BhRun, BhCount, Kinds
    <2>4. CASE ThrFun
        BY <2>4 DEF ThrFun, ThrBegin, ThrIrq, ThrClear, ThrTest, ThrCount,
           ThrWhile, ThrTo, Kinds
    <2>5. ASSUME NEW i \in Irqs, Isr(i) PROVE [OfLine!Next]_(OfLine!vars)
        <3>1. CASE IsrCount(i)
            BY <3>1 DEF IsrCount, IsrVars, OfLine!Next, OfLine!Raise
        <3>2. CASE ~IsrCount(i)
            BY <2>5, <3>2 DEF Isr, IsrEnter, IsrSetIrq, IsrSetCond,
               IsrSchedule, IsrWakeUp, IsrReturn, IsrVars, countVars
        <3> QED
            BY <3>1, <3>2
    <2>6. ASSUME NEW i \in Irqs, BhDynamic(i)
          PROVE  [OfLine!Next]_(OfLine!vars)
        <3>1. bhs[i] < calls[i]
            BY <2>6 DEF BhDynamic, ByLine
        <3> QED
            BY <2>6, <3>1 DEF BhDynamic, BhVars, countVars, OfLine!Next,
               OfLine!Handle
    <2> QED
        BY <2>1, <2>2, <2>3, <2>4, <2>5, <2>6 DEF Next
<1> QED
    BY <1>1, <1>2, Invariance, PTL DEF Spec, OfLine!SafeSpec

\* In the other labs a bottom half counts for an interrupt that came and that
\* no other bottom half has counted for, but perhaps on another line.
LEMMA TogetherIsr ==
    ASSUME IInv, ~Dynamic, NEW i \in Irqs, Isr(i)
    PROVE  [Together!Next]_(Together!vars)
<1> DEFINE Announced ==
        IF lab = "thread" THEN Cardinality(At("count")) ELSE 0
<1> USE DEF IInv, Together!vars
<1>0. Announced \in Nat /\ ncalls \in Int /\ UNCHANGED <<lab, nbhs>>
    BY FiniteAt DEF Shape, Isr, IsrEnter, IsrSetIrq, IsrSetCond,
       IsrCount, IsrSchedule, IsrWakeUp, IsrReturn, IsrVars
<1>1. CASE IsrSetIrq(i)
    <2>1. lab # "thread" \/ At("count")' = At("count")
        BY <1>1, Passes DEF IsrSetIrq
    <2> QED
        BY <1>0, <1>1, <2>1 DEF IsrSetIrq, countVars
<1>2. CASE IsrSetCond(i)
    <2>1. Cardinality(At("count")') = Cardinality(At("count")) + 1
        BY <1>2, Joins DEF IsrSetCond
    <2>2. ncalls' = ncalls
        BY <1>2 DEF IsrSetCond, countVars
    <2> QED
        BY <1>0, <2>1, <2>2 DEF Together!Next, Together!Raise
<1>3. CASE IsrCount(i)
    <2>1. Cardinality(At("count")') = Cardinality(At("count")) - 1
        BY <1>3, Leaves DEF IsrCount
    <2>2. ncalls' = ncalls + 1
        BY <1>3 DEF IsrCount
    <2> QED
        BY <1>0, <2>1, <2>2 DEF Together!Next, Together!Raise
<1>4. CASE IsrEnter(i) \/ IsrSchedule(i) \/ IsrWakeUp(i) \/ IsrReturn(i)
    <2>1. At("count")' = At("count")
        BY <1>4, Passes DEF IsrEnter, IsrSchedule, IsrWakeUp, IsrReturn
    <2>2. ncalls' = ncalls
        BY <1>4 DEF IsrEnter, IsrSchedule, IsrWakeUp, IsrReturn, countVars
    <2> QED
        BY <1>0, <2>1, <2>2
<1> QED
    BY <1>1, <1>2, <1>3, <1>4 DEF Isr

\* In the static lab and the thread lab a bottom half counts for an interrupt,
\* but perhaps on another line than the one it came on: only all lines
\* together are served.
THEOREM OthersServeAllTogether == Spec /\ ~Dynamic => Together!SafeSpec
<1>1. Init => Together!Init
    <2> SUFFICES ASSUME Init PROVE Together!Init
        OBVIOUS
    <2>1. At("count") = {}
        BY DEF Init, At
    <2> QED
        BY <2>1, FS_EmptySet DEF Init, Together!Init
<1>2. IInv /\ ~Dynamic /\ [Next]_vars
        => ~Dynamic' /\ [Together!Next]_(Together!vars)
    <2> SUFFICES ASSUME IInv, ~Dynamic, [Next]_vars
                 PROVE  [Together!Next]_(Together!vars)
        BY LabStays DEF Dynamic
    <2> DEFINE Announced ==
            IF lab = "thread" THEN Cardinality(At("count")) ELSE 0
    <2> USE DEF Together!vars
    <2>0. Announced \in Nat /\ (isr' = isr => Announced' = Announced)
        BY FiniteAt, LabStays DEF At
    <2>1. CASE Loading \/ Unloading \/ UNCHANGED vars
        <3>1. UNCHANGED <<nbhs, ncalls, isr>>
            BY <2>1 DEF Loading, KthreadRun, KmallocRamdisk, MiscRegister,
               FlagIrq, RequestIrq, RequestSucceeded, Unloading, KthreadStop,
               MyGenericExit, FreeupIrq, FreeIrqDone, Deregister, halves,
               countVars, vars
        <3> QED
            BY <2>0, <3>1
    <2>2. CASE BhRun \/ BhCount \/ ThrFun
        <3>0. UNCHANGED <<ncalls, isr>>
            BY <2>2 DEF BhRun, BhCount, BhVars, ThrFun, ThrBegin, ThrIrq,
               ThrClear, ThrTest, ThrCount, ThrWhile, ThrTo, ThrVars, countVars
        <3>1. nbhs' = nbhs \/ (nbhs' = nbhs + 1 /\ nbhs < ncalls + Announced)
            <4>1. CASE BhCount
                <5>1. lab = "static" /\ Cardinality(At("schedule")) \in Nat
                    BY <4>1, FiniteAt DEF BhCount, IInv, Shape, Kinds
                <5> QED
                    BY <4>1, <5>1 DEF BhCount, IInv, Shape, InAll
            <4>2. CASE ThrCount
                <5>1. lab = "thread"
                    BY <4>2 DEF ThrCount, ThrTo, IInv, Kinds
                <5> QED
                    BY <2>0, <4>2, <5>1
                       DEF ThrCount, ThrTo, IInv, Shape, InAll
            <4>3. CASE BhRun \/ (ThrFun /\ ~ThrCount)
                BY <4>3 DEF BhRun, ThrFun, ThrBegin, ThrIrq, ThrClear, ThrTest,
                ThrWhile
            <4> QED
                BY <2>2, <4>1, <4>2, <4>3 DEF ThrFun
        <3> QED
            BY <2>0, <3>0, <3>1 DEF Together!Next, Together!Handle
    <2>3. ASSUME NEW i \in Irqs, BhDynamic(i) PROVE FALSE
        BY <2>3 DEF BhDynamic, IInv, Kinds, Dynamic
    <2> QED
        BY <2>1, <2>2, <2>3, TogetherIsr DEF Next
<1> QED
    BY <1>1, <1>2, Invariance, PTL DEF Spec, Together!SafeSpec

-----------------------------------------------------------------------------
(* rmmod. *)

\* What kthread_stop waits for in lab_all_thread.c: a thread that is there,
\* knows that it is to stop, and is not asleep, whatever the interrupts that
\* are still coming do to its condition.
ThreadIsTold ==
    module = "stopping" =>
        should_stop /\ thr \notin {"none", "err_ptr", "asleep"}

\* The thread that rmmod stops does not fall asleep again before it ends.
THEOREM StopReachesThread == Spec => []ThreadIsTold
<1> DEFINE Inv ==
        /\ ThreadIsTold
        /\ lab = "thread" /\ module # "kthread_run" => thr # "none"
<1>1. Init => Inv
    BY DEF Init, ThreadIsTold
<1>2. Inv /\ [Next]_vars => Inv'
    <2> SUFFICES ASSUME Inv, [Next]_vars PROVE Inv'
        OBVIOUS
    <2> USE LabStays DEF ThreadIsTold, thread
    <2>1. CASE Loading \/ Unloading
        BY <2>1 DEF Loading, KthreadRun, KmallocRamdisk, MiscRegister,
           FlagIrq, RequestIrq, RequestSucceeded, NextIrq, Unloading,
           KthreadStop, Woken, MyGenericExit, FreeupIrq, FreeIrqDone,
           Deregister, halves
    <2>2. CASE ThrFun
        BY <2>2 DEF ThrFun, ThrBegin, ThrIrq, ThrClear, ThrTest, ThrCount,
           ThrWhile, ThrTo, ThrVars
    <2>3. CASE BhRun \/ BhCount \/ UNCHANGED vars
        BY <2>3 DEF BhRun, BhCount, BhVars, vars
    <2>4. ASSUME NEW i \in Irqs, Isr(i) PROVE Inv'
        BY <2>4 DEF Isr, IsrEnter, IsrSetIrq, IsrSetCond, IsrCount,
           IsrSchedule, IsrWakeUp, Woken, IsrReturn, IsrVars
    <2>5. ASSUME NEW i \in Irqs, BhDynamic(i) PROVE Inv'
        BY <2>5 DEF BhDynamic, BhVars
    <2> QED
        BY <2>1, <2>2, <2>3, <2>4, <2>5 DEF Next
<1> QED
    BY <1>1, <1>2, PTL DEF Spec

=============================================================================
