------------------------ MODULE ThreadImprovedProofs ------------------------
(***************************************************************************)
(* What the two thread labs do keep, for any number of interrupts: no      *)
(* event leaves the books, no bottom half is counted without an interrupt, *)
(* a raised flag wakes the thread, and rmmod leaves neither thread nor     *)
(* handler behind.  What they count is what the event service counts; at   *)
(* the end, the threaded interrupt.                                        *)
(***************************************************************************)
EXTENDS ThreadImproved, FiniteSetTheorems, TLAPS

\* Before there is a handler nothing is counted; the thread may run.
Unloaded ==
    module \in {"insmod", "request_irq", "failed"} =>
        /\ isr = "idle"
        /\ counter_th = 0 /\ counter_bh = 0 /\ nevents = 0

\* The thread is in its loop for events that are there, and the handler
\* has room to count the one it has begun with.
Positive ==
    /\ lab = "improved" /\ thr \in {"inc_bh", "dec_nevents", "inc_catchup"}
        => nevents > 0
    /\ isr = "inc_th" => counter_th < MaxIrqs

\* The plain lab: the thread counts for a flag that it has not yet counted
\* for, and which the handler raises after it has counted.
Raised ==
    thr = "inc_bh" \/ (cond = 1 /\ thr \in {"prepare", "test", "asleep",
                                          "check_cond"})

Plain ==
    /\ lab = "plain" =>
        /\ thr \notin {"should_stop", "check", "dec_nevents", "inc_catchup"}
        /\ nevents = 0
        /\ counter_bh + (IF Raised THEN 1 ELSE 0)
              <= counter_th - (IF isr = "set_cond" THEN 1 ELSE 0)
    /\ lab = "improved" => thr # "check_cond"

\* FlagWakesThread without its restriction to a loaded module and an idle
\* handler: only the wake-up that is to come may be missing.
FlagAnnounced == cond = 1 /\ thr = "asleep" /\ isr # "wake_up" => runnable

\* From the moment my_exit has seen the thread dead.
Stopped ==
    /\ module \in {"free_irq", "gone"} => thr = "dead"
    /\ module = "gone" => isr = "idle"

\* The inductive invariant.  Conservation needs Unloaded, for my_init resets
\* counters while the thread runs already, and that needs Positive: a thread
\* without events does not count.
IInv ==
    /\ TypeOK /\ Conservation /\ Unloaded /\ Positive /\ Plain
    /\ FlagAnnounced /\ Stopped

LEMMA InitIInv == Init => IInv
<1> SUFFICES ASSUME Init PROVE IInv
    OBVIOUS
<1> USE DEF Init
<1>1. runnable \in BOOLEAN /\ stop \in BOOLEAN
    BY Zenon
<1>2. TypeOK
    BY <1>1, MaxIrqsAssumption DEF TypeOK
<1>3. Conservation /\ Unloaded /\ Positive /\ Plain /\ Stopped
    BY DEF Conservation, Unloaded, Positive, Plain, Raised, Stopped
<1>4. FlagAnnounced
    BY DEF FlagAnnounced
<1> QED
    BY <1>2, <1>3, <1>4 DEF IInv

\* The handler counts the event first and announces it last.
LEMMA IsrIInv == IInv /\ Isr => IInv'
<1> SUFFICES ASSUME IInv, Isr PROVE IInv'
    OBVIOUS
<1> USE MaxIrqsAssumption
    DEF IInv, TypeOK, Conservation, Unloaded, Positive, Plain, Raised,
        FlagAnnounced, Stopped, IsrVars
<1>0. CASE IsrEnter
    BY <1>0 DEF IsrEnter, IrqComes
<1>1. CASE IsrIncEvents
    BY <1>1 DEF IsrIncEvents, IrqComes
<1>2. CASE IsrCount
    BY <1>2 DEF IsrCount
<1>3. CASE IsrSetCond
    BY <1>3 DEF IsrSetCond
<1>4. CASE IsrWakeUp
    <2>1. /\ thr = "asleep" => runnable'
          /\ runnable' \in BOOLEAN
        BY <1>4 DEF IsrWakeUp
    <2>2. /\ UNCHANGED <<lab, module, counter_th, counter_bh, nevents, catchup,
                        cond, thr, stop>>
          /\ isr = "wake_up" /\ isr' = "idle"
        BY <1>4 DEF IsrWakeUp
    <2>3. FlagAnnounced'
        BY <2>1, <2>2
    <2>4. Conservation' /\ Plain'
        BY <2>2
    <2> QED
        BY <2>1, <2>2, <2>3, <2>4
<1> QED
    BY <1>0, <1>1, <1>2, <1>3, <1>4 DEF Isr

\* The thread takes events it has seen, and falls asleep on a flag that is
\* down.
LEMMA ThrIInv == IInv /\ Thr => IInv'
<1> SUFFICES ASSUME IInv, Thr PROVE IInv'
    OBVIOUS
<1> USE MaxIrqsAssumption
    DEF IInv, TypeOK, Conservation, Unloaded, Positive, Plain, Raised,
        FlagAnnounced, Stopped, ThrVars
<1>1. CASE ThrStart
    BY <1>1 DEF ThrStart
<1>2. CASE ThrClearCond
    BY <1>2 DEF ThrClearCond
<1>3. CASE ThrPrepare
    BY <1>3 DEF ThrPrepare
<1>4. CASE ThrTest
    BY <1>4 DEF ThrTest
<1>5. CASE ThrWoken
    BY <1>5 DEF ThrWoken
<1>12. CASE ThrCheckCond
    BY <1>12 DEF ThrCheckCond
<1>6. CASE ThrShouldStop
    BY <1>6 DEF ThrShouldStop
<1>7. CASE ThrCheck
    BY <1>7 DEF ThrCheck
<1>8. CASE ThrCount
    BY <1>8 DEF ThrCount
<1>9. CASE ThrDecAndTest
    BY <1>9 DEF ThrDecAndTest
<1>10. CASE ThrCatchup
    BY <1>10 DEF ThrCatchup
<1>11. CASE ThrWhile
    BY <1>11 DEF ThrWhile
<1> QED
    BY <1>1, <1>2, <1>3, <1>4, <1>5, <1>6, <1>7, <1>8, <1>9, <1>10, <1>11,
       <1>12 DEF Thr

\* Loading and unloading.
LEMMA ModuleIInv ==
    IInv /\ (KthreadRun \/ RequestIrq \/ KthreadStop \/ FreeIrq \/ FreeIrqDone)
        => IInv'
<1> SUFFICES ASSUME IInv,
                    \/ KthreadRun \/ RequestIrq \/ KthreadStop
                    \/ FreeIrq \/ FreeIrqDone
             PROVE  IInv'
    OBVIOUS
<1> USE MaxIrqsAssumption
    DEF IInv, TypeOK, Conservation, Unloaded, Positive, Plain, Raised,
        FlagAnnounced, Stopped, counters
<1>1. CASE KthreadRun
    BY <1>1 DEF KthreadRun
<1>2. CASE RequestIrq
    BY <1>2 DEF RequestIrq
<1>3. CASE KthreadStop
    BY <1>3 DEF KthreadStop
<1>4. CASE FreeIrq
    BY <1>4 DEF FreeIrq
<1>5. CASE FreeIrqDone
    BY <1>5 DEF FreeIrqDone
<1> QED
    BY <1>1, <1>2, <1>3, <1>4, <1>5

LEMMA StutterIInv == IInv /\ UNCHANGED vars => IInv'
BY DEF IInv, TypeOK, Conservation, Unloaded, Positive, Plain, Raised,
       FlagAnnounced, Stopped, vars

THEOREM Invariance == Spec => []IInv
<1>1. IInv /\ [Next]_vars => IInv'
    BY IsrIInv, ThrIInv, ModuleIInv, StutterIInv DEF Next
<1> QED
    BY <1>1, InitIInv, PTL DEF Spec

\* The types hold, nevents is never negative.
THEOREM TypeCorrect == Spec => []TypeOK
BY Invariance, PTL DEF IInv

\* No interleaving of my_interrupt and thr_fun loses an event from the books.
THEOREM NothingLost == Spec => []Conservation
BY Invariance, PTL DEF IInv

\* A raised and announced cond never finds the thread asleep for good.
THEOREM FlagWakes == Spec => []FlagWakesThread
<1>1. IInv => FlagWakesThread
    BY DEF IInv, FlagAnnounced, FlagWakesThread
<1> QED
    BY <1>1, Invariance, PTL

\* When the module is gone its thread is dead and its handler has returned.
THEOREM RmmodLeavesNobody == Spec => []UnloadedIsQuiet
<1>1. IInv => UnloadedIsQuiet
    BY DEF IInv, Stopped, UnloadedIsQuiet
<1> QED
    BY <1>1, Invariance, PTL

-----------------------------------------------------------------------------
(* The event service. *)

LEMMA IsrRefines == IInv /\ Isr => [ES!Next]_(ES!vars)
<1> SUFFICES ASSUME IInv, Isr PROVE [ES!Next]_(ES!vars)
    OBVIOUS
<1> USE MaxIrqsAssumption
    DEF IInv, TypeOK, IsrVars, ES!vars, ES!Next, ES!Raise
<1>1. CASE IsrEnter
    BY <1>1 DEF IsrEnter, IrqComes
<1>2. CASE IsrIncEvents
    BY <1>2 DEF IsrIncEvents, IrqComes
<1>3. CASE IsrCount
    BY <1>3 DEF IsrCount
<1>4. CASE IsrSetCond \/ IsrWakeUp
    BY <1>4 DEF IsrSetCond, IsrWakeUp
<1> QED
    BY <1>1, <1>2, <1>3, <1>4 DEF Isr

\* An event that the thread counts for is there: in nevents, or behind a flag
\* which it has not counted for yet.
LEMMA ThrRefines == IInv /\ Thr => [ES!Next]_(ES!vars)
<1> SUFFICES ASSUME IInv, Thr PROVE [ES!Next]_(ES!vars)
    OBVIOUS
<1> USE DEF ThrVars, ES!vars
<1>1. CASE ThrCount
    <2>1. counter_bh < counter_th + (IF isr = "inc_th" THEN 1 ELSE 0)
        BY <1>1, MaxIrqsAssumption
           DEF ThrCount, IInv, TypeOK, Conservation, Positive, Plain, Raised
    <2> QED
        BY <1>1, <2>1 DEF ThrCount, ES!Next, ES!Handle
<1>2. CASE ThrStart \/ ThrClearCond \/ ThrPrepare \/ ThrTest \/ ThrWoken
    BY <1>2 DEF ThrStart, ThrClearCond, ThrPrepare, ThrTest, ThrWoken
<1>3. CASE \/ ThrCheckCond \/ ThrShouldStop \/ ThrCheck \/ ThrDecAndTest
           \/ ThrCatchup \/ ThrWhile
    BY <1>3 DEF ThrCheckCond, ThrShouldStop, ThrCheck, ThrDecAndTest,
       ThrCatchup, ThrWhile
<1> QED
    BY <1>1, <1>2, <1>3 DEF Thr

\* Both labs count a bottom half only for an event that was raised and has
\* none yet, one at a time, although they count beside the handler.
THEOREM RefinesEventService == Spec => CountsOnlyEvents
<1>1. Init => ES!Init
    BY DEF Init, ES!Init
<1>2. IInv /\ [Next]_vars => [ES!Next]_(ES!vars)
    <2> SUFFICES ASSUME IInv, [Next]_vars PROVE [ES!Next]_(ES!vars)
        OBVIOUS
    <2>1. CASE RequestIrq
        BY <2>1 DEF RequestIrq, IInv, Unloaded, ES!vars
    <2>2. CASE \/ KthreadRun \/ KthreadStop \/ FreeIrq \/ FreeIrqDone
               \/ UNCHANGED vars
        BY <2>2 DEF KthreadRun, KthreadStop, FreeIrq, FreeIrqDone, counters,
           vars, ES!vars
    <2> QED
        BY <2>1, <2>2, IsrRefines, ThrRefines DEF Next
<1> QED
    BY <1>1, <1>2, Invariance, PTL DEF Spec, CountsOnlyEvents, ES!SafeSpec

-----------------------------------------------------------------------------
(* rmmod. *)

\* kthread_stop waits for a thread that is there, that has been told, and that
\* is not asleep unless it is about to wake: whatever it was doing.
StopReaches ==
    module = "kthread_stop" =>
        /\ stop /\ thr \notin {"none", "err_ptr"}
        /\ thr = "asleep" => runnable

\* What rmmod waits for is on its way: the thread has been told to stop, is
\* not asleep for good, and cannot fall asleep again.
THEOREM StopReachesThread == Spec => []StopReaches
<1> DEFINE Inv ==
        /\ StopReaches
        /\ module \notin {"insmod"} => thr # "none"
<1>1. Init => Inv
    BY DEF Init, StopReaches
<1>2. TypeOK /\ Inv /\ [Next]_vars => Inv'
    <2> SUFFICES ASSUME TypeOK, Inv, [Next]_vars PROVE Inv'
        OBVIOUS
    <2> USE DEF StopReaches, TypeOK
    <2>1. CASE Isr
        BY <2>1 DEF Isr, IsrEnter, IsrIncEvents, IsrCount, IsrSetCond,
           IsrWakeUp, IsrVars
    <2>2. CASE Thr
        BY <2>2 DEF Thr, ThrStart, ThrClearCond, ThrPrepare, ThrTest,
           ThrWoken, ThrCheckCond, ThrShouldStop, ThrCheck, ThrCount,
           ThrDecAndTest, ThrCatchup, ThrWhile, ThrVars
    <2>3. CASE KthreadRun \/ RequestIrq \/ KthreadStop
        BY <2>3 DEF KthreadRun, RequestIrq, KthreadStop
    <2>4. CASE FreeIrq \/ FreeIrqDone \/ UNCHANGED vars
        BY <2>4 DEF FreeIrq, FreeIrqDone, vars
    <2> QED
        BY <2>1, <2>2, <2>3, <2>4 DEF Next
<1> QED
    BY <1>1, <1>2, TypeCorrect, PTL DEF Spec

\* The thread is told to stop after it was created.
ToldInTime == stop => module # "insmod"

\* One step of thr_fun takes the thread that is told to stop nearer to its
\* end, for every number of events that wait for it.
LEMMA ThrNearer == IInv /\ Thr /\ stop => ToGo' < ToGo
<1> SUFFICES ASSUME IInv, Thr, stop PROVE ToGo' < ToGo
    OBVIOUS
<1> USE DEF ToGo
<1>0. nevents \in Nat
    BY DEF IInv, TypeOK
<1>1. CASE ThrStart \/ ThrClearCond \/ ThrPrepare \/ ThrWoken
    BY <1>0, <1>1 DEF ThrStart, ThrClearCond, ThrPrepare, ThrWoken
<1>2. CASE ThrTest
    BY <1>0, <1>2 DEF ThrTest
<1>3. CASE ThrCheckCond \/ ThrShouldStop \/ ThrCheck
    BY <1>0, <1>3 DEF ThrCheckCond, ThrShouldStop, ThrCheck
<1>4. CASE ThrCount
    BY <1>0, <1>4 DEF ThrCount
<1>5. CASE ThrDecAndTest
    <2>1. nevents > 0
        BY <1>5, MaxIrqsAssumption
           DEF ThrDecAndTest, IInv, TypeOK, Positive, Plain
    <2> QED
        BY <1>0, <1>5, <2>1 DEF ThrDecAndTest
<1>6. CASE ThrCatchup \/ ThrWhile
    BY <1>0, <1>6 DEF ThrCatchup, ThrWhile
<1> QED
    BY <1>1, <1>2, <1>3, <1>4, <1>5, <1>6 DEF Thr

\* However many interrupts there are, each puts the end of the thread that is
\* told to stop off by one round, and each of its own steps brings it nearer.
THEOREM StopDrawsNear == Spec => StopComesNearer
<1>1. Init => ToldInTime
    BY DEF Init, ToldInTime
<1>2. ToldInTime /\ [Next]_vars => ToldInTime'
    <2> SUFFICES ASSUME ToldInTime, [Next]_vars PROVE ToldInTime'
        OBVIOUS
    <2> USE DEF ToldInTime
    <2>1. CASE Isr
        BY <2>1 DEF Isr, IsrEnter, IsrIncEvents, IsrCount, IsrSetCond,
           IsrWakeUp, IsrVars
    <2>2. CASE Thr
        BY <2>2 DEF Thr, ThrStart, ThrClearCond, ThrPrepare, ThrTest,
           ThrWoken, ThrCheckCond, ThrShouldStop, ThrCheck, ThrCount,
           ThrDecAndTest, ThrCatchup, ThrWhile, ThrVars
    <2>3. CASE KthreadRun \/ RequestIrq \/ KthreadStop
        BY <2>3 DEF KthreadRun, RequestIrq, KthreadStop
    <2>4. CASE FreeIrq \/ FreeIrqDone \/ UNCHANGED vars
        BY <2>4 DEF FreeIrq, FreeIrqDone, vars
    <2> QED
        BY <2>1, <2>2, <2>3, <2>4 DEF Next
<1>3. IInv /\ ToldInTime /\ [Next]_vars
        => [stop => \/ Thr /\ ToGo' < ToGo
                    \/ IsrIncEvents /\ ToGo' <= ToGo + 3
                    \/ ToGo' = ToGo]_vars
    <2> SUFFICES ASSUME IInv, ToldInTime, [Next]_vars, stop
                 PROVE  \/ Thr /\ ToGo' < ToGo
                        \/ IsrIncEvents /\ ToGo' <= ToGo + 3
                        \/ ToGo' = ToGo
        OBVIOUS
    <2>1. CASE Thr
        BY <2>1, ThrNearer
    <2>2. CASE IsrIncEvents
        BY <2>2 DEF IsrIncEvents, IsrVars, ToGo, IInv, TypeOK
    <2>3. CASE IsrEnter \/ IsrCount \/ IsrSetCond \/ IsrWakeUp
        BY <2>3 DEF IsrEnter, IsrCount, IsrSetCond, IsrWakeUp, IsrVars, ToGo
    <2>4. CASE KthreadRun
        BY <2>4 DEF KthreadRun, ToldInTime
    <2>5. CASE RequestIrq \/ KthreadStop \/ FreeIrq \/ FreeIrqDone
        BY <2>5 DEF RequestIrq, KthreadStop, FreeIrq, FreeIrqDone, counters,
           ToGo
    <2>6. CASE UNCHANGED vars
        BY <2>6 DEF vars, ToGo
    <2> QED
        BY <2>1, <2>2, <2>3, <2>4, <2>5, <2>6 DEF Next, Isr
<1> QED
    BY <1>1, <1>2, <1>3, Invariance, PTL DEF Spec, StopComesNearer

-----------------------------------------------------------------------------
(* The thread the kernel provides: the labs with a threaded handler, whose *)
(* state is that of the labs above with a flag in the place of the wait    *)
(* queue.                                                                  *)

CONSTANTS
    ThreadedLabs,   \* the labs with a threaded handler
    W               \* width of an atomic_t

VARIABLES
    runthread,      \* IRQTF_RUNTHREAD of the action
    came            \* interrupts that were counted

Threaded == INSTANCE ThreadedIrq WITH Labs <- ThreadedLabs

\* A remainder is determined by what it leaves a multiple of m.
LEMMA RemainderUnique ==
    ASSUME NEW m \in Nat \ {0}, NEW q \in Int, NEW q2 \in Int,
           NEW r \in 0..(m-1), NEW r2 \in 0..(m-1), m * q + r = m * q2 + r2
    PROVE  r = r2
<1>m. ASSUME NEW k \in Int, k >= 1 PROVE m * k >= m
    BY <1>m
<1>d. m * (q - q2) = r2 - r /\ m * (q2 - q) = r - r2
    OBVIOUS
<1>1. CASE q > q2
    <2>1. q - q2 \in Int /\ q - q2 >= 1
       BY <1>1
    <2> QED BY <2>1, <1>m, <1>d
<1>2. CASE q2 > q
    <2>1. q2 - q \in Int /\ q2 - q >= 1
       BY <1>2
    <2> QED BY <2>1, <1>m, <1>d
<1>3. CASE q = q2
    BY <1>3
<1> QED
    BY <1>1, <1>2, <1>3

LEMMA DivMod ==
    ASSUME NEW m \in Nat \ {0}, NEW x \in Int
    PROVE  /\ x % m \in 0..(m-1) /\ x \div m \in Int
           /\ x = m * (x \div m) + (x % m)
<1>1. x % m \in 0..(m-1) /\ x = m * (x \div m) + (x % m)
    OBVIOUS
<1>2. x \div m \in Int
    OBVIOUS
<1> QED
    BY <1>1, <1>2

\* Sums may be reduced before or after.
LEMMA ModAdd ==
    ASSUME NEW m \in Nat \ {0}, NEW x \in Int, NEW y \in Int
    PROVE  ((x % m) + y) % m = (x + y) % m
<1> DEFINE a == x \div m
           z == (x % m) + y
           b == z \div m
           c == (x + y) \div m
<1>1. x % m \in Int /\ a \in Int /\ x = m * a + (x % m)
    BY DivMod
<1>2. z \in Int
    BY <1>1
<1>3. z % m \in 0..(m-1) /\ b \in Int /\ z = m * b + (z % m)
    BY <1>2, DivMod
<1>4. (x + y) % m \in 0..(m-1) /\ c \in Int /\ x + y = m * c + ((x + y) % m)
    <2>1. x + y \in Int
        OBVIOUS
    <2> QED
        BY <2>1, DivMod
<1>5. x + y = m * (a + b) + (z % m)
    BY <1>1, <1>3
<1>6. a + b \in Int
    BY <1>1, <1>3
<1> HIDE DEF a, b, c, z
<1>8. m * (a + b) + (z % m) = m * c + ((x + y) % m)
    BY <1>4, <1>5
<1>7. z % m = (x + y) % m
    BY <1>8, <1>3, <1>4, <1>6, RemainderUnique
<1> QED
    BY <1>7 DEF z

\* The subsets of a set of n elements are as many as the words of n bits.
LEMMA WordsExist == ASSUME NEW n \in Nat PROVE 2^n \in Nat \ {0}
<1>1. IsFiniteSet(1..n) /\ Cardinality(1..n) = n
    BY FS_Interval
<1>2. IsFiniteSet(SUBSET (1..n)) /\ Cardinality(SUBSET (1..n)) = 2^n
    BY <1>1, FS_SUBSET
<1>3. SUBSET (1..n) # {}
    OBVIOUS
<1> QED
    BY <1>2, <1>3, FS_EmptySet, FS_CardinalityType

LEMMA ModSmall ==
    ASSUME NEW m \in Nat \ {0}, NEW r \in 0..(m-1)
    PROVE  r % m = r
<1>1. r \in Int /\ r = m * 0 + r
    OBVIOUS
<1>2. r % m \in 0..(m-1) /\ r \div m \in Int /\ r = m * (r \div m) + (r % m)
    BY <1>1, DivMod
<1>3. m * 0 + r = m * (r \div m) + (r % m)
    BY <1>1, <1>2
<1> QED
    BY <1>2, <1>3, RemainderUnique

LEMMA ModSame ==
    ASSUME NEW m \in Nat \ {0}, NEW x \in Int, NEW y \in Int, NEW z \in Int,
           x % m = y % m
    PROVE  (x + z) % m = (y + z) % m
<1>1. (x + z) % m = ((x % m) + z) % m
    BY ModAdd
<1>2. (y + z) % m = ((y % m) + z) % m
    BY ModAdd
<1> QED
    BY <1>1, <1>2

\* The inductive invariant: nothing runs before there is a handler, since
\* loading resets the counters.  A line is requested with its flag down, one
\* behind the interrupts, until it is cleared.
ThreadedInv ==
    /\ Threaded!TypeOK /\ Threaded!ConservationMod
    /\ module = "loading" => isr = "idle" /\ thr = "none" /\ came = 0
    /\ module = "requested" => lab = "all"
    /\ lab \in {"one", "all"}

Widths ==
    /\ ThreadedLabs \subseteq {"one", "all"}
    /\ W \in Nat /\ MaxIrqs \in 0..(2^W - 1)

LEMMA WordIsInt ==
    ASSUME Widths
    PROVE  /\ 2^W \in Nat \ {0} /\ Threaded!Word \subseteq Int
           /\ \A x \in Int : x % 2^W \in Threaded!Word
BY WordsExist, DivMod DEF Widths, Threaded!Word

LEMMA ThreadedInit ==
    ASSUME Widths, Threaded!Init
    PROVE  ThreadedInv
<1>1. 0 \in Threaded!Word /\ 0 \in 0..MaxIrqs
    BY WordIsInt DEF Widths, Threaded!Word
<1>2. Threaded!TypeOK
    BY <1>1 DEF Threaded!Init, Threaded!TypeOK
<1>3. Threaded!ConservationMod
    BY DEF Threaded!Init, Threaded!ConservationMod
<1>4. lab \in {"one", "all"}
    BY DEF Threaded!Init, Widths
<1> QED
    BY <1>2, <1>3, <1>4 DEF Threaded!Init, ThreadedInv

\* The first part of ConservationMod.
ThreadedBooks ==
    (came - (IF isr = "inc_nevents" THEN 1 ELSE 0)) % 2^W =
        (counter_bh - (IF thr = "dec_nevents" THEN 1 ELSE 0) + nevents) % 2^W

\* Each half moves the two sides of the balance together, one of them by the
\* counter and the other by what it has in hand.
LEMMA ThreadedBalance ==
    ASSUME Widths, ThreadedInv, Threaded!Isr \/ Threaded!Thr
    PROVE  ThreadedBooks'
<1> USE DEF ThreadedBooks
<1> DEFINE top == came - (IF isr = "inc_nevents" THEN 1 ELSE 0)
           bot == counter_bh - (IF thr = "dec_nevents" THEN 1 ELSE 0)
<1>t. /\ came \in Int /\ counter_bh \in Int /\ nevents \in Int
      /\ 2^W \in Nat \ {0} /\ top % 2^W = (bot + nevents) % 2^W
      /\ top \in Int /\ bot \in Int
    BY WordIsInt
    DEF Widths, ThreadedInv, Threaded!TypeOK, Threaded!ConservationMod
<1>i. /\ counter_bh + 1 \in Int
      /\ nevents + 1 \in Int /\ nevents - 1 \in Int
      /\ bot + nevents \in Int /\ 1 \in Int /\ -1 \in Int
    BY <1>t
<1>m. \A x, y \in Int : ((x % 2^W) + y) % 2^W = (x + y) % 2^W
    BY <1>t, ModAdd
<1> HIDE DEF top, bot
<1>s. \A x, y, z \in Int :
          x % 2^W = y % 2^W => (x + z) % 2^W = (y + z) % 2^W
    BY <1>t, ModSame
<1>p. (top + 1) % 2^W = ((bot + nevents) + 1) % 2^W
    <2> DEFINE sum == bot + nevents
    <2>1. sum \in Int /\ top % 2^W = sum % 2^W
        BY <1>t, <1>i
    <2> HIDE DEF sum
    <2>2. (top + 1) % 2^W = (sum + 1) % 2^W
        BY <2>1, <1>t, <1>i, <1>s
    <2> QED
        BY <2>2 DEF sum
<1> USE DEF top, bot
<1>1. CASE Threaded!IsrEnter
    BY <1>1, <1>t DEF Threaded!IsrEnter, Threaded!IsrVars
<1>2. CASE Threaded!IsrIncEvents
    <2>1. (((nevents + 1) % 2^W) + bot) % 2^W = ((nevents + 1) + bot) % 2^W
        BY <1>t, <1>i, <1>m
    <2>3. ((nevents + 1) % 2^W) \in Int
        BY <1>t, DivMod
    <2>4. top' = top + 1 /\ bot' = bot /\ nevents' = (nevents + 1) % 2^W
        BY <1>2, <1>t DEF Threaded!IsrIncEvents, Threaded!Inc,
           Threaded!IsrVars
    <2>5. bot + nevents' = nevents' + bot
          /\ (nevents + 1) + bot = (bot + nevents) + 1
        BY <1>t, <2>3, <2>4
    <2>6. top' % 2^W = (bot' + nevents') % 2^W
        BY <2>1, <1>p, <2>4, <2>5
    <2> QED
        BY <2>6
<1>3. CASE Threaded!ThrCount
    <2>1. (((counter_bh + 1) % 2^W) + (nevents - 1)) % 2^W
              = ((counter_bh + 1) + (nevents - 1)) % 2^W
        BY <1>t, <1>i, <1>m
    <2>2. ((counter_bh + 1) % 2^W) \in Int
        BY <1>t, DivMod
    <2>3. top' = top /\ bot = counter_bh /\ nevents' = nevents
          /\ bot' = ((counter_bh + 1) % 2^W) - 1
        BY <1>3, <1>t DEF Threaded!ThrCount, Threaded!Inc,
           Threaded!ThrVars
    <2>4. /\ bot' + nevents' = ((counter_bh + 1) % 2^W) + (nevents - 1)
          /\ bot + nevents = (counter_bh + 1) + (nevents - 1)
        BY <1>t, <2>2, <2>3
    <2>5. top' % 2^W = (bot' + nevents') % 2^W
        BY <1>t, <2>1, <2>3, <2>4
    <2> QED
        BY <2>5
<1>4. CASE Threaded!ThrDecAndTest
    <2>1. (((nevents - 1) % 2^W) + counter_bh) % 2^W
              = ((nevents - 1) + counter_bh) % 2^W
        BY <1>t, <1>i, <1>m
    <2>2. ((nevents - 1) % 2^W) \in Int
        BY <1>t, DivMod
    <2>3. top' = top /\ bot = counter_bh - 1 /\ bot' = counter_bh
          /\ nevents' = (nevents - 1) % 2^W
        BY <1>4, <1>t DEF Threaded!ThrDecAndTest, Threaded!Dec,
           Threaded!ThrVars
    <2>4. /\ bot' + nevents' = ((nevents - 1) % 2^W) + counter_bh
          /\ bot + nevents = (nevents - 1) + counter_bh
        BY <1>t, <2>2, <2>3
    <2>5. top' % 2^W = (bot' + nevents') % 2^W
        BY <1>t, <2>1, <2>3, <2>4
    <2> QED
        BY <2>5
<1>5. CASE Threaded!IsrWakeThread \/ Threaded!ThrRun
    <2>1. top' = top /\ bot' = bot /\ nevents' = nevents
        BY <1>5, <1>t DEF Threaded!IsrWakeThread, Threaded!ThrRun,
           Threaded!ThrVars, Threaded!IsrVars
    <2>2. top' % 2^W = (bot' + nevents') % 2^W
        BY <1>t, <2>1
    <2> QED
        BY <2>2
<1> QED
    BY <1>1, <1>2, <1>3, <1>4, <1>5 DEF Threaded!Isr, Threaded!Thr

LEMMA ThreadedTypes ==
    ASSUME Widths, ThreadedInv, Threaded!Isr \/ Threaded!Thr
    PROVE  Threaded!TypeOK'
<1> USE DEF ThreadedInv, Threaded!TypeOK
<1>t. /\ counter_th \in Int /\ counter_bh \in Int /\ nevents \in Int
      /\ \A x \in Int : x % 2^W \in Threaded!Word
    BY WordIsInt DEF Threaded!Word
<1>1. CASE Threaded!IsrEnter
    <2>1. (counter_th + 1) % 2^W \in Threaded!Word
        BY <1>t
    <2>2. came + 1 \in 0..MaxIrqs
        BY <1>1 DEF Widths, Threaded!IsrEnter
    <2> QED
        BY <1>1, <2>1, <2>2
           DEF Threaded!IsrEnter, Threaded!Inc, Threaded!IsrVars
<1>2. CASE Threaded!IsrIncEvents \/ Threaded!IsrWakeThread
    <2>1. (nevents + 1) % 2^W \in Threaded!Word
        BY <1>t
    <2> QED
        BY <1>2, <2>1 DEF Threaded!IsrIncEvents, Threaded!IsrWakeThread,
           Threaded!Inc, Threaded!IsrVars
<1>3. CASE Threaded!ThrRun \/ Threaded!ThrCount \/ Threaded!ThrDecAndTest
    <2>1. /\ (counter_bh + 1) % 2^W \in Threaded!Word
          /\ (nevents - 1) % 2^W \in Threaded!Word
        BY <1>t
    <2> QED
        BY <1>3, <2>1 DEF Threaded!ThrRun, Threaded!ThrCount,
           Threaded!ThrDecAndTest, Threaded!Inc, Threaded!Dec,
           Threaded!ThrVars
<1> QED
    BY <1>1, <1>2, <1>3 DEF Threaded!Isr, Threaded!Thr

\* The other two: a line's counter that is cleared does not wrap, since the
\* last of the interrupts is not beyond a word.
ThreadedCounter ==
    /\ lab = "one" => counter_th = came
    /\ module \notin {"requested", "failed"} => counter_th <= came

LEMMA ThreadedCounts ==
    ASSUME Widths, ThreadedInv, Threaded!Isr \/ Threaded!Thr
    PROVE  ThreadedCounter'
<1> USE DEF ThreadedInv, Threaded!ConservationMod, ThreadedCounter
<1>1. CASE Threaded!IsrEnter
    <2>t. /\ counter_th \in 0..(2^W - 1) /\ 2^W \in Nat \ {0}
          /\ came < MaxIrqs /\ MaxIrqs <= 2^W - 1 /\ MaxIrqs \in Int
          /\ came \in Int
        BY <1>1, WordIsInt
           DEF Widths, Threaded!TypeOK, Threaded!IsrEnter, Threaded!Word
    <2>s. /\ counter_th' = (counter_th + 1) % 2^W /\ came' = came + 1
          /\ module' = module /\ lab' = lab
          /\ module \in {"requested", "live"}
        BY <1>1 DEF Threaded!IsrEnter, Threaded!Inc, Threaded!IsrVars
    <2>1. CASE module = "requested"
        BY <2>1, <2>s
    <2>2. CASE module = "live"
        <3>1. counter_th <= came
            BY <2>2
        <3>2. counter_th + 1 \in 0..(2^W - 1)
            BY <2>t, <3>1
        <3>3. counter_th' = counter_th + 1
            BY <2>t, <2>s, <3>2, ModSmall
        <3> QED
            BY <2>t, <2>s, <3>1, <3>3
    <2> QED
        BY <2>s, <2>1, <2>2
<1>2. CASE ~Threaded!IsrEnter
    <2>1. UNCHANGED <<lab, module, counter_th, came>>
        BY <1>2 DEF Threaded!Isr, Threaded!Thr, Threaded!IsrIncEvents,
           Threaded!IsrWakeThread, Threaded!ThrRun, Threaded!ThrCount,
           Threaded!ThrDecAndTest, Threaded!IsrVars, Threaded!ThrVars
    <2> QED
        BY <2>1
<1> QED
    BY <1>1, <1>2

LEMMA ThreadedStep ==
    ASSUME Widths, ThreadedInv, [Threaded!Next]_(Threaded!vars)
    PROVE  ThreadedInv'
<1>z. /\ 0 \in Threaded!Word /\ Threaded!Dec(0) \in Threaded!Word
      /\ 2^W \in Nat \ {0}
    BY WordIsInt DEF Threaded!Word, Threaded!Dec
<1>1. CASE Threaded!MyInit \/ Threaded!GetIrq
    BY <1>1, <1>z DEF Threaded!MyInit, Threaded!GetIrq,
       Threaded!RequestThreadedIrq, ThreadedInv, Threaded!TypeOK,
       Threaded!ConservationMod
<1>2. CASE Threaded!ClearLine
    <2>1. 0 <= came
        BY DEF ThreadedInv, Threaded!TypeOK, Widths
    <2> QED
        BY <1>2, <1>z, <2>1 DEF Threaded!ClearLine, ThreadedInv,
           Threaded!TypeOK, Threaded!ConservationMod
<1>3. CASE \/ Threaded!FreeIrq \/ Threaded!FreeIrqSync
           \/ Threaded!ThrStopped \/ UNCHANGED Threaded!vars
    BY <1>3 DEF Threaded!FreeIrq, Threaded!FreeIrqSync,
       Threaded!ThrStopped, Threaded!lineVars, Threaded!vars, ThreadedInv,
       Threaded!TypeOK, Threaded!ConservationMod
<1>4. CASE Threaded!Isr \/ Threaded!Thr
    <2>1. module' = module /\ module # "loading" /\ lab' = lab
        BY <1>4 DEF ThreadedInv, Threaded!Isr, Threaded!Thr,
           Threaded!IsrEnter, Threaded!IsrIncEvents,
           Threaded!IsrWakeThread, Threaded!ThrRun, Threaded!ThrCount,
           Threaded!ThrDecAndTest, Threaded!IsrVars, Threaded!ThrVars
    <2>2. Threaded!ConservationMod'
        BY <1>4, ThreadedBalance, ThreadedCounts
           DEF ThreadedBooks, ThreadedCounter, Threaded!ConservationMod
    <2> QED
        BY <1>4, <2>1, <2>2, ThreadedTypes DEF ThreadedInv
<1> QED
    BY <1>1, <1>2, <1>3, <1>4 DEF Threaded!Next

\* The threaded handler's books balance through every overflow of the
\* counters, whatever their width, in lab_one_threaded.c and on each line of
\* lab_all_threaded.c, whose counter is no further than the interrupts.
THEOREM BalanceSurvivesWrapAround ==
    ASSUME Widths
    PROVE  Threaded!Spec => []Threaded!ConservationMod
<1>1. Threaded!Init => ThreadedInv
    BY ThreadedInit
<1>2. ThreadedInv /\ [Threaded!Next]_(Threaded!vars) => ThreadedInv'
    BY ThreadedStep
<1> QED
    BY <1>1, <1>2, PTL DEF Threaded!Spec, ThreadedInv

\* The types hold.
THEOREM ThreadedTypeCorrect ==
    ASSUME Widths PROVE Threaded!Spec => []Threaded!TypeOK
<1>1. Threaded!Init => ThreadedInv
    BY ThreadedInit
<1>2. ThreadedInv /\ [Threaded!Next]_(Threaded!vars) => ThreadedInv'
    BY ThreadedStep
<1> QED
    BY <1>1, <1>2, PTL DEF Threaded!Spec, ThreadedInv

\* What Drained and RmmodEnds of ThreadedIrq rest on: an event that is pending
\* has its thread running, flagged, or about to be flagged by the handler, and
\* free_irq finds a thread to stop and no handler.
PendingIsServed ==
    module \in {"requested", "live", "free_irq", "kthread_stop"} =>
        /\ thr # "none"
        /\ nevents # 0 =>
                \/ isr = "return" \/ runthread
                \/ thr \in {"inc_bh", "dec_nevents"}
        /\ module = "kthread_stop" => isr = "idle"

\* No event waits for an interrupt yet to come.
THEOREM ThreadedServesPending == Threaded!Spec => []PendingIsServed
<1> DEFINE Inv ==
        /\ PendingIsServed
        /\ module = "loading" => isr = "idle" /\ thr = "none"
        /\ module \in {"failed", "gone"} => isr = "idle" /\ thr = "none"
<1>1. Threaded!Init => Inv
    BY DEF Threaded!Init, PendingIsServed
<1>2. Inv /\ [Threaded!Next]_(Threaded!vars) => Inv'
    <2> SUFFICES ASSUME Inv, [Threaded!Next]_(Threaded!vars) PROVE Inv'
        OBVIOUS
    <2> USE DEF PendingIsServed
    <2>1. CASE Threaded!MyInit \/ Threaded!GetIrq \/ Threaded!ClearLine
        BY <2>1 DEF Threaded!MyInit, Threaded!GetIrq, Threaded!ClearLine,
           Threaded!RequestThreadedIrq
    <2>2. CASE \/ Threaded!FreeIrq \/ Threaded!FreeIrqSync
               \/ Threaded!ThrStopped \/ UNCHANGED Threaded!vars
        BY <2>2 DEF Threaded!FreeIrq, Threaded!FreeIrqSync,
           Threaded!ThrStopped, Threaded!lineVars, Threaded!vars
    <2>3. CASE Threaded!Isr
        BY <2>3 DEF Threaded!Isr, Threaded!IsrEnter, Threaded!IsrIncEvents,
           Threaded!IsrWakeThread, Threaded!IsrVars
    <2>4. CASE Threaded!Thr
        BY <2>4 DEF Threaded!Thr, Threaded!ThrRun, Threaded!ThrCount,
           Threaded!ThrDecAndTest, Threaded!ThrVars
    <2> QED
        BY <2>1, <2>2, <2>3, <2>4 DEF Threaded!Next
<1> QED
    BY <1>1, <1>2, PTL DEF Threaded!Spec

=============================================================================
