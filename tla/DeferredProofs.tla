--------------------------- MODULE DeferredProofs ---------------------------
(***************************************************************************)
(* What the labs with deferred functions promise, for any finite sets of   *)
(* processes and blocks and any number of writes: a block belongs to the   *)
(* process that sets it up, then to the timer, then to the function, and   *)
(* what rmmod has stopped stays stopped.  The theorems are about the code  *)
(* with Exclusive, what lab_multitimer.c, resolution_timer_driver.c and    *)
(* lab_timer.c need of the processes that write and do not enforce.        *)
(***************************************************************************)
EXTENDS Deferred, FiniteSetTheorems, SequenceTheorems, TLAPS

Multi == {"multi", "multiold"}

\* One process at a time where the pointer to the timer is global, and none
\* while the one static timer is pending.
Exclusive ==
    /\ Labs \cap {"multi", "resolution"} \subseteq OneWriter
    /\ Labs \cap {"onetimer"} \subseteq OneTimer

\* Labs whose device write() does not reach: they have none.
Silent == Periodic \cup Hrtimers \cup {"mytasklet"}

Quiet(b) == b \notin armed /\ fun[b] = "idle"

AllQuiet == \A b \in Blocks : Quiet(b)

\* Writers with a block that is not armed yet, and that block.
Adding == {w \in Writers : wr[w] \in {"setup", "add"}}

Held(w) == IF wr[w] = "add" \/ lab = "multiold" THEN tl[w] ELSE data

\* The part of TypeOK the proofs need; the bounds of a run are left out.
Shape ==
    /\ lab \in Labs
    /\ allocated \subseteq Blocks /\ armed \subseteq Blocks
    /\ fun \in [Blocks -> {"idle", "entered", "freed", "return"}]
    /\ wr \in [Writers -> {"idle", "inc", "kmalloc", "setup", "add", "len",
                          "store", "return"}]
    /\ tl \in [Writers -> Blocks \cup {None}] /\ data \in Blocks \cup {None}
    /\ del \in Seq(Blocks \cup {None})
    /\ ntimers \in Int /\ writes \in Int

\* Which lab is where in its code, and nobody writes but to a live module.
Places ==
    /\ \A w \in Writers :
        /\ wr[w] = "inc" => lab \in Multi
        /\ wr[w] = "kmalloc" => lab \in PerWrite
        /\ wr[w] = "setup" => lab \in PerWrite \cup {"onetimer"}
        /\ wr[w] = "len" => lab \in Items
        /\ wr[w] = "store" => lab = "tasklet"
        /\ wr[w] # "idle" => module = "live" /\ device
    /\ device => lab \notin Silent
    /\ \A b \in Blocks : fun[b] = "freed" => lab \in Multi
    /\ module = "poll" => lab \in Multi
    /\ module = "destroy" => lab = "private"
    /\ module = "delete" =>
            lab \in Periodic \cup Hrtimers \cup {"resolution", "onetimer"}
    /\ module = "kfree" => lab \in Periodic \cup Hrtimers \cup {"resolution"}
    /\ module = "generic" => lab \notin Silent

\* One process is in write() where the code needs that.
Alone ==
    lab \in {"multi", "resolution", "onetimer"} =>
        \A v, w \in Writers : wr[v] # "idle" /\ wr[w] # "idle" => v = w

\* No timer is pending in freed memory and no function is given any.
InMemory ==
    /\ \A b \in Blocks : b \in armed \/ fun[b] = "entered" => b \in allocated
    /\ lab \in Items \cup {"onetimer"} /\ module = "live" =>
            First \in allocated

\* A block is with one writer, or is armed, or is with its function.
Owners ==
    /\ lab \in PerWrite =>
        /\ \A b \in armed : fun[b] = "idle"
        /\ \A w \in Adding : Held(w) \in allocated /\ Quiet(Held(w))
        /\ \A v, w \in Adding : Held(v) = Held(w) => v = w
    /\ lab = "onetimer" =>
        \A w \in Adding : armed = {} /\ (wr[w] = "add" => tl[w] = First)

\* Nothing runs in a module that is not loaded, and the labs with static
\* timers and items have no others.
OwnOnly ==
    /\ module = "out" => AllQuiet /\ writes = 0
    /\ lab = "onetimer" /\ ~timer_initd => AllQuiet
    /\ lab \notin PerWrite => \A b \in Blocks :
            \/ Quiet(b) \/ b = First
            \/ b = Second /\ lab \in {"periodics", "hrtimer"}

\* What my_exit has not deleted yet is in its list.
Deleting ==
    module = "delete" =>
        /\ del # <<>>
        /\ lab = "resolution" => del = <<data>>
        /\ lab # "resolution" => \A b \in Blocks :
                Quiet(b) \/ \E i \in 1..Len(del) : del[i] = b

\* What my_exit has deleted or waited for does not come back.
Stopped ==
    /\ lab \in Periodic \cup Hrtimers /\ module \in {"kfree", "gone"}
            => AllQuiet
    /\ lab \in {"onetimer", "private"} /\ module \in {"generic", "gone"}
            => AllQuiet
    /\ lab = "resolution" /\ module = "kfree"
            => \A b \in Blocks : b = data => Quiet(b)

\* The three places of a block that ntimers counts.
Before == {w \in Writers : wr[w] \in {"kmalloc", "setup", "add"}}
Timers == {b \in Blocks : b \in armed \/ fun[b] = "entered"}
Freed == {b \in Blocks : fun[b] = "freed"}

\* Memory is with a writer or a timer: when ntimers is zero there is none.
Counted ==
    lab \in Multi =>
        /\ ntimers = Cardinality(Before) + Cardinality(Timers)
                        + Cardinality(Freed)
        /\ allocated \subseteq Timers \cup {Held(w) : w \in Adding}
        /\ module \in {"generic", "gone"} => armed = {} /\ allocated = {}

\* Writers that have scheduled the item and not yet changed its data.
Out == {w \in Writers : wr[w] \in {"len", "store"}}

\* The data is behind the writes by those that are out, in lab_tasklet.c by
\* those at least; what a writer is about to store is no more than that.
Sums ==
    /\ len \in Nat /\ printed \in Nat /\ sum \in [Writers -> Nat]
    /\ printed <= writes
    /\ len + Cardinality(Out) <= writes
    /\ lab \in {"shared", "private"} => len + Cardinality(Out) = writes
    /\ \A w \in Writers :
        /\ wr[w] = "store" => sum[w] + Cardinality(Out) <= writes + 1
        /\ wr[w] # "store" => sum[w] = 0

IInv ==
    /\ Shape /\ Places /\ Alone /\ InMemory /\ Owners
    /\ OwnOnly /\ Deleting /\ Stopped
    /\ Counted /\ NoTimerTwice /\ Sums /\ LastCallIsRecent

-----------------------------------------------------------------------------
(* Each part is preserved by every step. *)

LEMMA InitIInv == Init => IInv
<1> SUFFICES ASSUME Init PROVE IInv
    OBVIOUS
<1>1. /\ Shape /\ Places /\ Alone /\ InMemory /\ Owners
      /\ OwnOnly /\ Deleting /\ Stopped
    BY ConstantsAssumption
       DEF Init, Shape, Places, Alone, InMemory, Owners, OwnOnly, Deleting,
           Stopped, Quiet, AllQuiet, Adding, Multi
<1>2. Before = {} /\ Timers = {} /\ Freed = {} /\ Out = {}
    BY DEF Init, Before, Timers, Freed, Out
<1>3. Counted
    BY <1>2, FS_EmptySet DEF Init, Counted
<1>4. Sums
    BY <1>2, FS_EmptySet DEF Init, Sums
<1>5. LastCallIsRecent
    BY FS_CardinalityType, ConstantsAssumption DEF Init, LastCallIsRecent
<1> QED
    BY <1>1, <1>3, <1>4, <1>5 DEF Init, IInv, NoTimerTwice

\* What my_exit is to delete.
LEMMA OwnTimers ==
    /\ Own \in Seq(Blocks \cup {None})
    /\ lab \in Periodic \cup Hrtimers \cup {"onetimer"} =>
            Len(Own) > 0 /\ Own[1] = First
    /\ lab \in {"periodics", "hrtimer"} => Len(Own) = 2 /\ Own[2] = Second
<1> USE DEF Blocks
<1>1. CASE lab \in {"periodics", "hrtimer"}
    <2>1. Own = <<First, Second>>
        BY <1>1 DEF Own, Items
    <2> QED
        BY <1>1, <2>1
<1>2. CASE lab \in Items \cup {"onetimer", "periodic", "hrexamp"}
    <2>1. Own = <<First>>
        BY <1>2 DEF Own, Items
    <2> QED
        BY <1>2, <2>1 DEF Items
<1>3. CASE lab \notin Items \cup {"onetimer", "periodic", "hrexamp",
                                 "periodics", "hrtimer"}
    <2>1. Own = <<>>
        BY <1>3 DEF Own
    <2> QED
        BY <1>3, <2>1 DEF Periodic, Hrtimers
<1> QED
    BY <1>1, <1>2, <1>3

\* The timer that is added was set up by this writer, and is not pending.
LEMMA AddedIsHeld ==
    ASSUME IInv, NEW w \in Writers, AddTimer(w)
    PROVE  /\ tl[w] \in allocated /\ tl[w] \in Blocks /\ tl[w] \notin armed
           /\ lab \in PerWrite => fun[tl[w]] = "idle"
           /\ w \in Adding /\ Held(w) = tl[w] /\ module = "live"
           /\ lab \in PerWrite \cup {"onetimer"}
<1>1. w \in Adding /\ Held(w) = tl[w] /\ module = "live"
    BY DEF IInv, Places, AddTimer, WriteTo, Adding, Held
<1>2. lab \in PerWrite \cup {"onetimer"}
    BY ConstantsAssumption
       DEF IInv, Shape, Places, AddTimer, WriteTo, Silent
<1>3. CASE lab \in PerWrite
    BY <1>1, <1>2, <1>3 DEF IInv, Shape, Owners, Quiet
<1>4. CASE lab = "onetimer"
    BY <1>1, <1>4
       DEF IInv, Shape, InMemory, Owners, Stopped, AddTimer, WriteTo, PerWrite
<1> QED
    BY <1>1, <1>2, <1>3, <1>4

LEMMA ShapeStep == IInv /\ [Next]_vars => Shape'
<1> SUFFICES ASSUME IInv, [Next]_vars PROVE Shape'
    OBVIOUS
<1> USE DEF IInv, Shape, moduleVars, timerVars, writeVars, WriteTo, FunTo,
            ExitTo, Blocks
<1>1. CASE MyInit
    BY <1>1 DEF MyInit, MultiInit, ResolutionInit, OnetimerInit, PeriodicInit,
       PeriodicsInit, HrexampInit, HrtimerInit, MytaskletInit, ItemInit, Load
<1>2. CASE Rmmod
    <2>1. del' \in Seq(Blocks \cup {None})
        <3>1. <<data>> \in Seq(Blocks \cup {None})
            OBVIOUS
        <3> QED
            BY <1>2, <3>1, OwnTimers DEF Rmmod
    <2> QED
        BY <1>2, <2>1 DEF Rmmod
<1>3. CASE DelTimerSync
    <2>1. del' \in Seq(Blocks \cup {None})
        BY <1>3, HeadTailProperties DEF DelTimerSync, Deleting
    <2> QED
        BY <1>3, <2>1 DEF DelTimerSync
<1>4. CASE PollNtimers \/ KfreeData \/ DestroyWorkqueue \/ MyGenericExit
            \/ UNCHANGED vars
    BY <1>4 DEF PollNtimers, KfreeData, DestroyWorkqueue, MyGenericExit, vars
<1>5. ASSUME NEW w \in Writers, WriteEnter(w) \/ Write(w) PROVE Shape'
    <2>1. CASE WriteEnter(w)
        BY <2>1 DEF WriteEnter, FirstStep
    <2>2. CASE AtomicInc(w) \/ KmallocData(w)
        BY <2>2 DEF AtomicInc, KmallocData
    <2>3. CASE TimerSetup(w)
        BY <2>3 DEF TimerSetup
    <2>4. CASE AddTimer(w)
        <3>1. tl[w] \in Blocks
            BY <2>4, AddedIsHeld
        <3> QED
            BY <2>4, <3>1 DEF AddTimer
    <2>5. CASE Schedule(w) \/ WriteReturn(w)
        BY <2>5 DEF Schedule, WriteReturn
    <2>6. CASE AddLen(w) \/ LoadLen(w) \/ StoreLen(w)
        BY <2>6 DEF AddLen, LoadLen, StoreLen
    <2> QED
        BY <1>5, <2>1, <2>2, <2>3, <2>4, <2>5, <2>6 DEF Write
<1>6. ASSUME NEW b \in Blocks, Call(b) \/ Fun(b) PROVE Shape'
    BY <1>6 DEF Call, Fun, KtFunFree, KtFunDec, ModTimer, HrtimerRestart,
       FunPrint, FunReturn
<1> QED
    BY <1>1, <1>2, <1>3, <1>4, <1>5, <1>6 DEF Next, MyExit

\* Where write() begins, and my_exit.
LEMMA FirstSteps ==
    \/ FirstStep = "inc" /\ lab \in Multi
    \/ FirstStep = "kmalloc" /\ lab = "resolution"
    \/ FirstStep = "setup" /\ lab = "onetimer"
    \/ FirstStep = "add" /\ lab \notin PerWrite \cup {"onetimer"}
BY DEF FirstStep, Multi, PerWrite

LEMMA FirstsOfExit ==
    ASSUME Shape
    PROVE  \/ FirstOfExit = "poll" /\ lab \in Multi
           \/ FirstOfExit = "destroy" /\ lab = "private"
           \/ FirstOfExit = "delete" /\ lab \in Periodic \cup Hrtimers
           \/ /\ FirstOfExit = "delete" /\ timer_initd
              /\ lab \in {"resolution", "onetimer"}
           \/ /\ FirstOfExit = "generic" /\ ~timer_initd
              /\ lab \in {"resolution", "onetimer"}
           \/ FirstOfExit = "gone" /\ lab = "mytasklet"
           \/ FirstOfExit = "generic" /\ lab \in {"tasklet", "shared"}
BY ConstantsAssumption
   DEF Shape, FirstOfExit, Multi, PerWrite, Periodic, Hrtimers, Items

LEMMA AfterDeletes ==
    \/ AfterDelete = "delete" /\ Len(del) > 1
    \/ AfterDelete = "generic" /\ ~(Len(del) > 1) /\ lab = "onetimer"
    \/ AfterDelete = "kfree" /\ ~(Len(del) > 1) /\ lab # "onetimer"
BY DEF AfterDelete

\* A module that is not live does nothing but end.
LEMMA PlacesStep == IInv /\ [Next]_vars => Places'
<1> SUFFICES ASSUME IInv, [Next]_vars PROVE Places'
    OBVIOUS
<1> USE DEF IInv, Shape, Places, moduleVars, timerVars, writeVars, WriteTo,
            FunTo, ExitTo, Multi, PerWrite, Periodic, Hrtimers, Items, Silent
<1>1. CASE MyInit
    BY <1>1 DEF MyInit, MultiInit, ResolutionInit, OnetimerInit, PeriodicInit,
       PeriodicsInit, HrexampInit, HrtimerInit, MytaskletInit, ItemInit, Load
<1>2. CASE Rmmod
    BY <1>2, FirstsOfExit DEF Rmmod, Writing
<1>3. CASE DelTimerSync
    BY <1>3, AfterDeletes, ConstantsAssumption DEF DelTimerSync
<1>4. CASE PollNtimers \/ KfreeData \/ DestroyWorkqueue \/ MyGenericExit
            \/ UNCHANGED vars
    BY <1>4 DEF PollNtimers, KfreeData, DestroyWorkqueue, MyGenericExit, vars
<1>5. ASSUME NEW w \in Writers, WriteEnter(w) \/ Write(w) PROVE Places'
    <2>1. CASE WriteEnter(w)
        BY <2>1, FirstSteps DEF WriteEnter
    <2>2. CASE AtomicInc(w) \/ KmallocData(w)
        BY <2>2 DEF AtomicInc, KmallocData
    <2>3. CASE TimerSetup(w) \/ AddTimer(w)
        BY <2>3 DEF TimerSetup, AddTimer
    <2>4. CASE Schedule(w) \/ WriteReturn(w)
        BY <2>4 DEF Schedule, WriteReturn
    <2>5. CASE AddLen(w) \/ LoadLen(w) \/ StoreLen(w)
        BY <2>5 DEF AddLen, LoadLen, StoreLen
    <2> QED
        BY <1>5, <2>1, <2>2, <2>3, <2>4, <2>5 DEF Write
<1>6. ASSUME NEW b \in Blocks, Call(b) \/ Fun(b) PROVE Places'
    BY <1>6 DEF Call, Fun, KtFunFree, KtFunDec, ModTimer, HrtimerRestart,
       FunPrint, FunReturn
<1> QED
    BY <1>1, <1>2, <1>3, <1>4, <1>5, <1>6 DEF Next, MyExit

LEMMA AloneStep == ASSUME Exclusive, IInv, [Next]_vars PROVE Alone'
<1> USE DEF IInv, Shape, Alone, moduleVars, timerVars, writeVars, WriteTo
<1>1. CASE MyInit \/ Rmmod \/ MyExit \/ UNCHANGED vars
    BY <1>1 DEF MyInit, MultiInit, ResolutionInit, OnetimerInit, PeriodicInit,
       PeriodicsInit, HrexampInit, HrtimerInit, MytaskletInit, ItemInit, Load,
       Rmmod, MyExit, PollNtimers, DelTimerSync, KfreeData, DestroyWorkqueue,
       MyGenericExit, vars
<1>2. ASSUME NEW w \in Writers, WriteEnter(w) PROVE Alone'
    <2>1. lab \in {"multi", "resolution", "onetimer"} => Writing = {}
        BY <1>2 DEF WriteEnter, Exclusive
    <2> QED
        BY <1>2, <2>1 DEF WriteEnter, Writing
<1>3. ASSUME NEW w \in Writers, Write(w) PROVE Alone'
    BY <1>3 DEF Write, AtomicInc, KmallocData, TimerSetup, AddTimer, Schedule,
       AddLen, LoadLen, StoreLen, WriteReturn
<1>4. ASSUME NEW b \in Blocks, Call(b) \/ Fun(b) PROVE Alone'
    BY <1>4 DEF Call, Fun, KtFunFree, KtFunDec, ModTimer, HrtimerRestart,
       FunPrint, FunReturn
<1> QED
    BY <1>1, <1>2, <1>3, <1>4 DEF Next

LEMMA InMemoryStep == IInv /\ [Next]_vars => InMemory'
<1> SUFFICES ASSUME IInv, [Next]_vars PROVE InMemory'
    OBVIOUS
<1> USE DEF IInv, Shape, InMemory, moduleVars, timerVars, writeVars, WriteTo,
            FunTo, ExitTo
<1>1. CASE MyInit
    BY <1>1, ConstantsAssumption
    DEF MyInit, MultiInit, ResolutionInit, OnetimerInit, PeriodicInit,
       PeriodicsInit, HrexampInit, HrtimerInit, MytaskletInit, ItemInit, Load,
       OwnOnly, AllQuiet, Quiet, Items, Periodic, Hrtimers
<1>2. CASE Rmmod
    BY <1>2, FirstsOfExit DEF Rmmod
<1>3. CASE DelTimerSync
    BY <1>3, AfterDeletes DEF DelTimerSync
<1>4. CASE KfreeData
    <2>1. CASE lab = "resolution"
        BY <1>4, <2>1 DEF KfreeData, Stopped, Quiet
    <2>2. CASE lab \in Periodic \cup Hrtimers
        BY <1>4, <2>2 DEF KfreeData, Stopped, Quiet, AllQuiet
    <2> QED
        BY <1>4, <2>1, <2>2 DEF KfreeData, Places
<1>5. CASE PollNtimers \/ DestroyWorkqueue \/ MyGenericExit \/ UNCHANGED vars
    BY <1>5 DEF PollNtimers, DestroyWorkqueue, MyGenericExit, vars
<1>6. ASSUME NEW w \in Writers, WriteEnter(w) \/ Write(w) PROVE InMemory'
    <2>1. CASE AddTimer(w)
        <3>1. tl[w] \in allocated
            BY <2>1, AddedIsHeld
        <3> QED
            BY <2>1, <3>1 DEF AddTimer
    <2>2. CASE Schedule(w)
        BY <2>2 DEF Schedule, Places
    <2>3. CASE WriteEnter(w) \/ AtomicInc(w) \/ KmallocData(w)
        BY <2>3 DEF WriteEnter, AtomicInc, KmallocData
    <2>4. CASE TimerSetup(w) \/ WriteReturn(w)
        BY <2>4 DEF TimerSetup, WriteReturn
    <2>5. CASE AddLen(w) \/ LoadLen(w) \/ StoreLen(w)
        BY <2>5 DEF AddLen, LoadLen, StoreLen
    <2> QED
        BY <1>6, <2>1, <2>2, <2>3, <2>4, <2>5 DEF Write
<1>7. ASSUME NEW b \in Blocks, Call(b) \/ Fun(b) PROVE InMemory'
    <2>1. CASE Call(b)
        BY <2>1 DEF Call
    <2>2. CASE KtFunFree(b)
        BY <2>2 DEF KtFunFree, Owners, Multi, PerWrite, Items
    <2>3. CASE KtFunDec(b) \/ FunPrint(b) \/ FunReturn(b)
        BY <2>3 DEF KtFunDec, FunPrint, FunReturn
    <2>4. CASE ModTimer(b) \/ HrtimerRestart(b)
        BY <2>4 DEF ModTimer, HrtimerRestart
    <2> QED
        BY <1>7, <2>1, <2>2, <2>3, <2>4 DEF Fun
<1> QED
    BY <1>1, <1>2, <1>3, <1>4, <1>5, <1>6, <1>7 DEF Next, MyExit

\* A block changes hands: from kmalloc to the writer, to the timer, to the
\* function.
LEMMA OwnersStep == ASSUME Exclusive, IInv, [Next]_vars PROVE Owners'
<1> USE DEF IInv, Shape, Owners, Adding, Held, Quiet, moduleVars, timerVars,
            writeVars, WriteTo, FunTo, ExitTo
<1>a. lab \in PerWrite => lab \notin Items /\ lab # "onetimer"
    BY DEF PerWrite, Items
<1>1. CASE MyInit
    BY <1>1, <1>a
    DEF MyInit, MultiInit, ResolutionInit, OnetimerInit, PeriodicInit,
       PeriodicsInit, HrexampInit, HrtimerInit, MytaskletInit, ItemInit, Load,
       Places, PerWrite
<1>2. CASE Rmmod \/ PollNtimers \/ DelTimerSync \/ DestroyWorkqueue
            \/ MyGenericExit \/ UNCHANGED vars
    BY <1>2 DEF Rmmod, PollNtimers, DelTimerSync, DestroyWorkqueue,
       MyGenericExit, vars
<1>3. CASE KfreeData
    BY <1>3 DEF KfreeData, Places
<1>4. ASSUME NEW w \in Writers, WriteEnter(w) PROVE Owners'
    <2>1. lab = "onetimer" => armed = {}
        BY <1>4 DEF WriteEnter, Exclusive
    <2>2. lab \in PerWrite => FirstStep \in {"inc", "kmalloc"}
        BY FirstSteps DEF PerWrite
    <2>3. lab = "onetimer" => FirstStep = "setup"
        BY FirstSteps DEF PerWrite, Multi
    <2> QED
        BY <1>4, <2>1, <2>2, <2>3 DEF WriteEnter
<1>5. ASSUME NEW w \in Writers, AtomicInc(w) PROVE Owners'
    BY <1>5 DEF AtomicInc
<1>6. ASSUME NEW w \in Writers, KmallocData(w) PROVE Owners'
    <2>1. PICK b \in Blocks : /\ b \notin allocated /\ Quiet(b)
                              /\ allocated' = allocated \cup {b}
                              /\ IF lab = "multiold"
                                 THEN /\ tl' = [tl EXCEPT ![w] = b]
                                      /\ data' = data
                                 ELSE data' = b /\ tl' = tl
        BY <1>6 DEF KmallocData, InMemory
    <2>2. lab \in PerWrite
        BY <1>6 DEF KmallocData, Places
    <2>3. CASE lab = "multiold"
        BY <1>6, <1>a, <2>1, <2>2, <2>3 DEF KmallocData
    <2>4. CASE lab # "multiold"
        <3>1. Adding' = {w}
            BY <1>6, <2>2, <2>4 DEF KmallocData, Alone, PerWrite
        <3> QED
            BY <1>6, <1>a, <2>1, <2>2, <2>4, <3>1 DEF KmallocData
    <2> QED
        BY <2>3, <2>4
<1>7. ASSUME NEW w \in Writers, TimerSetup(w) PROVE Owners'
    BY <1>7, <1>a DEF TimerSetup, Places
<1>8. ASSUME NEW w \in Writers, AddTimer(w) PROVE Owners'
    <2>1. /\ tl[w] \in Blocks /\ lab \in PerWrite => fun[tl[w]] = "idle"
          /\ w \in Adding /\ Held(w) = tl[w]
        BY <1>8, AddedIsHeld
    <2>2. CASE lab \in PerWrite
        BY <1>8, <1>a, <2>1, <2>2 DEF AddTimer
    <2>3. CASE lab = "onetimer"
        BY <1>8, <2>3 DEF AddTimer, Alone, PerWrite
    <2> QED
        BY <1>8, <2>2, <2>3 DEF AddTimer
<1>9. ASSUME NEW w \in Writers, Schedule(w) \/ WriteReturn(w) PROVE Owners'
    BY <1>9, <1>a DEF Schedule, WriteReturn, Items
<1>10. ASSUME NEW w \in Writers, AddLen(w) \/ LoadLen(w) \/ StoreLen(w)
       PROVE  Owners'
    BY <1>10, <1>a DEF AddLen, LoadLen, StoreLen
<1>11. ASSUME NEW b \in Blocks, Call(b) PROVE Owners'
    BY <1>11 DEF Call
<1>12. ASSUME NEW b \in Blocks, KtFunFree(b) PROVE Owners'
    BY <1>12, <1>a DEF KtFunFree, Multi
<1>13. ASSUME NEW b \in Blocks, ModTimer(b) \/ HrtimerRestart(b)
       PROVE  Owners'
    BY <1>13 DEF ModTimer, HrtimerRestart, PerWrite, Periodic, Hrtimers
<1>14. ASSUME NEW b \in Blocks, KtFunDec(b) \/ FunPrint(b) \/ FunReturn(b)
       PROVE  Owners'
    BY <1>14 DEF KtFunDec, FunPrint, FunReturn
<1> QED
    BY <1>1, <1>2, <1>3, <1>4, <1>5, <1>6, <1>7, <1>8, <1>9, <1>10,
       <1>11, <1>12, <1>13, <1>14 DEF Next, MyExit, Write, Fun


\* What is quiet stays quiet, unless my_init or a writer starts it.
LEMMA QuietStays ==
    ASSUME IInv, NEW c \in Blocks, Quiet(c), [Next]_vars, ~MyInit,
           \A w \in Writers : ~AddTimer(w) /\ ~Schedule(w)
    PROVE  Quiet(c)'
<1> USE DEF IInv, Shape, Quiet, moduleVars, timerVars, writeVars, FunTo,
            ExitTo
<1>1. CASE MyExit \/ Rmmod \/ UNCHANGED vars
    BY <1>1 DEF MyExit, PollNtimers, DelTimerSync, KfreeData,
       DestroyWorkqueue, MyGenericExit, Rmmod, vars
<1>2. ASSUME NEW w \in Writers, WriteEnter(w) \/ Write(w) PROVE Quiet(c)'
    BY <1>2 DEF WriteEnter, Write, AtomicInc, KmallocData, TimerSetup,
       AddLen, LoadLen, StoreLen, WriteReturn
<1>3. ASSUME NEW b \in Blocks, Call(b) \/ Fun(b) PROVE Quiet(c)'
    BY <1>3 DEF Call, Fun, KtFunFree, KtFunDec, ModTimer, HrtimerRestart,
       FunPrint, FunReturn
<1> QED
    BY <1>1, <1>2, <1>3 DEF Next


\* Every step but those that start a timer or an item leaves quiet what is.
LEMMA OwnOnlyStep == IInv /\ [Next]_vars => OwnOnly'
<1> SUFFICES ASSUME IInv, [Next]_vars PROVE OwnOnly'
    OBVIOUS
<1>q. ASSUME NEW c \in Blocks, Quiet(c), ~MyInit,
             \A w \in Writers : ~AddTimer(w) /\ ~Schedule(w)
      PROVE  Quiet(c)'
    BY <1>q, QuietStays
<1>a. ASSUME NEW w \in Writers, AddTimer(w)
      PROVE  /\ lab = "onetimer" => tl[w] = First
             /\ lab \in PerWrite \cup {"onetimer"}
    BY <1>a, AddedIsHeld DEF IInv, Owners, AddTimer, WriteTo
<1> USE DEF IInv, Shape, OwnOnly, AllQuiet, moduleVars, timerVars, writeVars,
            WriteTo, FunTo, ExitTo
<1>1. CASE MyInit
    BY <1>1
    DEF MyInit, MultiInit, ResolutionInit, OnetimerInit, PeriodicInit,
       PeriodicsInit, HrexampInit, HrtimerInit, MytaskletInit, ItemInit, Load,
       Quiet
<1>2. ASSUME NEW w \in Writers, AddTimer(w) PROVE OwnOnly'
    BY <1>2, <1>a DEF AddTimer, Places, Quiet
<1>3. ASSUME NEW w \in Writers, Schedule(w) PROVE OwnOnly'
    BY <1>3 DEF Schedule, Places, Quiet, Items
<1>4. CASE ~MyInit /\ \A w \in Writers : ~AddTimer(w) /\ ~Schedule(w)
    <2>1. \A c \in Blocks : Quiet(c) => Quiet(c)'
        BY <1>4, <1>q
    <2>2. CASE MyExit \/ Rmmod \/ UNCHANGED vars
        BY <2>1, <2>2, FirstsOfExit, AfterDeletes
           DEF MyExit, PollNtimers, DelTimerSync, KfreeData,
               DestroyWorkqueue, MyGenericExit, Rmmod, vars
    <2>3. ASSUME NEW w \in Writers, WriteEnter(w) \/ Write(w)
          PROVE  OwnOnly'
        BY <1>4, <2>1, <2>3 DEF WriteEnter, Write, AtomicInc, KmallocData,
           TimerSetup, AddLen, LoadLen, StoreLen, WriteReturn
    <2>4. ASSUME NEW b \in Blocks, Call(b) \/ Fun(b) PROVE OwnOnly'
        BY <2>1, <2>4 DEF Call, Fun, KtFunFree, KtFunDec, ModTimer,
           HrtimerRestart, FunPrint, FunReturn
    <2> QED
        BY <1>4, <2>2, <2>3, <2>4 DEF Next
<1> QED
    BY <1>1, <1>2, <1>3, <1>4

\* In my_exit nobody starts anything.
LEMMA ExitIsQuiet ==
    ASSUME IInv, [Next]_vars, module \notin {"out", "live"}
    PROVE  \A c \in Blocks : Quiet(c) => Quiet(c)'
<1>1. ~MyInit
    BY DEF MyInit, MultiInit, ResolutionInit, OnetimerInit, PeriodicInit,
       PeriodicsInit, HrexampInit, HrtimerInit, MytaskletInit, ItemInit, Load
<1>2. \A w \in Writers : ~AddTimer(w) /\ ~Schedule(w)
    BY DEF IInv, Places, AddTimer, Schedule, WriteTo
<1> QED
    BY <1>1, <1>2, QuietStays

\* rmmod begins when nobody writes, and starts nothing.
LEMMA RmmodIsQuiet ==
    ASSUME IInv, Rmmod
    PROVE  \A c \in Blocks : Quiet(c) => Quiet(c)'
BY DEF Rmmod, Quiet, timerVars

\* In the step that leaves "delete", one timer was left.
LEMMA TimersLeft ==
    ASSUME IInv, module = "delete"
    PROVE  /\ Len(del) > 1 => lab # "resolution"
           /\ ~(Len(del) > 1) => Len(del) = 1
<1>1. Len(del) \in Nat \ {0}
    BY EmptySeq DEF IInv, Shape, Deleting
<1>2. lab = "resolution" => del = <<data>>
    BY DEF IInv, Deleting
<1>3. Len(<<data>>) = 1
    OBVIOUS
<1>4. lab = "resolution" => Len(del) = 1
    BY <1>2, <1>3, Zenon
<1>5. \A n \in Nat \ {0} : ~(n > 1) <=> n = 1
    OBVIOUS
<1> QED
    BY <1>1, <1>4, <1>5

LEMMA DeletingStep == IInv /\ [Next]_vars => Deleting'
<1> SUFFICES ASSUME IInv, [Next]_vars PROVE Deleting'
    OBVIOUS
<1>t. module = "delete" =>
          /\ Len(del) > 1 => lab # "resolution"
          /\ ~(Len(del) > 1) => Len(del) = 1
    BY TimersLeft
<1> USE DEF IInv, Shape, Deleting, moduleVars, timerVars, writeVars, FunTo,
            WriteTo, ExitTo
<1>1. CASE Rmmod
    <2> SUFFICES ASSUME module' = "delete" PROVE Deleting'
        OBVIOUS
    <2>1. lab \in Periodic \cup Hrtimers \cup {"resolution", "onetimer"}
        BY <1>1, FirstsOfExit DEF Rmmod, Multi
    <2>2. CASE lab = "resolution"
        BY <1>1, <2>2 DEF Rmmod
    <2>3. CASE lab # "resolution"
        <3>1. /\ del' = Own /\ Len(Own) > 0 /\ Own[1] = First
              /\ lab \in {"periodics", "hrtimer"} =>
                    Len(Own) = 2 /\ Own[2] = Second
            BY <1>1, <2>1, <2>3, OwnTimers DEF Rmmod
        <3>2. lab \notin PerWrite
            BY <2>1, <2>3 DEF PerWrite, Periodic, Hrtimers
        <3>3. Own \in Seq(Blocks \cup {None}) /\ lab' = lab
            BY <1>1, OwnTimers DEF Rmmod
        <3>4. ASSUME NEW c \in Blocks
              PROVE  Quiet(c)' \/ \E i \in 1..Len(Own) : Own[i] = c
            BY <1>1, <3>1, <3>2, <3>3, RmmodIsQuiet DEF OwnOnly
        <3>5. del' # <<>>
            BY <3>1, <3>3
        <3> QED
            BY <2>3, <3>1, <3>3, <3>4, <3>5
    <2> QED
        BY <2>2, <2>3
<1>2. CASE DelTimerSync
    <2> SUFFICES ASSUME module' = "delete" PROVE Deleting'
        OBVIOUS
    <2>1. Len(del) > 1 /\ module = "delete" /\ del # <<>>
        BY <1>2, AfterDeletes DEF DelTimerSync
    <2>2. lab # "resolution"
        BY <1>t, <2>1
    <2>3. /\ Len(del') = Len(del) - 1
          /\ \A i \in 1..Len(del') : del'[i] = del[i + 1]
        BY <1>2, <2>1, HeadTailProperties DEF DelTimerSync
    <2>4. ASSUME NEW c \in Blocks
          PROVE  Quiet(c)' \/ \E i \in 1..Len(del') : del'[i] = c
        <3>1. CASE Quiet(c) \/ Head(del) = c
            BY <1>2, <3>1 DEF DelTimerSync, Quiet
        <3>2. CASE \E i \in 2..Len(del) : del[i] = c
            <4>1. PICK i \in 2..Len(del) : del[i] = c
                BY <3>2
            <4>2. i - 1 \in 1..Len(del') /\ del'[i - 1] = c
                BY <2>1, <2>3, <4>1
            <4> QED
                BY <4>2
        <3>3. del[1] = Head(del)
            BY <2>1
        <3> QED
            BY <2>1, <2>2, <3>1, <3>2, <3>3
    <2>5. del' # <<>>
        BY <2>1, <2>3
    <2> QED
        BY <1>2, <2>2, <2>4, <2>5 DEF DelTimerSync
<1>3. CASE module = "delete" /\ UNCHANGED <<lab, module, del, data>>
    <2>1. \A c \in Blocks : Quiet(c) => Quiet(c)'
        BY <1>3, ExitIsQuiet
    <2> QED
        BY <1>3, <2>1
<1>4. CASE PollNtimers \/ KfreeData \/ DestroyWorkqueue \/ MyGenericExit
            \/ MyInit
    BY <1>4 DEF PollNtimers, KfreeData, DestroyWorkqueue, MyGenericExit,
       MyInit, MultiInit, ResolutionInit, OnetimerInit, PeriodicInit,
       PeriodicsInit, HrexampInit, HrtimerInit, MytaskletInit, ItemInit, Load
<1>5. ASSUME NEW w \in Writers, WriteEnter(w) \/ Write(w)
      PROVE  module # "delete" /\ module' = module
    BY <1>5 DEF WriteEnter, Write, AtomicInc, KmallocData, TimerSetup,
       AddTimer, Schedule, AddLen, LoadLen, StoreLen, WriteReturn, Places
<1>6. ASSUME NEW b \in Blocks, Call(b) \/ Fun(b)
      PROVE  UNCHANGED <<lab, module, del, data>>
    BY <1>6 DEF Call, Fun, KtFunFree, KtFunDec, ModTimer, HrtimerRestart,
       FunPrint, FunReturn
<1>7. CASE UNCHANGED vars
    BY <1>3, <1>7 DEF vars
<1> QED
    BY <1>1, <1>2, <1>3, <1>4, <1>5, <1>6, <1>7 DEF Next, MyExit

LEMMA StoppedStep == IInv /\ [Next]_vars => Stopped'
<1> SUFFICES ASSUME IInv, [Next]_vars PROVE Stopped'
    OBVIOUS
<1>t. module = "delete" =>
          /\ Len(del) > 1 => lab # "resolution"
          /\ ~(Len(del) > 1) => Len(del) = 1
    BY TimersLeft
<1> USE DEF IInv, Shape, Stopped, AllQuiet, moduleVars, timerVars, writeVars,
            FunTo, WriteTo, ExitTo
<1>1. CASE Rmmod
    BY <1>1, FirstsOfExit, RmmodIsQuiet
       DEF Rmmod, OwnOnly, AllQuiet, Periodic, Hrtimers, Multi
<1>2. CASE DelTimerSync
    <2> SUFFICES ASSUME module' # "delete" PROVE Stopped'
        BY <1>2 DEF DelTimerSync
    <2>1. Len(del) = 1 /\ module = "delete" /\ Head(del) = del[1]
        <3>1. module = "delete" /\ ~(Len(del) > 1)
            BY <1>2, AfterDeletes DEF DelTimerSync
        <3>2. Len(del) = 1
            BY <1>t, <3>1
        <3> QED
            BY <3>1, <3>2
    <2>2. CASE lab = "resolution"
        BY <1>2, <2>1, <2>2, AfterDeletes
           DEF DelTimerSync, Deleting, Quiet, Periodic, Hrtimers
    <2>3. CASE lab # "resolution"
        BY <1>2, <2>1, <2>3 DEF DelTimerSync, Deleting, Quiet
    <2> QED
        BY <2>2, <2>3
<1>3. CASE DestroyWorkqueue
    BY <1>3 DEF DestroyWorkqueue, OwnOnly, Places, Quiet, PerWrite, Periodic,
       Hrtimers
<1>4. CASE PollNtimers
    BY <1>4 DEF PollNtimers, Places, Multi, Periodic, Hrtimers
<1>5. CASE KfreeData
    BY <1>5, ExitIsQuiet DEF KfreeData, Places, Periodic, Hrtimers
<1>6. CASE MyGenericExit
    BY <1>6, ExitIsQuiet DEF MyGenericExit, Places, Silent
<1>7. CASE MyInit
    BY <1>7 DEF MyInit, MultiInit, ResolutionInit, OnetimerInit, PeriodicInit,
       PeriodicsInit, HrexampInit, HrtimerInit, MytaskletInit, ItemInit, Load
<1>8. ASSUME NEW w \in Writers, WriteEnter(w) \/ Write(w) PROVE Stopped'
    BY <1>8 DEF WriteEnter, Write, AtomicInc, KmallocData, TimerSetup,
       AddTimer, Schedule, AddLen, LoadLen, StoreLen, WriteReturn, Places
<1>9. ASSUME UNCHANGED <<lab, module, data>> PROVE Stopped'
    <2>1. CASE module \in {"kfree", "generic", "gone"}
        BY <1>9, <2>1, ExitIsQuiet
    <2> QED
        BY <1>9, <2>1
<1>10. ASSUME NEW b \in Blocks, Call(b) \/ Fun(b)
       PROVE  UNCHANGED <<lab, module, data>>
    BY <1>10 DEF Call, Fun, KtFunFree, KtFunDec, ModTimer, HrtimerRestart,
       FunPrint, FunReturn
<1>11. CASE UNCHANGED vars
    BY <1>9, <1>11 DEF vars
<1> QED
    BY <1>1, <1>2, <1>3, <1>4, <1>5, <1>6, <1>7, <1>8, <1>9, <1>10, <1>11
       DEF Next, MyExit

-----------------------------------------------------------------------------
(* The count of the timers. *)

LEMMA FinitePlaces ==
    /\ IsFiniteSet(Before) /\ Cardinality(Before) \in Nat
    /\ IsFiniteSet(Timers) /\ Cardinality(Timers) \in Nat
    /\ IsFiniteSet(Freed) /\ Cardinality(Freed) \in Nat
<1>1. IsFiniteSet(Blocks)
    <2>1. IsFiniteSet({First, Second})
        <3>1. {First, Second} = {First} \cup {Second}
            OBVIOUS
        <3>2. IsFiniteSet({First})
            BY FS_Singleton
        <3> QED
            BY <3>1, <3>2, FS_AddElement
    <2> QED
        BY <2>1, ConstantsAssumption, FS_Union DEF Blocks
<1>2. IsFiniteSet(Before) /\ IsFiniteSet(Timers) /\ IsFiniteSet(Freed)
    BY <1>1, ConstantsAssumption, FS_Subset DEF Before, Timers, Freed
<1> QED
    BY <1>2, FS_CardinalityType

\* A step that moves no writer and no block from one place to another.
CountSame ==
    /\ Before' = Before /\ Timers' = Timers /\ Freed' = Freed
    /\ ntimers' = ntimers

\* The first part of Counted.
SumOfPlaces ==
    ntimers = Cardinality(Before) + Cardinality(Timers) + Cardinality(Freed)

LEMMA SumIncremented ==
    ASSUME IInv, NEW w \in Writers, AtomicInc(w), SumOfPlaces
    PROVE  SumOfPlaces'
<1>1. Before' = Before \cup {w} /\ w \notin Before
    BY DEF IInv, Shape, Before, AtomicInc, WriteTo
<1>2. Timers' = Timers /\ Freed' = Freed /\ ntimers' = ntimers + 1
    BY DEF AtomicInc, Timers, Freed, timerVars
<1>3. Cardinality(Before') = Cardinality(Before) + 1
    BY <1>1, FinitePlaces, FS_AddElement
<1> QED
    BY <1>2, <1>3, FinitePlaces DEF SumOfPlaces

LEMMA SumAdded ==
    ASSUME IInv, NEW w \in Writers, AddTimer(w), SumOfPlaces,
           lab \in PerWrite
    PROVE  SumOfPlaces'
<1>1. Before' = Before \ {w} /\ w \in Before
    BY DEF IInv, Shape, Before, AddTimer, WriteTo
<1>2. Timers' = Timers \cup {tl[w]} /\ tl[w] \notin Timers
    BY AddedIsHeld DEF Timers, AddTimer
<1>3. Freed' = Freed /\ ntimers' = ntimers
    BY DEF AddTimer, Freed
<1>4. Cardinality(Before') = Cardinality(Before) - 1
    BY <1>1, FinitePlaces, FS_RemoveElement
<1>5. Cardinality(Timers') = Cardinality(Timers) + 1
    BY <1>2, FinitePlaces, FS_AddElement
<1> QED
    BY <1>3, <1>4, <1>5, FinitePlaces DEF SumOfPlaces

LEMMA SumFreed ==
    ASSUME IInv, NEW b \in Blocks, KtFunFree(b), SumOfPlaces
    PROVE  SumOfPlaces'
<1>1. b \notin armed
    BY DEF IInv, Owners, KtFunFree, FunTo, PerWrite
<1>2. Timers' = Timers \ {b} /\ b \in Timers
    BY <1>1 DEF IInv, Shape, Timers, KtFunFree, FunTo
<1>3. Freed' = Freed \cup {b} /\ b \notin Freed
    BY DEF IInv, Shape, Freed, KtFunFree, FunTo
<1>4. Before' = Before /\ ntimers' = ntimers
    BY DEF KtFunFree, Before, writeVars
<1>5. Cardinality(Timers') = Cardinality(Timers) - 1
    BY <1>2, FinitePlaces, FS_RemoveElement
<1>6. Cardinality(Freed') = Cardinality(Freed) + 1
    BY <1>3, FinitePlaces, FS_AddElement
<1> QED
    BY <1>4, <1>5, <1>6, FinitePlaces DEF SumOfPlaces

LEMMA SumDecremented ==
    ASSUME IInv, NEW b \in Blocks, KtFunDec(b), SumOfPlaces
    PROVE  SumOfPlaces'
<1>1. Freed' = Freed \ {b} /\ b \in Freed
    BY DEF IInv, Shape, Freed, KtFunDec, FunTo
<1>2. Timers' = Timers
    BY DEF IInv, Shape, Timers, KtFunDec, FunTo, timerVars
<1>3. Before' = Before /\ ntimers' = ntimers - 1
    BY DEF KtFunDec, Before, writeVars
<1>4. Cardinality(Freed') = Cardinality(Freed) - 1
    BY <1>1, FinitePlaces, FS_RemoveElement
<1> QED
    BY <1>2, <1>3, <1>4, FinitePlaces DEF SumOfPlaces

\* The others leave every block and every writer in its place.
LEMMA SumKept ==
    ASSUME IInv, [Next]_vars, lab \in Multi, SumOfPlaces
    PROVE  SumOfPlaces'
<1>s. ASSUME CountSame PROVE SumOfPlaces'
    BY <1>s DEF CountSame, SumOfPlaces
<1>i. ASSUME NEW w \in Writers, AtomicInc(w) PROVE SumOfPlaces'
    BY <1>i, SumIncremented
<1>t. ASSUME NEW w \in Writers, AddTimer(w) PROVE SumOfPlaces'
    BY <1>t, SumAdded DEF Multi, PerWrite
<1>f. ASSUME NEW b \in Blocks, KtFunFree(b) PROVE SumOfPlaces'
    BY <1>f, SumFreed
<1>d. ASSUME NEW b \in Blocks, KtFunDec(b) PROVE SumOfPlaces'
    BY <1>d, SumDecremented
<1> USE DEF IInv, Shape, CountSame, moduleVars, timerVars, writeVars, WriteTo,
            FunTo, ExitTo
<1>1. CASE MyInit
    <2>1. armed' = {} /\ fun' = fun /\ wr' = wr /\ ntimers' = ntimers
        BY <1>1 DEF MyInit, MultiInit, ResolutionInit, OnetimerInit,
           PeriodicInit, PeriodicsInit, HrexampInit, HrtimerInit,
           MytaskletInit, ItemInit, Load, Multi
    <2>2. armed = {}
        BY <1>1 DEF MyInit, MultiInit, ResolutionInit, OnetimerInit,
           PeriodicInit, PeriodicsInit, HrexampInit, HrtimerInit,
           MytaskletInit, ItemInit, Load, OwnOnly, AllQuiet, Quiet
    <2>3. CountSame
        BY <2>1, <2>2 DEF Before, Timers, Freed
    <2> QED
        BY <1>s, <2>3
<1>2. CASE Rmmod \/ MyExit \/ UNCHANGED vars
    <2>1. ~DelTimerSync
        BY DEF DelTimerSync, Places, Multi, Periodic, Hrtimers
    <2>2. CountSame
        BY <1>2, <2>1 DEF Rmmod, MyExit, PollNtimers, KfreeData,
           DestroyWorkqueue, MyGenericExit, vars, Before, Timers, Freed
    <2> QED
        BY <1>s, <2>2
<1>3. ASSUME NEW w \in Writers, WriteEnter(w) \/ Write(w)
      PROVE  SumOfPlaces'
    <2>1. CASE WriteEnter(w)
        <3>1. FirstStep = "inc"
            BY FirstSteps DEF Multi, PerWrite
        <3>2. CountSame
            BY <2>1, <3>1 DEF WriteEnter, Before, Timers, Freed
        <3> QED
            BY <1>s, <3>2
    <2>2. CASE \/ KmallocData(w) \/ TimerSetup(w) \/ WriteReturn(w)
               \/ AddLen(w) \/ LoadLen(w) \/ StoreLen(w)
        <3>1. CountSame
            BY <2>2 DEF KmallocData, TimerSetup, WriteReturn, AddLen, LoadLen,
               StoreLen, Before, Timers, Freed
        <3> QED
            BY <1>s, <3>1
    <2>3. ~Schedule(w)
        BY DEF Schedule, Multi, Items
    <2> QED
        BY <1>3, <1>i, <1>t, <2>1, <2>2, <2>3 DEF Write
<1>4. ASSUME NEW b \in Blocks, Call(b) \/ Fun(b) PROVE SumOfPlaces'
    <2>1. CASE Call(b)
        <3>1. CountSame
            BY <2>1 DEF Call, Before, Timers, Freed
        <3> QED
            BY <1>s, <3>1
    <2>2. CASE FunReturn(b)
        <3>1. CountSame
            BY <2>2 DEF FunReturn, Before, Timers, Freed
        <3> QED
            BY <1>s, <3>1
    <2>3. ~ModTimer(b) /\ ~HrtimerRestart(b) /\ ~FunPrint(b)
        BY DEF ModTimer, HrtimerRestart, FunPrint, Multi, Periodic, Hrtimers,
           Items
    <2> QED
        BY <1>4, <1>f, <1>d, <2>1, <2>2, <2>3 DEF Fun
<1> QED
    BY <1>1, <1>2, <1>3, <1>4 DEF Next

\* All memory is with a writer or a timer, and there is neither when the
\* count is zero.
LEMMA CountedStep == IInv /\ [Next]_vars => Counted'
<1> SUFFICES ASSUME IInv, [Next]_vars, lab' \in Multi PROVE Counted'
    BY DEF Counted
<1>l. lab \in Multi
    BY DEF Next, MyInit, MultiInit, ResolutionInit, OnetimerInit,
       PeriodicInit, PeriodicsInit, HrexampInit, HrtimerInit, MytaskletInit,
       ItemInit, Load, Rmmod, MyExit, PollNtimers, DelTimerSync, KfreeData,
       DestroyWorkqueue, MyGenericExit, WriteEnter, Write, AtomicInc,
       KmallocData, TimerSetup, AddTimer, Schedule, AddLen, LoadLen,
       StoreLen, WriteReturn, Call, Fun,
       KtFunFree, KtFunDec, ModTimer, HrtimerRestart, FunPrint, FunReturn,
       moduleVars, vars
<1>p. SumOfPlaces'
    BY <1>l, SumKept DEF IInv, Counted, SumOfPlaces
<1>z. ASSUME PollNtimers PROVE armed = {} /\ allocated = {}
    <2>1. SumOfPlaces /\ ntimers = 0
        BY <1>l, <1>z DEF PollNtimers, IInv, Counted, SumOfPlaces
    <2>2. Cardinality(Timers) = 0
        BY <2>1, FinitePlaces DEF SumOfPlaces
    <2>3. Timers = {}
        BY <2>2, FinitePlaces, FS_EmptySet
    <2>4. Adding = {}
        BY <1>z DEF PollNtimers, ExitTo, IInv, Places, Adding
    <2> QED
        BY <1>l, <2>3, <2>4 DEF IInv, Shape, Counted, Timers
<1>a. ASSUME NEW w \in Writers, AddTimer(w)
      PROVE  tl[w] \in Blocks /\ Held(w) = tl[w] /\ module = "live"
    BY <1>a, AddedIsHeld
<1>d. lab \notin Items \cup Periodic \cup Hrtimers \cup {"onetimer"}
            /\ lab \in PerWrite
    BY <1>l DEF Multi, Items, Periodic, Hrtimers, PerWrite
<1> DEFINE Rest ==
        /\ allocated \subseteq Timers \cup {Held(w) : w \in Adding}
        /\ module \in {"generic", "gone"} => armed = {} /\ allocated = {}
<1>0. Rest
    BY <1>l DEF IInv, Counted
<1> SUFFICES Rest'
    BY <1>p DEF Counted, SumOfPlaces
<1> USE <1>d DEF IInv, Shape, Timers, Adding, Held, moduleVars, timerVars,
            writeVars, WriteTo, FunTo, ExitTo
<1>1. CASE MyInit
    BY <1>1
    DEF MyInit, MultiInit, ResolutionInit, OnetimerInit, PeriodicInit,
       PeriodicsInit, HrexampInit, HrtimerInit, MytaskletInit, ItemInit, Load,
       Multi, Items
<1>2. CASE Rmmod
    BY <1>0, <1>2, <1>l, FirstsOfExit DEF Rmmod, Multi
<1>3. CASE PollNtimers
    BY <1>3, <1>z DEF PollNtimers
<1>4. CASE MyGenericExit \/ UNCHANGED vars
    BY <1>0, <1>4 DEF MyGenericExit, vars
<1>5. ~DelTimerSync /\ ~KfreeData /\ ~DestroyWorkqueue
    BY <1>l DEF DelTimerSync, KfreeData, DestroyWorkqueue, Places, Multi
<1>6. ASSUME NEW w \in Writers, WriteEnter(w) \/ Write(w) PROVE Rest'
    <2>1. CASE WriteEnter(w)
        <3>1. FirstStep = "inc"
            BY <1>l, FirstSteps DEF Multi
        <3> QED
            BY <1>0, <2>1, <3>1 DEF WriteEnter
    <2>2. CASE \/ AtomicInc(w) \/ WriteReturn(w)
               \/ AddLen(w) \/ LoadLen(w) \/ StoreLen(w)
        BY <1>0, <2>2 DEF AtomicInc, WriteReturn, AddLen, LoadLen, StoreLen
    <2>3. CASE KmallocData(w)
        <3>1. PICK b \in Blocks :
                  /\ allocated' = allocated \cup {b}
                  /\ IF lab = "multiold"
                     THEN tl' = [tl EXCEPT ![w] = b] /\ data' = data
                     ELSE data' = b /\ tl' = tl
            BY <2>3 DEF KmallocData
        <3>2. Held(w)' = b /\ w \in Adding' /\ module = "live"
            BY <2>3, <3>1 DEF KmallocData, Places
        <3>3. \A v \in Adding : v # w /\ v \in Adding' /\ Held(v)' = Held(v)
            <4>1. CASE lab = "multiold"
                BY <2>3, <3>1, <4>1 DEF KmallocData
            <4>2. CASE lab # "multiold"
                BY <1>l, <2>3, <4>2 DEF KmallocData, Alone, Multi
            <4> QED
                BY <4>1, <4>2
        <3>4. Timers' = Timers
            BY <2>3 DEF KmallocData
        <3> QED
            BY <1>0, <2>3, <3>1, <3>2, <3>3, <3>4 DEF KmallocData
    <2>4. CASE TimerSetup(w)
        BY <1>0, <2>4 DEF TimerSetup
    <2>5. CASE AddTimer(w)
        <3>1. /\ tl[w] \in Blocks /\ Held(w) = tl[w] /\ module = "live"
              /\ module' = module /\ allocated' = allocated
            BY <1>a, <2>5 DEF AddTimer
        <3>2. tl[w] \in Timers' /\ Timers \subseteq Timers'
            BY <2>5, <3>1 DEF AddTimer
        <3>3. \A v \in Adding : v # w => v \in Adding' /\ Held(v)' = Held(v)
            BY <2>5 DEF AddTimer
        <3>4. allocated' \subseteq Timers' \cup {Held(v)' : v \in Adding'}
            BY <1>0, <3>1, <3>2, <3>3
        <3> QED
            BY <3>1, <3>4
    <2>6. ~Schedule(w)
        BY DEF Schedule
    <2> QED
        BY <1>6, <2>1, <2>2, <2>3, <2>4, <2>5, <2>6 DEF Write
<1>7. ASSUME NEW b \in Blocks, Call(b) \/ Fun(b) PROVE Rest'
    <2>1. CASE Call(b)
        BY <1>0, <2>1 DEF Call
    <2>2. CASE KtFunFree(b)
        BY <1>0, <2>2 DEF KtFunFree
    <2>3. CASE KtFunDec(b) \/ FunReturn(b)
        BY <1>0, <2>3 DEF KtFunDec, FunReturn
    <2>4. ~ModTimer(b) /\ ~HrtimerRestart(b) /\ ~FunPrint(b)
        BY <1>l DEF ModTimer, HrtimerRestart, FunPrint, Multi
    <2> QED
        BY <1>7, <2>1, <2>2, <2>3, <2>4 DEF Fun
<1> QED
    BY <1>1, <1>2, <1>3, <1>4, <1>5, <1>6, <1>7 DEF Next, MyExit

LEMMA TwiceStep == IInv /\ [Next]_vars => NoTimerTwice'
<1> SUFFICES ASSUME IInv, [Next]_vars PROVE NoTimerTwice'
    OBVIOUS
<1>a. ASSUME NEW w \in Writers, AddTimer(w) PROVE tl[w] \notin armed
    BY <1>a, AddedIsHeld
<1> USE DEF IInv, NoTimerTwice, moduleVars, timerVars, writeVars
<1>1. CASE MyInit \/ Rmmod \/ MyExit \/ UNCHANGED vars
    BY <1>1 DEF MyInit, MultiInit, ResolutionInit, OnetimerInit, PeriodicInit,
       PeriodicsInit, HrexampInit, HrtimerInit, MytaskletInit, ItemInit, Load,
       Rmmod, MyExit, PollNtimers, DelTimerSync, KfreeData, DestroyWorkqueue,
       MyGenericExit, vars
<1>2. ASSUME NEW w \in Writers, WriteEnter(w) \/ Write(w)
      PROVE  NoTimerTwice'
    BY <1>2, <1>a DEF WriteEnter, Write, AtomicInc, KmallocData, TimerSetup,
       AddTimer, Schedule, AddLen, LoadLen, StoreLen, WriteReturn
<1>3. ASSUME NEW b \in Blocks, Call(b) \/ Fun(b) PROVE NoTimerTwice'
    BY <1>3 DEF Call, Fun, KtFunFree, KtFunDec, ModTimer, HrtimerRestart,
       FunPrint, FunReturn
<1> QED
    BY <1>1, <1>2, <1>3 DEF Next

-----------------------------------------------------------------------------
(* The data of an item, and what its calls print of it. *)

LEMMA FiniteOut ==
    /\ IsFiniteSet(Out) /\ Cardinality(Out) \in Nat
    /\ Cardinality(Writers) \in Nat /\ Cardinality(Out) <= Cardinality(Writers)
<1>1. IsFiniteSet(Writers) /\ Out \subseteq Writers
    BY ConstantsAssumption DEF Out
<1> QED
    BY <1>1, FS_Subset, FS_CardinalityType

\* A step that neither schedules nor changes the data.
LEMMA SumsKept ==
    ASSUME Sums, wr' = wr, writes' = writes, len' = len, sum' = sum,
           lab' = lab, printed' = printed
    PROVE  Sums'
BY DEF Sums, Out

LEMMA SumsWriting ==
    ASSUME IInv, NEW w \in Writers, WriteEnter(w) \/ Write(w)
    PROVE  Sums'
<1> USE FiniteOut DEF IInv, Shape, Sums, WriteTo
<1>0. lab' = lab /\ printed' = printed
    BY DEF WriteEnter, Write, AtomicInc, KmallocData, TimerSetup, AddTimer,
       Schedule, AddLen, LoadLen, StoreLen, WriteReturn, moduleVars
<1>1. CASE \/ WriteEnter(w) \/ AtomicInc(w) \/ KmallocData(w)
           \/ TimerSetup(w) \/ WriteReturn(w)
    <2>1. /\ writes' = writes /\ len' = len /\ sum' = sum /\ Out' = Out
          /\ \A v \in Writers : (wr[v] = "store") <=> (wr'[v] = "store")
        BY <1>1, FirstSteps DEF WriteEnter, AtomicInc, KmallocData,
           TimerSetup, WriteReturn, Out
    <2> QED
        BY <1>0, <2>1
<1>2. CASE AddTimer(w)
    <2>1. /\ writes' = writes + 1 /\ len' = len /\ sum' = sum /\ Out' = Out
          /\ \A v \in Writers : (wr[v] = "store") <=> (wr'[v] = "store")
        BY <1>2 DEF AddTimer, Out
    <2>2. lab \notin {"shared", "private"}
        BY <1>2 DEF AddTimer, Items
    <2> QED
        BY <1>0, <2>1, <2>2
<1>3. CASE Schedule(w)
    <2>1. /\ writes' = writes + 1 /\ len' = len /\ sum' = sum
          /\ \A v \in Writers : (wr[v] = "store") <=> (wr'[v] = "store")
        BY <1>3 DEF Schedule
    <2>2. Out' = Out \cup {w} /\ w \notin Out
        BY <1>3 DEF Schedule, Out
    <2>3. Cardinality(Out') = Cardinality(Out) + 1
        BY <2>2, FS_AddElement
    <2> QED
        BY <1>0, <2>1, <2>3
<1>4. CASE LoadLen(w)
    <2>1. Out' = Out /\ writes' = writes /\ len' = len
        BY <1>4 DEF LoadLen, Out
    <2>2. sum' = [sum EXCEPT ![w] = len + 1] /\ lab = "tasklet"
        BY <1>4 DEF LoadLen
    <2>3. \A v \in Writers \ {w} : wr'[v] = wr[v] /\ sum'[v] = sum[v]
        BY <1>4, <2>2 DEF LoadLen
    <2>4. wr'[w] = "store" /\ sum'[w] = len + 1
        BY <1>4, <2>2 DEF LoadLen
    <2> QED
        BY <1>0, <2>1, <2>2, <2>3, <2>4
<1>5. CASE AddLen(w) \/ StoreLen(w)
    <2>1. Out' = Out \ {w} /\ w \in Out /\ writes' = writes
        BY <1>5 DEF AddLen, StoreLen, Out
    <2>2. /\ Cardinality(Out') = Cardinality(Out) - 1
          /\ Cardinality(Out') \in Nat
        BY <2>1, FS_RemoveElement, FS_CardinalityType
    <2>3. CASE AddLen(w)
        <3>1. len' = len + 1 /\ sum' = sum /\ lab # "tasklet"
            BY <2>3 DEF AddLen
        <3>2. \A v \in Writers : wr[v] # "store" /\ wr'[v] # "store"
            BY <2>3, <3>1 DEF AddLen, Places
        <3>3. len' + Cardinality(Out') = len + Cardinality(Out)
            BY <2>2, <3>1
        <3>4. /\ len' \in Nat /\ printed' \in Nat /\ printed' <= writes'
              /\ sum' \in [Writers -> Nat]
            BY <1>0, <2>1, <3>1
        <3>5. /\ len' + Cardinality(Out') <= writes'
              /\ lab' \in {"shared", "private"} =>
                    len' + Cardinality(Out') = writes'
            BY <1>0, <2>1, <3>3
        <3>6. \A v \in Writers : sum'[v] = 0
            BY <3>1, <3>2
        <3> QED
            BY <3>2, <3>4, <3>5, <3>6
    <2>4. CASE StoreLen(w)
        <3>1. /\ len' = sum[w] /\ wr[w] = "store" /\ wr'[w] # "store"
              /\ lab \notin {"shared", "private"}
              /\ sum' = [sum EXCEPT ![w] = 0]
            BY <2>4 DEF StoreLen, Places
        <3>2. \A v \in Writers \ {w} : wr'[v] = wr[v]
            BY <2>4 DEF StoreLen
        <3>3. len' \in Nat /\ len' + Cardinality(Out') <= writes'
            BY <2>1, <2>2, <3>1
        <3>4. ASSUME NEW v \in Writers
              PROVE  /\ wr'[v] = "store" =>
                            sum'[v] + Cardinality(Out') <= writes' + 1
                     /\ wr'[v] # "store" => sum'[v] = 0
            BY <2>1, <2>2, <3>1, <3>2
        <3>5. sum' \in [Writers -> Nat]
            BY <3>1
        <3> QED
            BY <1>0, <2>1, <3>1, <3>3, <3>4, <3>5
    <2> QED
        BY <1>5, <2>3, <2>4
<1> QED
    BY <1>1, <1>2, <1>3, <1>4, <1>5 DEF Write

LEMMA SumsStep == IInv /\ [Next]_vars => Sums'
<1> SUFFICES ASSUME IInv, [Next]_vars PROVE Sums'
    OBVIOUS
<1> USE DEF moduleVars, timerVars, writeVars
<1>1. CASE MyInit \/ Rmmod \/ MyExit \/ UNCHANGED vars
    <2>1. /\ wr' = wr /\ writes' = writes /\ len' = len /\ sum' = sum
          /\ lab' = lab /\ printed' = printed
        BY <1>1 DEF MyInit, MultiInit, ResolutionInit, OnetimerInit,
           PeriodicInit, PeriodicsInit, HrexampInit, HrtimerInit,
           MytaskletInit, ItemInit, Load, Rmmod, MyExit, PollNtimers,
           DelTimerSync, KfreeData, DestroyWorkqueue, MyGenericExit, ExitTo,
           vars
    <2> QED
        BY <2>1, SumsKept DEF IInv
<1>2. ASSUME NEW w \in Writers, WriteEnter(w) \/ Write(w) PROVE Sums'
    BY <1>2, SumsWriting
<1>3. ASSUME NEW b \in Blocks, Call(b) \/ Fun(b) PROVE Sums'
    <2>1. /\ wr' = wr /\ writes' = writes /\ len' = len /\ sum' = sum
          /\ lab' = lab /\ printed' \in {printed, len}
        BY <1>3 DEF Call, Fun, KtFunFree, KtFunDec, ModTimer, HrtimerRestart,
           FunPrint, FunReturn
    <2> QED
        BY <2>1, FiniteOut DEF Sums, Out, IInv, Shape
<1> QED
    BY <1>1, <1>2, <1>3 DEF Next

\* A write leaves its item scheduled until a call begins, which prints what
\* the data is then or later.
LEMMA LastCallStep == IInv /\ [Next]_vars => LastCallIsRecent'
<1> SUFFICES ASSUME IInv, [Next]_vars,
                    lab' \in {"shared", "private"}, armed' = {},
                    fun'[First] # "entered"
             PROVE  printed' + Cardinality(Writers) >= writes'
    BY DEF LastCallIsRecent
<1> USE FiniteOut DEF IInv, Shape, LastCallIsRecent, moduleVars, timerVars,
                      writeVars, ExitTo, FunTo
<1>i. First \in Blocks
    BY DEF Blocks
<1>1. CASE MyInit
    <2>1. writes = 0 /\ writes' = writes /\ printed' = printed
        BY <1>1 DEF MyInit, MultiInit, ResolutionInit, OnetimerInit,
           PeriodicInit, PeriodicsInit, HrexampInit, HrtimerInit,
           MytaskletInit, ItemInit, Load, OwnOnly
    <2> QED
        BY <2>1 DEF Sums
<1>2. CASE Rmmod \/ MyExit \/ UNCHANGED vars
    <2>1. DelTimerSync => lab \notin {"shared", "private"} /\ lab' = lab
        BY DEF DelTimerSync, Places, Periodic, Hrtimers
    <2> QED
        BY <1>2, <2>1 DEF Rmmod, MyExit, PollNtimers, KfreeData,
           DestroyWorkqueue, MyGenericExit, vars
<1>3. ASSUME NEW w \in Writers, WriteEnter(w) \/ Write(w)
      PROVE  printed' + Cardinality(Writers) >= writes'
    <2>1. ~AddTimer(w) /\ ~Schedule(w)
        BY DEF AddTimer, Schedule, Items
    <2> QED
        BY <1>3, <2>1 DEF WriteEnter, Write, AtomicInc, KmallocData,
           TimerSetup, AddLen, LoadLen, StoreLen, WriteReturn
<1>4. ASSUME NEW b \in Blocks, Call(b) \/ Fun(b)
      PROVE  printed' + Cardinality(Writers) >= writes'
    <2>0. lab' = lab /\ writes' = writes
        BY <1>4 DEF Call, Fun, KtFunFree, KtFunDec, ModTimer, HrtimerRestart,
           FunPrint, FunReturn
    <2>1. b = First
        BY <1>4, <2>0 DEF Call, Fun, KtFunFree, KtFunDec, ModTimer,
           HrtimerRestart, FunPrint, FunReturn, OwnOnly, Quiet, PerWrite
    <2>2. CASE FunPrint(b)
        <3>1. printed' = len
            BY <2>0, <2>2 DEF FunPrint, Items
        <3> QED
            BY <2>0, <3>1 DEF Sums
    <2>3. CASE Call(b)
        BY <2>1, <2>3, <1>i DEF Call
    <2>4. CASE ~FunPrint(b) /\ ~Call(b)
        BY <1>4, <2>0, <2>4, <1>i DEF Fun, KtFunFree, KtFunDec, ModTimer,
           HrtimerRestart, FunReturn, Places, Multi, Periodic, Hrtimers
    <2> QED
        BY <2>2, <2>3, <2>4
<1> QED
    BY <1>1, <1>2, <1>3, <1>4 DEF Next

-----------------------------------------------------------------------------
(* The theorems. *)

THEOREM Invariance == ASSUME Exclusive PROVE Spec => []IInv
<1>1. IInv /\ [Next]_vars => IInv'
    BY ShapeStep, PlacesStep, AloneStep, InMemoryStep, OwnersStep,
       OwnOnlyStep, DeletingStep, StoppedStep, CountedStep, TwiceStep,
       SumsStep, LastCallStep DEF IInv
<1> QED
    BY <1>1, InitIInv, PTL DEF Spec

\* No function is given memory that is freed, and no timer is pending in it;
\* the labs that delete their timers or their queue leave nothing behind.
THEOREM GoneIsQuiet == ASSUME Exclusive PROVE Spec => []QuietWhenGone
<1>1. IInv => QuietWhenGone
    <2> SUFFICES ASSUME IInv PROVE QuietWhenGone
        OBVIOUS
    <2>1. \A b \in Blocks :
              b \in armed \/ fun[b] = "entered" => b \in allocated
        BY DEF IInv, InMemory
    <2>2. ASSUME AllQuiet PROVE armed = {} /\ \A b \in Blocks : fun[b] = "idle"
        BY <2>2 DEF AllQuiet, Quiet, IInv, Shape
    <2> QED
        BY <2>1, <2>2 DEF IInv, Stopped, QuietWhenGone
<1> QED
    BY <1>1, Invariance, PTL

\* No writer adds a timer that is pending.
THEOREM TimersAddedOnce == ASSUME Exclusive PROVE Spec => []NoTimerTwice
BY Invariance, PTL DEF IInv

\* The count of lab_multitimer.c is of the writes and timers under way.
THEOREM CountIsOfTimers == ASSUME Exclusive PROVE Spec => []TimersCountedOut
<1>1. IInv => TimersCountedOut
    BY DEF IInv, Counted, TimersCountedOut, Multi, Before, Timers, Freed
<1> QED
    BY <1>1, Invariance, PTL

\* The last call of a work item misses at most one write() of each process,
\* one that has not yet changed the data.
THEOREM LastCallMissesFew ==
    ASSUME Exclusive PROVE Spec => []LastCallIsRecent
BY Invariance, PTL DEF IInv

-----------------------------------------------------------------------------
(* rmmod. *)

\* What the loop of my_exit polls for: while the count is not zero a timer is
\* pending or its function has not counted itself out.
PolledIsOnItsWay ==
    module = "poll" /\ ntimers # 0 =>
        \E b \in Blocks : b \in armed \/ fun[b] \in {"entered", "freed"}

\* rmmod of lab_multitimer.c does not wait for a timer that is lost.
THEOREM PollingIsForTimers == ASSUME Exclusive PROVE Spec => []PolledIsOnItsWay
<1>1. IInv => PolledIsOnItsWay
    <2> SUFFICES ASSUME IInv, module = "poll", Timers = {}, Freed = {}
                 PROVE  ntimers = 0
        BY DEF PolledIsOnItsWay, Timers, Freed
    <2>1. Before = {} /\ lab \in Multi
        BY DEF IInv, Places, Before
    <2> QED
        BY <2>1, FS_EmptySet DEF IInv, Counted
<1> QED
    BY <1>1, Invariance, PTL

-----------------------------------------------------------------------------
(* The types, and how high the driver counts.                              *)

\* What Shape leaves out, but for the bounds.
Kinds ==
    /\ module \in {"out", "live", "poll", "delete", "kfree", "destroy",
                   "generic", "gone"}
    /\ device \in BOOLEAN /\ timer_initd \in BOOLEAN
    /\ twice \subseteq Blocks

LEMMA KindsStep == IInv /\ Kinds /\ [Next]_vars => Kinds'
<1> SUFFICES ASSUME IInv, Kinds, [Next]_vars PROVE Kinds'
    OBVIOUS
<1> USE DEF IInv, Shape, Kinds, moduleVars, timerVars, writeVars, ExitTo
<1>1. CASE MyInit
    BY <1>1 DEF MyInit, MultiInit, ResolutionInit, OnetimerInit, PeriodicInit,
       PeriodicsInit, HrexampInit, HrtimerInit, MytaskletInit, ItemInit, Load
<1>2. CASE Rmmod
    BY <1>2 DEF Rmmod, FirstOfExit
<1>3. CASE MyExit \/ UNCHANGED vars
    BY <1>3 DEF MyExit, PollNtimers, DelTimerSync, AfterDelete, KfreeData,
       DestroyWorkqueue, MyGenericExit, vars
<1>4. ASSUME NEW w \in Writers, WriteEnter(w) \/ Write(w) PROVE Kinds'
    BY <1>4 DEF WriteEnter, Write, AtomicInc, KmallocData, TimerSetup,
       AddTimer, Schedule, AddLen, LoadLen, StoreLen, WriteReturn
<1>5. ASSUME NEW b \in Blocks, Call(b) \/ Fun(b) PROVE Kinds'
    BY <1>5 DEF Call, Fun, KtFunFree, KtFunDec, ModTimer, HrtimerRestart,
       FunPrint, FunReturn
<1> QED
    BY <1>1, <1>2, <1>3, <1>4, <1>5 DEF Next

\* Writers whose timer or item has yet to be started.
Due == {w \in Writers : wr[w] \in {"inc", "kmalloc", "setup", "add"}}

\* ntimers is ahead of the writes only by those in between.
WriteBounds ==
    /\ lab \notin Multi => ntimers = 0
    /\ writes >= 0
    /\ writes + Cardinality(Due) <= MaxWrites
    /\ ntimers <= writes + Cardinality(Before)

LEMMA FiniteDue ==
    /\ IsFiniteSet(Due) /\ Cardinality(Due) \in Nat
    /\ IsFiniteSet(Writing) /\ Cardinality(Writing) \in Nat
    /\ Cardinality(Before) <= Cardinality(Due)
<1>1. IsFiniteSet(Due) /\ IsFiniteSet(Writing)
    BY ConstantsAssumption, FS_Subset DEF Due, Writing
<1>2. Before \subseteq Due
    BY DEF Before, Due
<1> QED
    BY <1>1, <1>2, FS_Subset, FS_CardinalityType

\* A step that lets nobody in and adds no timer.
LEMMA BoundsKept ==
    ASSUME Shape, WriteBounds, Due' = Due, Before' = Before,
           writes' = writes, lab' = lab, ntimers' = ntimers
    PROVE  WriteBounds'
BY DEF Shape, WriteBounds

\* A write that has added its timer is one more done and one less to do.
LEMMA OneForOne ==
    ASSUME NEW m \in Int, NEW n \in Nat, NEW k \in Nat, n = k - 1
    PROVE  (m + 1) + n = m + k
OBVIOUS

LEMMA BoundsWriting ==
    ASSUME IInv, WriteBounds, NEW w \in Writers, WriteEnter(w) \/ Write(w)
    PROVE  WriteBounds'
<1> USE FiniteDue, FinitePlaces DEF IInv, Shape, WriteTo
<1>0. lab' = lab
    BY DEF WriteEnter, Write, AtomicInc, KmallocData, TimerSetup,
       AddTimer, Schedule, AddLen, LoadLen, StoreLen, WriteReturn, moduleVars
<1>1. CASE WriteEnter(w)
    <2>1. Due' = Due \cup {w} /\ w \notin Due /\ Due \subseteq Writing
        BY <1>1, FirstSteps DEF WriteEnter, Due, Writing
    <2>2. Cardinality(Due') = Cardinality(Due) + 1
        BY <2>1, FS_AddElement
    <2>3. w \notin Writing /\ Cardinality(Due) <= Cardinality(Writing)
        BY <1>1, <2>1, FS_Subset DEF WriteEnter, Writing
    <2>4. Before \subseteq Before' /\ IsFiniteSet(Before')
        <3>1. Before' \subseteq Writers
            BY DEF Before
        <3> QED
            BY <1>1, <3>1, ConstantsAssumption, FS_Subset
            DEF WriteEnter, Before
    <2>5. Cardinality(Before) <= Cardinality(Before')
          /\ Cardinality(Before') \in Nat
        BY <2>4, FS_Subset, FS_CardinalityType
    <2>6. writes + Cardinality(Writing) < MaxWrites
          /\ writes' = writes /\ ntimers' = ntimers
        BY <1>1 DEF WriteEnter
    <2>7. writes' + Cardinality(Due') <= MaxWrites
        BY <2>2, <2>3, <2>6, ConstantsAssumption
    <2>8. ntimers' <= writes' + Cardinality(Before')
        BY <2>5, <2>6 DEF WriteBounds
    <2> QED
        BY <1>0, <2>6, <2>7, <2>8 DEF WriteBounds
<1>2. CASE AtomicInc(w)
    <2>1. Before' = Before \cup {w} /\ w \notin Before /\ Due' = Due
        BY <1>2 DEF AtomicInc, Before, Due
    <2>2. Cardinality(Before') = Cardinality(Before) + 1
        BY <2>1, FS_AddElement
    <2>3. ntimers' = ntimers + 1 /\ writes' = writes /\ lab \in Multi
        BY <1>2 DEF AtomicInc, Places
    <2> QED
        BY <1>0, <2>1, <2>2, <2>3 DEF WriteBounds
<1>3. CASE \/ KmallocData(w) \/ TimerSetup(w) \/ WriteReturn(w)
           \/ AddLen(w) \/ LoadLen(w) \/ StoreLen(w)
    <2>1. Due' = Due /\ Before' = Before
        BY <1>3 DEF KmallocData, TimerSetup, WriteReturn, AddLen, LoadLen,
           StoreLen, Before, Due
    <2>2. writes' = writes /\ ntimers' = ntimers
        BY <1>3 DEF KmallocData, TimerSetup, WriteReturn, AddLen, LoadLen,
           StoreLen
    <2> QED
        BY <1>0, <2>1, <2>2, BoundsKept
<1>4. CASE AddTimer(w) \/ Schedule(w)
    <2>1. /\ Due' = Due \ {w} /\ w \in Due
          /\ Before' = Before \ {w} /\ w \in Before
        BY <1>4 DEF AddTimer, Schedule, Before, Due
    <2>2. /\ Cardinality(Due') = Cardinality(Due) - 1
          /\ Cardinality(Before') = Cardinality(Before) - 1
        BY <2>1, FS_RemoveElement
    <2>3. writes' = writes + 1 /\ ntimers' = ntimers
        BY <1>4 DEF AddTimer, Schedule
    <2>4. /\ Cardinality(Due') \in Nat /\ Cardinality(Before') \in Nat
        BY <2>1, FS_RemoveElement, FS_CardinalityType
    <2>5. /\ writes' + Cardinality(Due') = writes + Cardinality(Due)
          /\ writes' + Cardinality(Before') = writes + Cardinality(Before)
        BY <2>2, <2>3, <2>4, OneForOne
    <2>6. writes' >= 0
        BY <1>0, <2>3 DEF WriteBounds
    <2> QED
        BY <1>0, <2>3, <2>5, <2>6 DEF WriteBounds
<1> QED
    BY <1>1, <1>2, <1>3, <1>4 DEF Write

LEMMA BoundsStep == IInv /\ WriteBounds /\ [Next]_vars => WriteBounds'
<1> SUFFICES ASSUME IInv, WriteBounds, [Next]_vars PROVE WriteBounds'
    OBVIOUS
<1> USE DEF moduleVars, timerVars, writeVars, ExitTo, Due, Before
<1>1. CASE MyInit \/ Rmmod \/ MyExit \/ UNCHANGED vars
    <2>1. wr' = wr /\ writes' = writes /\ lab' = lab
          /\ ntimers' = ntimers
        BY <1>1 DEF MyInit, MultiInit, ResolutionInit, OnetimerInit,
           PeriodicInit, PeriodicsInit, HrexampInit, HrtimerInit,
           MytaskletInit, ItemInit, Load, Rmmod, MyExit, PollNtimers,
           DelTimerSync, KfreeData, DestroyWorkqueue, MyGenericExit, vars
    <2> QED
        BY <2>1, BoundsKept DEF IInv
<1>2. ASSUME NEW w \in Writers, WriteEnter(w) \/ Write(w)
      PROVE  WriteBounds'
    BY <1>2, BoundsWriting
<1>3. ASSUME NEW b \in Blocks, Call(b) \/ Fun(b) PROVE WriteBounds'
    <2>1. CASE KtFunDec(b)
        <3>1. wr' = wr /\ writes' = writes /\ lab' = lab
              /\ ntimers' = ntimers - 1 /\ lab \in Multi
            BY <2>1 DEF KtFunDec, FunTo, IInv, Places
        <3> QED
            BY <3>1, FinitePlaces DEF WriteBounds, IInv, Shape
    <2>2. CASE ~KtFunDec(b)
        <3>1. wr' = wr /\ writes' = writes /\ lab' = lab
              /\ ntimers' = ntimers
            BY <1>3, <2>2 DEF Call, Fun, KtFunFree, ModTimer, HrtimerRestart,
               FunPrint, FunReturn
        <3> QED
            BY <3>1, BoundsKept DEF IInv
    <2> QED
        BY <2>1, <2>2
<1> QED
    BY <1>1, <1>2, <1>3 DEF Next

\* The types; that a pending timer's memory is allocated and that ntimers
\* counts no further than there were writes, nor below zero, are among them.
THEOREM TypeCorrect == ASSUME Exclusive PROVE Spec => []TypeOK
<1>1. Init => Kinds /\ WriteBounds
    <2> SUFFICES ASSUME Init PROVE Kinds /\ WriteBounds
        OBVIOUS
    <2>1. Due = {} /\ Before = {}
        BY DEF Init, Due, Before
    <2>2. WriteBounds
        BY <2>1, FS_EmptySet, ConstantsAssumption DEF Init, WriteBounds
    <2> QED
        BY <2>2 DEF Init, Kinds
<1>2. IInv /\ Kinds /\ WriteBounds => TypeOK
    <2> SUFFICES ASSUME IInv, Kinds, WriteBounds PROVE TypeOK
        OBVIOUS
    <2>1. ntimers \in 0..MaxWrites /\ writes \in 0..MaxWrites
        BY FinitePlaces, FiniteDue, ConstantsAssumption
        DEF IInv, Shape, Counted, WriteBounds
    <2>2. armed \subseteq allocated
        BY DEF IInv, Shape, InMemory
    <2>3. len \in 0..writes /\ printed \in 0..writes
        BY FiniteOut DEF IInv, Shape, Sums
    <2>4. ASSUME NEW w \in Writers PROVE sum[w] \in 0..MaxWrites
        <3>1. CASE wr[w] = "store"
            <4>1. Cardinality(Out) >= 1
                <5>1. w \in Out
                    BY <3>1 DEF Out
                <5> QED
                    BY <5>1, FiniteOut, FS_EmptySet
            <4> QED
                BY <2>1, <3>1, <4>1, FiniteOut, ConstantsAssumption
                DEF IInv, Shape, Sums
        <3>2. CASE wr[w] # "store"
            BY <3>2, ConstantsAssumption DEF IInv, Sums
        <3> QED
            BY <3>1, <3>2
    <2>5. sum \in [Writers -> 0..MaxWrites]
        BY <2>4 DEF IInv, Sums
    <2> QED
        BY <2>1, <2>2, <2>3, <2>5 DEF TypeOK, IInv, Shape, Kinds
<1> QED
    BY <1>1, <1>2, KindsStep, BoundsStep, Invariance, PTL DEF Spec

=============================================================================
