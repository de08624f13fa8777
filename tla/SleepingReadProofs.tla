------------------------- MODULE SleepingReadProofs -------------------------
(***************************************************************************)
(* What the sleeping readers of chapter 22 are promised, for any number of *)
(* readers, writers and writes: one write lets one reader through a        *)
(* completion, a semaphore or a mutex; lab_excl.c counts its sleepers      *)
(* right, whatever ends their sleep; no last write is missed and no        *)
(* sleeper forgotten.  At the end, the reader of lab_uio.c.                *)
(***************************************************************************)
EXTENDS SleepingRead, FiniteSetTheorems, TLAPS

\* Steps of the readers and pollers, and of the writers.
ProcNext ==
    \E p \in Procs :
        \/ ReadEnter(p) \/ Read(p) \/ ReadSignal(p)
        \/ Take(p) \/ Interrupted(p)
        \/ PollEnter(p) \/ Poll(p)

WriterNext ==
    \E w \in Writers :
        WriteCopy(w) \/ WriteFirst(w) \/ WriteSecond(w) \/ WriteGive(w)

-----------------------------------------------------------------------------
(* Where the readers can be. *)

ObjectPcs == {"idle", "take", "copy"}
ExclPcs == {"idle", "queue", "test", "asleep", "lock", "dec", "clear",
            "unlock", "copy"}

\* Until my_init is through nobody is inside; the labs with an object and
\* lab_excl.c have readers in their own part of read() only.
Places ==
    /\ DOMAIN pc = Procs
    /\ module = "loading" => \A p \in Procs : pc[p] = "idle"
    /\ lab \in ObjectLabs => \A p \in Procs : pc[p] \in ObjectPcs
    /\ lab = "excl" => \A p \in Procs : pc[p] \in ExclPcs

LEMMA InitPlaces == Init => Places
BY DEF Init, Places, ObjectPcs, ExclPcs

LEMMA NextPlaces == Places /\ [Next]_vars => Places'
<1> SUFFICES ASSUME Places, [Next]_vars PROVE Places'
    OBVIOUS
<1> USE DEF Places, ObjectPcs, ExclPcs, ObjectLabs, ReadVars, SleepVars
<1>1. CASE InitFlag \/ GrabLock
    BY <1>1 DEF InitFlag, GrabLock, LoadVars
<1>2. CASE ProcNext
    <2>1. PICK p \in Procs :
              \/ ReadEnter(p) \/ Read(p) \/ ReadSignal(p)
              \/ Take(p) \/ Interrupted(p)
              \/ PollEnter(p) \/ Poll(p)
        BY <1>2 DEF ProcNext
    <2>2. CASE ReadEnter(p)
        BY <2>2 DEF ReadEnter, Goto
    <2>3. CASE ReadQueue(p) \/ ReadWoken(p) \/ ReadSignal(p)
        BY <2>3 DEF ReadQueue, ReadWoken, ReadSignal, LeaveSleep, Goto
    <2>4. CASE ReadTest(p)
        BY <2>4 DEF ReadTest, LeaveSleep, Goto
    <2>5. CASE ReadClear(p) \/ SpinLock(p) \/ SpinUnlock(p) \/ ReadCopy(p)
        BY <2>5 DEF ReadClear, SpinLock, SpinUnlock, ReadCopy, Goto
    <2>6. CASE DecAndTest(p)
        BY <2>6 DEF DecAndTest, Goto
    <2>7. CASE Take(p) \/ Interrupted(p)
        BY <2>7 DEF Take, Interrupted, Goto
    <2>8. CASE PollEnter(p) \/ PollWait(p) \/ PollWoken(p) \/ PollTimeout(p)
        BY <2>8 DEF PollEnter, PollWait, PollWoken, PollTimeout, PollVars, Goto
    <2>9. CASE PollTest(p) \/ PollLast(p)
        BY <2>9 DEF PollTest, PollLast, PollVars, Goto
    <2> QED
        BY <2>1, <2>2, <2>3, <2>4, <2>5, <2>6, <2>7, <2>8, <2>9
           DEF Read, Poll
<1>3. CASE WriterNext
    BY <1>3 DEF WriterNext, WriteCopy, WriteFirst, WriteSecond, WriteGive,
                WriteVars
<1>4. CASE UNCHANGED vars
    BY <1>4 DEF vars
<1> QED
    BY <1>1, <1>2, <1>3, <1>4 DEF Next, ProcNext, WriterNext

-----------------------------------------------------------------------------
(* One write lets one reader through. *)

\* Nobody writes until my_init is through, either.
NoWriter == module = "loading" => \A w \in Writers : wr[w] = "idle"

LEMMA NextNoWriter == NoWriter /\ [Next]_vars => NoWriter'
<1> SUFFICES ASSUME NoWriter, [Next]_vars, module' = "loading"
             PROVE  UNCHANGED <<module, wr>>
    BY DEF NoWriter
<1> USE DEF ReadVars, SleepVars
<1>1. CASE InitFlag \/ GrabLock
    BY <1>1 DEF InitFlag, GrabLock
<1>2. CASE ProcNext
    BY <1>2 DEF ProcNext, ReadEnter, Read, ReadQueue, ReadTest, ReadWoken,
           ReadClear, SpinLock, DecAndTest, SpinUnlock, ReadCopy, ReadSignal,
           Take, Interrupted, PollEnter, Poll, PollWait, PollTest, PollWoken,
           PollTimeout, PollLast, PollVars
<1>3. CASE WriterNext
    BY <1>3 DEF NoWriter, WriterNext, WriteCopy, WriteFirst, WriteSecond,
           WriteGive, WriteVars
<1>4. CASE UNCHANGED vars
    BY <1>4 DEF vars
<1> QED
    BY <1>1, <1>2, <1>3, <1>4 DEF Next, ProcNext, WriterNext

\* OneReaderPerWrite with what my_init starts from; a mutex is unlocked or
\* it is not.
ObjectInv ==
    /\ {count, given, passed} \subseteq Nat
    /\ module = "loading" => given = 0 /\ passed = 0
    /\ module = "loading" /\ lab = "complete" => count = 0
    /\ OneReaderPerWrite

LEMMA InitObject == Init => ObjectInv
BY DEF Init, ObjectInv, OneReaderPerWrite

LEMMA NextObject ==
    Places /\ NoWriter /\ ObjectInv /\ [Next]_vars => ObjectInv'
<1> SUFFICES ASSUME Places, NoWriter, ObjectInv, [Next]_vars PROVE ObjectInv'
    OBVIOUS
<1> USE DEF ObjectInv, OneReaderPerWrite, ObjectLabs, ReadVars, SleepVars
<1>1. CASE InitFlag \/ GrabLock
    BY <1>1 DEF InitFlag, GrabLock, LoadVars
<1>2. CASE ProcNext
    <2>1. PICK p \in Procs :
              \/ ReadEnter(p) \/ Read(p) \/ ReadSignal(p)
              \/ Take(p) \/ Interrupted(p)
              \/ PollEnter(p) \/ Poll(p)
        BY <1>2 DEF ProcNext
    <2>2. CASE Take(p)
        BY <2>2 DEF Take, Places, ObjectPcs
    <2>3. CASE ReadTest(p)
        \* Nobody is in the flag labs' part of read().
        BY <2>3 DEF ReadTest, Places, ObjectPcs
    <2>4. CASE ReadEnter(p) \/ ReadQueue(p) \/ ReadWoken(p) \/ ReadSignal(p)
               \/ Interrupted(p)
        BY <2>4 DEF ReadEnter, ReadQueue, ReadWoken, ReadSignal, Interrupted
    <2>5. CASE ReadClear(p) \/ SpinLock(p) \/ DecAndTest(p) \/ SpinUnlock(p)
               \/ ReadCopy(p)
        BY <2>5 DEF ReadClear, SpinLock, DecAndTest, SpinUnlock, ReadCopy
    <2>6. CASE PollEnter(p) \/ Poll(p)
        BY <2>6 DEF Poll, PollEnter, PollWait, PollTest, PollWoken,
                    PollTimeout, PollLast, PollVars
    <2> QED
        BY <2>1, <2>2, <2>3, <2>4, <2>5, <2>6 DEF Read
<1>3. CASE WriterNext
    <2>1. PICK w \in Writers :
              WriteCopy(w) \/ WriteFirst(w) \/ WriteSecond(w) \/ WriteGive(w)
        BY <1>3 DEF WriterNext
    <2>2. CASE WriteGive(w)
        BY <2>2 DEF WriteGive, Give, WriteVars, NoWriter
    <2>3. CASE WriteCopy(w)
        BY <2>3 DEF WriteCopy
    <2>4. CASE WriteFirst(w) \/ WriteSecond(w)
        BY <2>4 DEF WriteFirst, WriteSecond, SetReady, WakeUp, WriteVars
    <2> QED
        BY <2>1, <2>2, <2>3, <2>4
<1>4. CASE UNCHANGED vars
    BY <1>4 DEF vars
<1> QED
    BY <1>1, <1>2, <1>3, <1>4 DEF Next, ProcNext, WriterNext

\* A completion, a semaphore and a mutex let as many readers through as
\* writes have given them, at most, and the first two remember the rest.
THEOREM OneWriteOneReader == Spec => []OneReaderPerWrite
<1>1. Init => Places /\ NoWriter /\ ObjectInv
    BY InitPlaces, InitObject DEF Init, NoWriter
<1>2. Places /\ NoWriter /\ ObjectInv /\ [Next]_vars =>
          (Places /\ NoWriter /\ ObjectInv)'
    BY NextPlaces, NextNoWriter, NextObject
<1>3. ObjectInv => OneReaderPerWrite
    BY DEF ObjectInv
<1> QED
    BY <1>1, <1>2, <1>3, PTL DEF Spec

-----------------------------------------------------------------------------
(* lab_excl.c counts its sleepers. *)

\* Its cardinality is a number of readers.
LEMMA InsideFinite == IsFiniteSet(Inside)
BY ConstantsAssumption, FS_Subset DEF Inside

\* SleepersCounted, and that my_init finds nobody counted.
ExclInv ==
    lab = "excl" =>
        /\ module = "loading" => nsleepers = 0
        /\ nsleepers = Cardinality(Inside)
        /\ \A p \in Procs : pc[p] \in {"dec", "clear", "unlock"} => lock = {p}

LEMMA InitExcl == Init => ExclInv
<1> SUFFICES ASSUME Init PROVE ExclInv
    OBVIOUS
<1>1. Inside = {}
    BY DEF Init, Inside
<1> QED
    BY <1>1, FS_EmptySet DEF Init, ExclInv

LEMMA NextExcl == Places /\ ExclInv /\ [Next]_vars => ExclInv'
<1> SUFFICES ASSUME Places, ExclInv, [Next]_vars, lab' = "excl"
             PROVE  ExclInv'
    BY DEF ExclInv
<1> USE DEF ReadVars, SleepVars
<1>0. lab = "excl"
    BY DEF Next, InitFlag, GrabLock, LoadVars, ReadEnter, Read, ReadQueue,
           ReadTest, ReadWoken, ReadClear, SpinLock, DecAndTest, SpinUnlock,
           ReadCopy, ReadSignal, Take, Interrupted, PollEnter, Poll, PollWait,
           PollTest, PollWoken, PollTimeout, PollLast, PollVars, WriteCopy,
           WriteFirst, WriteSecond, WriteGive, WriteVars, vars
<1>1. CASE InitFlag
    <2>1. Inside = {} /\ Inside' = {}
        BY <1>1 DEF InitFlag, LoadVars, Inside, Places
    <2> QED
        BY <1>0, <1>1, <2>1, FS_EmptySet DEF InitFlag, LoadVars, ExclInv
<1>2. CASE GrabLock
    BY <1>0, <1>2 DEF GrabLock
<1>3. CASE ProcNext
    <2>1. PICK p \in Procs :
              \/ ReadEnter(p) \/ Read(p) \/ ReadSignal(p)
              \/ Take(p) \/ Interrupted(p)
              \/ PollEnter(p) \/ Poll(p)
        BY <1>3 DEF ProcNext
    <2>a. DOMAIN pc = Procs /\ pc[p] \in ExclPcs
        BY <1>0 DEF Places
    <2>2. CASE ReadEnter(p)
        <3>1. Inside' = Inside \cup {p} /\ p \notin Inside
            BY <2>a, <2>2, <1>0 DEF ReadEnter, Goto, Inside, ObjectLabs
        <3>2. Cardinality(Inside') = nsleepers + 1
            BY <3>1, <1>0, InsideFinite, FS_AddElement DEF ExclInv
        <3> QED
            BY <2>a, <2>2, <3>2, <1>0
               DEF ReadEnter, ExclInv, Goto, ObjectLabs
    <2>3. CASE DecAndTest(p)
        <3>1. Inside' = Inside \ {p} /\ p \in Inside
            BY <2>a, <2>3 DEF DecAndTest, Goto, Inside
        <3>2. Cardinality(Inside') = nsleepers - 1
            BY <3>1, <1>0, InsideFinite, FS_RemoveElement DEF ExclInv
        <3> QED
            BY <2>a, <2>3, <3>2, <1>0 DEF DecAndTest, ExclInv, Goto, Places
    <2>4. CASE \/ ReadQueue(p) \/ ReadTest(p) \/ ReadWoken(p)
               \/ ReadSignal(p) \/ SpinLock(p)
        \* p stays in the counted part.
        <3>1. Inside' = Inside
            BY <2>a, <2>4, <1>0
               DEF ReadQueue, ReadTest, ReadWoken, ReadSignal, SpinLock,
                   LeaveSleep, Goto, Inside
        <3> QED
            BY <2>a, <2>4, <3>1, <1>0
               DEF ReadQueue, ReadTest, ReadWoken, ReadSignal, SpinLock,
                   LeaveSleep, Goto, ExclInv, Places
    <2>5. CASE ReadClear(p) \/ SpinUnlock(p) \/ ReadCopy(p)
        \* p stays out of it.
        <3>1. Inside' = Inside
            BY <2>a, <2>5, <1>0
               DEF ReadClear, SpinUnlock, ReadCopy, Goto, Inside
        <3> QED
            BY <2>a, <2>5, <3>1, <1>0
               DEF ReadClear, SpinUnlock, ReadCopy, Goto, ExclInv, Places
    <2>6. ~ (Take(p) \/ Interrupted(p) \/ PollEnter(p) \/ Poll(p))
        BY <2>a, <1>0
           DEF ExclPcs, Take, Interrupted, PollEnter, Poll, PollWait,
               PollTest, PollWoken, PollTimeout, PollLast
    <2> QED
        BY <2>1, <2>2, <2>3, <2>4, <2>5, <2>6 DEF Read
<1>4. CASE WriterNext
    <2>1. UNCHANGED <<module, nsleepers, lock, pc>>
        BY <1>4 DEF WriterNext, WriteCopy, WriteFirst, WriteSecond, WriteGive,
                    WriteVars
    <2> QED
        BY <2>1, <1>0 DEF ExclInv, Inside
<1>5. CASE UNCHANGED vars
    BY <1>5, <1>0 DEF vars, ExclInv, Inside
<1> QED
    BY <1>1, <1>2, <1>3, <1>4, <1>5 DEF Next, ProcNext, WriterNext

\* nsleepers is the number of readers inside, whatever signals do, and the
\* last one's decrement and clearing have nobody else's between them.
THEOREM ExclCounts == Spec => []SleepersCounted
<1>1. Init => Places /\ ExclInv
    BY InitPlaces, InitExcl
<1>2. Places /\ ExclInv /\ [Next]_vars => (Places /\ ExclInv)'
    BY NextPlaces, NextExcl
<1>3. ExclInv => SleepersCounted
    BY DEF ExclInv, SleepersCounted
<1> QED
    BY <1>1, <1>2, <1>3, PTL DEF Spec

-----------------------------------------------------------------------------
(* No write is missed. *)

\* Every writer is somewhere in write().
WriterShape == wr \in [Writers -> {"idle", "first", "second"}]

LEMMA NextWriterShape == WriterShape /\ [Next]_vars => WriterShape'
<1> SUFFICES ASSUME WriterShape, [Next]_vars PROVE WriterShape'
    OBVIOUS
<1> USE DEF WriterShape
<1>1. CASE WriterNext
    BY <1>1 DEF WriterNext, WriteCopy, WriteFirst, WriteSecond, WriteGive
<1>2. CASE ProcNext
    BY <1>2 DEF ProcNext, ReadEnter, Read, ReadQueue, ReadTest, ReadWoken,
           ReadClear, SpinLock, DecAndTest, SpinUnlock, ReadCopy, ReadSignal,
           Take, Interrupted, PollEnter, Poll, PollWait, PollTest, PollWoken,
           PollTimeout, PollLast, PollVars, ReadVars
<1>3. CASE InitFlag \/ GrabLock \/ UNCHANGED vars
    BY <1>3 DEF InitFlag, GrabLock, LoadVars, vars
<1> QED
    BY <1>1, <1>2, <1>3 DEF Next, ProcNext, WriterNext

\* The writer has still to set the flag or to give the object; what it does
\* after that lets nobody through.
Announcing(w) == wr[w] = "first" \/ (wr[w] = "second" /\ WakesFirst)

\* Who is going to read the last write, if nobody has: a reader on its way to
\* the data, or one that the flag, the object or a writer will let through.
\* LastWriteIsRead is not inductive, it does not say who the writer is that
\* may return without doing anything more for the readers.
ReadInv ==
    /\ count \in Nat
    /\ module = "loading" => seen = ramdisk
    /\ \/ seen = ramdisk
       \/ data_ready = 1 \/ count > 0
       \/ \E w \in Writers : Announcing(w)
       \/ \E p \in Procs : pc[p] \in {"unlock", "copy"}

LEMMA InitRead == Init => ReadInv
BY DEF Init, ReadInv

LEMMA NextRead ==
    Places /\ WriterShape /\ ReadInv /\ [Next]_vars => ReadInv'
<1> SUFFICES ASSUME Places, WriterShape, ReadInv, [Next]_vars PROVE ReadInv'
    OBVIOUS
<1> USE DEF ReadInv, Announcing, WakesFirst, ReadVars, SleepVars, Places,
            WriterShape
<1>1. CASE InitFlag \/ GrabLock
    BY <1>1 DEF InitFlag, GrabLock, LoadVars
<1>2. CASE ProcNext
    <2>1. PICK p \in Procs :
              \/ ReadEnter(p) \/ Read(p) \/ ReadSignal(p)
              \/ Take(p) \/ Interrupted(p)
              \/ PollEnter(p) \/ Poll(p)
        BY <1>2 DEF ProcNext
    <2>2. CASE ReadClear(p)
        BY <2>2 DEF ReadClear, Goto
    <2>3. CASE SpinUnlock(p)
        BY <2>3 DEF SpinUnlock, Goto
    <2>4. CASE ReadCopy(p)
        BY <2>4 DEF ReadCopy
    <2>5. CASE Take(p)
        BY <2>5 DEF Take, Goto
    <2>6. CASE \/ ReadEnter(p) \/ ReadQueue(p) \/ ReadTest(p) \/ ReadWoken(p)
               \/ ReadSignal(p) \/ SpinLock(p) \/ DecAndTest(p)
               \/ Interrupted(p)
        BY <2>6 DEF ReadEnter, ReadQueue, ReadTest, ReadWoken, ReadSignal,
               SpinLock, DecAndTest, Interrupted, LeaveSleep, Goto
    <2>7. CASE PollEnter(p) \/ Poll(p)
        BY <2>7 DEF PollEnter, Poll, PollWait, PollTest, PollWoken,
               PollTimeout, PollLast, PollVars, Goto
    <2> QED
        BY <2>1, <2>2, <2>3, <2>4, <2>5, <2>6, <2>7 DEF Read
<1>3. CASE WriterNext
    <2>1. PICK w \in Writers :
              WriteCopy(w) \/ WriteFirst(w) \/ WriteSecond(w) \/ WriteGive(w)
        BY <1>3 DEF WriterNext
    <2>2. CASE WriteCopy(w)
        BY <2>2 DEF WriteCopy
    <2>3. CASE WriteFirst(w)
        BY <2>3 DEF WriteFirst, SetReady, WakeUp, WriteVars
    <2>4. CASE WriteSecond(w)
        BY <2>4 DEF WriteSecond, SetReady, WakeUp, WriteVars
    <2>5. CASE WriteGive(w)
        BY <2>5 DEF WriteGive, Give, WriteVars
    <2> QED
        BY <2>1, <2>2, <2>3, <2>4, <2>5
<1>4. CASE UNCHANGED vars
    BY <1>4 DEF vars
<1> QED
    BY <1>1, <1>2, <1>3, <1>4 DEF Next, ProcNext, WriterNext

\* In all seven labs, for any number of readers, pollers and writers, with
\* signals and timeouts: when nothing is left to let a reader through and
\* nobody is on the way to the data, the last write was read.
THEOREM NoWriteMissed == Spec => []LastWriteIsRead
<1>1. Init => Places /\ WriterShape /\ ReadInv
    BY InitPlaces, InitRead DEF Init, WriterShape
<1>2. Places /\ WriterShape /\ ReadInv /\ [Next]_vars =>
          (Places /\ WriterShape /\ ReadInv)'
    BY NextPlaces, NextWriterShape, NextRead
<1>3. ReadInv => LastWriteIsRead
    BY DEF ReadInv, LastWriteIsRead, WritesOver, Announcing
<1> QED
    BY <1>1, <1>2, <1>3, PTL DEF Spec

-----------------------------------------------------------------------------
(* Setting before waking loses no sleeper. *)

\* SetThenWake for every state of the writers: only those between the flag
\* and the wake-up excuse a sleeper that was not woken.
WokenInv ==
    lab = "wait_event" /\ data_ready = 1
            /\ (\A w \in Writers : wr[w] # "second")
        => \A p \in Procs : pc[p] = "asleep" => p \in woken

LEMMA NextWoken ==
    Places /\ WriterShape /\ WokenInv /\ [Next]_vars => WokenInv'
<1> SUFFICES ASSUME Places, WriterShape, WokenInv, [Next]_vars PROVE WokenInv'
    OBVIOUS
<1> USE DEF WokenInv, ReadVars, SleepVars, Places, WriterShape
<1>1. CASE InitFlag \/ GrabLock
    BY <1>1 DEF InitFlag, GrabLock, LoadVars
<1>2. CASE ProcNext
    <2>1. PICK p \in Procs :
              \/ ReadEnter(p) \/ Read(p) \/ ReadSignal(p)
              \/ Take(p) \/ Interrupted(p)
              \/ PollEnter(p) \/ Poll(p)
        BY <1>2 DEF ProcNext
    <2>2. CASE ReadQueue(p)
        BY <2>2 DEF ReadQueue, Goto
    <2>3. CASE ReadTest(p)
        BY <2>3 DEF ReadTest, LeaveSleep, Goto
    <2>4. CASE \/ ReadEnter(p) \/ ReadWoken(p) \/ ReadSignal(p) \/ ReadClear(p)
               \/ SpinLock(p) \/ DecAndTest(p) \/ SpinUnlock(p) \/ ReadCopy(p)
               \/ Take(p) \/ Interrupted(p)
        BY <2>4 DEF ReadEnter, ReadWoken, ReadSignal, ReadClear, SpinLock,
               DecAndTest, SpinUnlock, ReadCopy, Take, Interrupted,
               LeaveSleep, Goto
    <2>5. CASE PollEnter(p) \/ Poll(p)
        \* Another lab, or a poller that leaves a place of its own.
        BY <2>5 DEF PollEnter, Poll, PollWait, PollTest, PollWoken,
               PollTimeout, PollLast, PollVars, Goto
    <2> QED
        BY <2>1, <2>2, <2>3, <2>4, <2>5 DEF Read
<1>3. CASE WriterNext
    <2>1. PICK w \in Writers :
              WriteCopy(w) \/ WriteFirst(w) \/ WriteSecond(w) \/ WriteGive(w)
        BY <1>3 DEF WriterNext
    <2>2. CASE WriteCopy(w) \/ WriteGive(w)
        BY <2>2 DEF WriteCopy, WriteGive, Give, WriteVars, ObjectLabs
    <2>3. CASE WriteFirst(w)
        BY <2>3 DEF WriteFirst, WakesFirst, WriteVars
    <2>4. CASE WriteSecond(w)
        BY <2>4 DEF WriteSecond, WakesFirst, WakeUp, Sleeping, WriteVars
    <2> QED
        BY <2>1, <2>2, <2>3, <2>4
<1>4. CASE UNCHANGED vars
    BY <1>4 DEF vars
<1> QED
    BY <1>1, <1>2, <1>3, <1>4 DEF Next, ProcNext, WriterNext

\* lab_wait_event.c sets its flag and then wakes: once the writers are
\* through, no reader sleeps on a flag that is set without having been woken.
THEOREM SetAndWokenUp == Spec => []SetThenWake
<1>1. Init => Places /\ WriterShape /\ WokenInv
    BY InitPlaces DEF Init, WriterShape, WokenInv
<1>2. Places /\ WriterShape /\ WokenInv /\ [Next]_vars =>
          (Places /\ WriterShape /\ WokenInv)'
    BY NextPlaces, NextWriterShape, NextWoken
<1>3. WokenInv => SetThenWake
    BY DEF WokenInv, SetThenWake, SleepersAreWoken, WritesOver
<1> QED
    BY <1>1, <1>2, <1>3, PTL DEF Spec

-----------------------------------------------------------------------------
(* What lab_uio.c promises to one process that reads or polls its device,  *)
(* for any number of interrupts: every event is accounted for between the  *)
(* handler's count and user space, and none leaves the process asleep.     *)
(* With two processes both are false: see UioRead_ReportedOnce.cfg.        *)

CONSTANTS Readers, MaxIrqs

VARIABLES handler, nevents, isr, nev, raised, reported, faulted

Uio == INSTANCE UioRead

\* The claim is about one process.
OneReader == \A r, s \in Readers : r = s

UioIdle == \A r \in Readers : pc[r] = "idle"

UioShape ==
    /\ nevents \in Nat /\ raised \in Int
    /\ reported \in Int /\ faulted \in Int
    /\ DOMAIN pc = Readers
    /\ nev \in [Readers -> Nat]
    /\ isr \in {"idle", "wake_up"}

\* my_init resets the count while nobody can have the device open.
UioUnloaded ==
    module \in {"request_irq", "reset"} =>
        UioIdle /\ reported = 0 /\ faulted = 0

\* What the process has read of the count is still there when it subtracts:
\* the handler only adds.
StillThere == \A r \in Readers : pc[r] = "sub" => nev[r] <= nevents

\* The inductive invariant.  Conservation needs StillThere for a count that
\* is never negative, and UioUnloaded for the reset.
UioInv ==
    /\ UioShape /\ UioUnloaded /\ StillThere
    /\ Uio!Conservation /\ Uio!NobodySleepsOnEvents

LEMMA InitUio == Uio!Init => UioInv
BY DEF Uio!Init, UioInv, UioShape, UioUnloaded, UioIdle, StillThere,
       Uio!Conservation, Uio!InHand, Uio!NobodySleepsOnEvents

\* Loading, unloading and the handler.
LEMMA KernelUio ==
    ASSUME UioInv,
           \/ Uio!RequestIrq \/ Uio!ResetEvents \/ Uio!Register
           \/ Uio!FreeIrq \/ Uio!FreeIrqDone \/ Uio!IsrCount \/ Uio!IsrWakeUp
    PROVE  UioInv'
<1> USE DEF UioInv, UioShape, UioUnloaded, UioIdle, StillThere,
            Uio!Conservation, Uio!InHand, Uio!NobodySleepsOnEvents
<1>1. CASE Uio!RequestIrq \/ Uio!Register \/ Uio!FreeIrq \/ Uio!FreeIrqDone
    BY <1>1 DEF Uio!RequestIrq, Uio!Register, Uio!FreeIrq, Uio!FreeIrqDone,
       Uio!LoadVars
<1>2. CASE Uio!ResetEvents
    BY <1>2 DEF Uio!ResetEvents, Uio!LoadVars
<1>3. CASE Uio!IsrCount
    BY <1>3 DEF Uio!IsrCount, Uio!IsrVars
<1>4. CASE Uio!IsrWakeUp
    BY <1>4 DEF Uio!IsrWakeUp, Uio!IsrVars
<1> QED
    BY <1>1, <1>2, <1>3, <1>4

\* read() and poll(): the process subtracts exactly what it takes in hand,
\* and goes to sleep on an empty count only.
LEMMA ReaderUio ==
    ASSUME OneReader, UioInv, NEW r \in Readers,
           \/ Uio!ReadEnter(r) \/ Uio!ReadSignal(r) \/ Uio!Read(r)
           \/ Uio!PollEnter(r) \/ Uio!Poll(r)
    PROVE  UioInv'
<1> USE DEF OneReader, UioInv, UioShape, UioUnloaded, UioIdle, StillThere,
            Uio!Conservation, Uio!InHand, Uio!NobodySleepsOnEvents,
            Uio!ReadVars, Uio!PollVars, Uio!Goto
<1>1. CASE Uio!ReadEnter(r) \/ Uio!ReadSignal(r) \/ Uio!ReadNoSignal(r)
    BY <1>1 DEF Uio!ReadEnter, Uio!ReadSignal, Uio!ReadNoSignal
<1>2. CASE Uio!ReadQueue(r) \/ Uio!ReadTest(r) \/ Uio!ReadWoken(r)
    BY <1>2 DEF Uio!ReadQueue, Uio!ReadTest, Uio!ReadWoken
<1>3. CASE Uio!ReadEvents(r)
    BY <1>3 DEF Uio!ReadEvents
<1>4. CASE Uio!ReadSub(r)
    BY <1>4 DEF Uio!ReadSub
<1>5. CASE Uio!ReadCopy(r)
    BY <1>5 DEF Uio!ReadCopy
<1>6. CASE Uio!PollEnter(r) \/ Uio!PollWait(r) \/ Uio!PollTest(r)
           \/ Uio!PollWoken(r)
    BY <1>6 DEF Uio!PollEnter, Uio!PollWait, Uio!PollTest, Uio!PollWoken
<1> QED
    BY <1>1, <1>2, <1>3, <1>4, <1>5, <1>6 DEF Uio!Read, Uio!Poll

LEMMA StutterUio == UioInv /\ UNCHANGED Uio!vars => UioInv'
BY DEF UioInv, UioShape, UioUnloaded, UioIdle, StillThere, Uio!Conservation,
       Uio!InHand, Uio!NobodySleepsOnEvents, Uio!vars

THEOREM UioInvariance == ASSUME OneReader PROVE Uio!Spec => []UioInv
<1>1. UioInv /\ [Uio!Next]_(Uio!vars) => UioInv'
    BY OneReader, KernelUio, ReaderUio, StutterUio DEF Uio!Next
<1> QED
    BY <1>1, InitUio, PTL DEF Uio!Spec

\* An event counted by my_interrupt is in nevents, in the process's hands,
\* reported to it, or gone with a failed copy_to_user.
THEOREM EventsAccountedFor ==
    ASSUME OneReader PROVE Uio!Spec => []Uio!Conservation
<1>1. Uio!Spec => []UioInv
    BY UioInvariance
<1> QED
    BY <1>1, PTL DEF UioInv

\* The process does not sleep on an event: it has been woken, or the handler
\* that counted the event is about to wake it.
THEOREM SleeperIsWoken ==
    ASSUME OneReader PROVE Uio!Spec => []Uio!NobodySleepsOnEvents
<1>1. Uio!Spec => []UioInv
    BY UioInvariance
<1> QED
    BY <1>1, PTL DEF UioInv

LEMMA PartsBound ==
    ASSUME NEW n \in Nat, NEW h \in Nat, NEW r \in Nat, NEW f \in Nat
    PROVE  r <= n + h + r + f /\ f <= n + h + r + f
OBVIOUS

\* The counts stay within the interrupts that came: nevents is never negative,
\* as it is with two processes, and nothing is reported that did not happen.
THEOREM UioTypeCorrect ==
    ASSUME OneReader, MaxIrqs \in Nat PROVE Uio!Spec => []Uio!TypeOK
<1> DEFINE Inv == Uio!TypeOK /\ nevents <= raised
<1>1. Uio!Init => Inv
    <2> SUFFICES ASSUME Uio!Init PROVE Inv
        OBVIOUS
    <2>1. handler \in BOOLEAN
        BY DEF Uio!Init
    <2> QED
        BY <2>1 DEF Uio!Init, Uio!TypeOK
<1>2. UioInv /\ UioInv' /\ Inv /\ [Uio!Next]_(Uio!vars) => Inv'
    <2> SUFFICES ASSUME UioInv, UioInv', Inv, [Uio!Next]_(Uio!vars)
                 PROVE  Inv'
        OBVIOUS
    <2> USE DEF Uio!TypeOK
    <2>1. CASE \/ Uio!RequestIrq \/ Uio!Register \/ Uio!FreeIrq
               \/ Uio!FreeIrqDone \/ UNCHANGED Uio!vars
        <3>1. handler' \in BOOLEAN
            BY <2>1 DEF Uio!RequestIrq, Uio!Register, Uio!FreeIrq,
               Uio!FreeIrqDone, Uio!vars
        <3>2. UNCHANGED <<nevents, raised, isr, pc, nev, woken, reported,
                          faulted>>
            BY <2>1 DEF Uio!RequestIrq, Uio!Register, Uio!FreeIrq,
               Uio!FreeIrqDone, Uio!LoadVars, Uio!vars
        <3>3. module' \in {"request_irq", "reset", "register", "failed",
                           "live", "free_irq", "gone"}
            BY <2>1 DEF Uio!RequestIrq, Uio!Register, Uio!FreeIrq,
               Uio!FreeIrqDone, Uio!vars
        <3> QED
            BY <3>1, <3>2, <3>3
    <2>2. CASE Uio!ResetEvents
        BY <2>2 DEF Uio!ResetEvents, Uio!LoadVars
    <2>3. CASE Uio!IsrCount \/ Uio!IsrWakeUp
        BY <2>3 DEF Uio!IsrCount, Uio!IsrWakeUp, Uio!IsrVars
    <2>4. ASSUME NEW r \in Readers, Uio!ReadCopy(r) PROVE Inv'
        <3>1. reported' \in Nat /\ faulted' \in Nat
            BY <2>4 DEF Uio!ReadCopy
        <3>2. reported' <= raised' /\ faulted' <= raised'
            <4> DEFINE hand == IF pc'[r] = "copy" THEN nev'[r] ELSE 0
            <4>1. raised' = nevents' + hand + reported' + faulted'
                BY DEF UioInv, Uio!Conservation, Uio!InHand
            <4>2. nevents' \in Nat /\ hand \in Nat /\ raised' \in Int
                BY DEF UioInv, UioShape
            <4> HIDE DEF hand
            <4> QED
                BY <3>1, <4>1, <4>2, PartsBound
        <3> QED
            BY <2>4, <3>1, <3>2 DEF Uio!ReadCopy, Uio!ReadVars, Uio!Goto
    <2>5. ASSUME NEW r \in Readers,
                 \/ Uio!ReadEnter(r) \/ Uio!ReadSignal(r) \/ Uio!ReadQueue(r)
                 \/ Uio!ReadTest(r) \/ Uio!ReadWoken(r) \/ Uio!ReadNoSignal(r)
          PROVE  Inv'
        BY <2>5 DEF Uio!ReadEnter, Uio!ReadSignal, Uio!ReadQueue,
           Uio!ReadTest, Uio!ReadWoken, Uio!ReadNoSignal, Uio!ReadVars,
           Uio!Goto
    <2>6. ASSUME NEW r \in Readers, Uio!ReadEvents(r) \/ Uio!ReadSub(r)
          PROVE  Inv'
        BY <2>6 DEF Uio!ReadEvents, Uio!ReadSub, Uio!ReadVars, Uio!Goto,
           UioInv, StillThere
    <2>7. ASSUME NEW r \in Readers, Uio!PollEnter(r) \/ Uio!Poll(r)
          PROVE  Inv'
        BY <2>7 DEF Uio!PollEnter, Uio!Poll, Uio!PollWait, Uio!PollTest,
           Uio!PollWoken, Uio!PollVars, Uio!Goto
    <2> QED
        BY <2>1, <2>2, <2>3, <2>4, <2>5, <2>6, <2>7 DEF Uio!Next, Uio!Read
<1> QED
    BY <1>1, <1>2, UioInvariance, PTL DEF Uio!Spec

=============================================================================
