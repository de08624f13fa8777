-------------------------- MODULE CharDeviceProofs --------------------------
(***************************************************************************)
(* What the drivers keep while they load, undo and unload, and what they   *)
(* owe to a process that has one of the devices open, for any sets of      *)
(* files and buffers, any size of the device and any number of opens.      *)
(*                                                                         *)
(* First the tables of LoadOrders are shown to be in order, each by        *)
(* itself; then the invariants of CharDevice from that order, for all      *)
(* drivers alike.  The theorems are about the code with Exclusive, what    *)
(* lab_cache.c and lab_firmware_chardev.c need of their users.             *)
(***************************************************************************)
EXTENDS CharDevice, SequenceTheorems, FiniteSetTheorems, TLAPS

Exclusive ==
    /\ Labs \cap {"cache"} \subseteq OneOpen
    /\ Labs \cap {"fwchar"} \subseteq LoadFirst

\* The labs with a buffer of each open's own.
PerOpen == {"memory", "cache"}

\* What a release takes away.
Freed(thing) == {thing} \cup Parts(thing)

\* What sample_char_driver.c and basic_dma.c release without having got it.
Unsure(l) ==
    IF l = "sample" THEN {"region"} ELSE IF l = "dma" THEN {"poolbuf"} ELSE {}

-----------------------------------------------------------------------------
(* The order of a table *)

\* Before stage k of s the thing of stage i may be held, ...
MayHold(s, i, k) ==
    /\ i \in 1..Len(s) /\ i < k /\ s[i].fails # "put"
    /\ \A j \in 1..Len(s) :
          i < j /\ j < k /\ s[j].fails = "put" =>
              s[i].thing \notin Freed(s[j].thing)

\* ... and must be, unless nobody looked whether the stage failed.
MustHold(s, i, k) == MayHold(s, i, k) /\ s[i].fails # "ignored"

\* Every stage that releases a thing has it.
PutsHeld(l, s) ==
    \A k \in 1..Len(s) :
        s[k].fails = "put" =>
            \/ s[k].thing \in Unsure(l)
            \/ \E i \in 1..Len(s) :
                  MustHold(s, i, k) /\ s[i].thing = s[k].thing

\* What may be held has what it needs, and a stage that releases a thing does
\* not take it from another.
NeedsMet(l, s) ==
    \A i \in 1..Len(s), k \in 1..(Len(s) + 1) :
        MayHold(s, i, k) =>
            \A n \in Needs(l, s[i].thing) :
                \E j \in 1..Len(s) : MustHold(s, j, k) /\ s[j].thing = n

\* All that there is.
Names == {"add", "bar", "baz", "cache", "cancel", "cdev", "class",
          "coherent", "del", "del_sync", "device", "devmem", "firmware",
          "foo", "forward", "fwdev", "group", "info", "kbuf", "kobject",
          "kset", "map", "mapping", "mask", "misc", "mod", "platform",
          "pool", "poolbuf", "queue", "ramdisk", "region", "start", "uio",
          "uiodev", "usb", "width"}

\* The list p releases what may be held before stage k, all but left, each
\* thing once, nothing that is not held, and no thing before what needs it.
Undoes(l, s, k, p, left) ==
    /\ p \in Seq(Names)
    /\ \A i \in 1..Len(s) :
          MayHold(s, i, k) =>
              \/ s[i].thing \in left
              \/ \E j \in 1..Len(p) : s[i].thing \in Freed(p[j])
    /\ \A j \in 1..Len(p) :
          \/ p[j] \in Unsure(l)
          \/ \E i \in 1..Len(s) : MustHold(s, i, k) /\ s[i].thing = p[j]
    /\ \A i, j \in 1..Len(p) : i < j => p[j] \notin Freed(p[i])
    /\ l # "sample" =>
          \A i \in 1..Len(s), j \in 1..Len(p) :
              MayHold(s, i, k) /\ Needs(l, s[i].thing) \cap Freed(p[j]) # {} =>
                  \E h \in 1..j : s[i].thing \in Freed(p[h])

\* Left and Node, of any lab.
LeftBy(l, failed) ==
    IF l = "fwchar" /\ failed = "firmware"
    THEN {"region", "cdev", "ramdisk", "map", "class", "device"}
    ELSE IF l = "queue" /\ failed = "misc" THEN {"queue"}
    ELSE IF l = "dma" /\ failed = "mask" THEN {"misc", "ramdisk"}
    ELSE IF l = "dma" /\ failed = "width" THEN {"misc", "ramdisk", "mask"}
    ELSE IF l = "dma" /\ failed = "none" THEN {"mask", "width"}
    ELSE {}

NodeOf(l) ==
    IF l \in {"udev", "cache", "fwchar"} THEN "device"
    ELSE IF l \in {"misc", "samplemisc"} THEN "misc"
    ELSE IF l \in {"plain", "dynamic", "memory", "sample"} THEN "map"
    ELSE "none"

\* What leads a process to the device comes last, but for fwchar, and behind
\* it there is the ramdisk, which one stage at most gets.
Reached(l, s) ==
    /\ \A i \in 1..Len(s) :
          s[i].thing = NodeOf(l) => i = Len(s) \/ l = "fwchar"
    /\ NodeOf(l) # "none" /\ l \notin PerOpen =>
          \E i \in 1..Len(s) :
              MustHold(s, i, Len(s) + 1) /\ s[i].thing = "ramdisk"
    /\ \A i, j \in 1..Len(s) :
          s[i].thing = "ramdisk" =>
              l \notin PerOpen /\ (s[j].thing = "ramdisk" => i = j)
    /\ NodeOf(l) = "none" => \A i \in 1..Len(s) : s[i].thing # "none"

\* A table s with the releases e at exit: every stage that can fail undoes
\* what the stages before it have done, as far as the code does.
InOrder(l, s, e) ==
    /\ Len(s) \in Nat \ {0}
    /\ PutsHeld(l, s) /\ (l # "sample" => NeedsMet(l, s)) /\ Reached(l, s)
    /\ \A k \in 1..Len(s) :
          /\ s[k].fails \in {"never", "stop", "ignored", "put"}
          /\ s[k].fails = "stop" =>
                /\ s[k].thing # "none"
                /\ Undoes(l, s, k, s[k].undo, LeftBy(l, s[k].thing))
    /\ Undoes(l, s, Len(s) + 1, e, LeftBy(l, "none"))

-----------------------------------------------------------------------------
(* Each table is in order. *)

\* The cases of Needs and Parts one after the other.
LEMMA NeedsRead ==
    \A l, t : Needs(l, t) =
        IF t = "map"
        THEN {"cdev", "region"} \cup
             (IF l \in {"memory", "cache"} THEN {} ELSE {"ramdisk"})
        ELSE IF t = "misc" THEN {"ramdisk"}
        ELSE IF t = "width" THEN {"mask"}
        ELSE IF t = "device" THEN {"class", "map"}
        ELSE IF t = "firmware"
             THEN IF l = "fwchar" THEN {"device"} ELSE {"fwdev"}
        ELSE IF t = "uiodev" THEN {"devmem"}
        ELSE IF t = "uio" THEN {"uiodev", "info"}
        ELSE IF t \in {"coherent", "pool"} THEN {"misc"}
        ELSE IF t = "mapping" THEN {"kbuf"}
        ELSE IF t = "poolbuf" THEN {"pool"}
        ELSE IF t \in {"foo", "bar", "baz"} THEN {"kset"}
        ELSE IF t = "group" THEN {"kobject"}
        ELSE {}
BY DEF Needs

LEMMA PartsRead ==
    \A t : Freed(t) =
        IF t = "cdev" THEN {"cdev", "map"}
        ELSE IF t = "kobject" THEN {"kobject", "group"}
        ELSE {t}
BY DEF Freed, Parts

LEMMA CdevInOrder ==
    ASSUME NEW l \in {"plain", "dynamic"}
    PROVE  InOrder(l, CdevInit, CdevExit)
<1> DEFINE s == CdevInit
<1>s. /\ Len(s) = 4 /\ s[1].thing = "region" /\ s[2].thing = "cdev"
      /\ s[3].thing = "ramdisk" /\ s[4].thing = "map"
      /\ s[1].fails = "stop" /\ s[2].fails = "stop"
      /\ s[3].fails = "never" /\ s[4].fails = "stop" /\ s[1].undo = <<>>
      /\ s[2].undo = <<"region">>
      /\ s[4].undo = <<"cdev", "region", "ramdisk">>
    BY DEF CdevInit, Stage, Get, Try
<1> HIDE DEF s
<1>u1. Undoes(l, s, 1, s[1].undo, LeftBy(l, s[1].thing))
    BY <1>s, NeedsRead, PartsRead
       DEF Undoes, LeftBy, Unsure, MayHold, MustHold, Names
<1>u2. Undoes(l, s, 2, s[2].undo, LeftBy(l, s[2].thing))
    BY <1>s, NeedsRead, PartsRead
       DEF Undoes, LeftBy, Unsure, MayHold, MustHold, Names
<1>u3. Undoes(l, s, 4, s[4].undo, LeftBy(l, s[4].thing))
    BY <1>s, NeedsRead, PartsRead
       DEF Undoes, LeftBy, Unsure, MayHold, MustHold, Names
<1>u4. Undoes(l, s, Len(s) + 1, CdevExit, LeftBy(l, "none"))
    BY <1>s, NeedsRead, PartsRead
       DEF Undoes, LeftBy, Unsure, MayHold, MustHold, Names, CdevExit
<1>p. PutsHeld(l, s)
    BY <1>s, PartsRead DEF PutsHeld, Unsure, MayHold, MustHold
<1>r. Reached(l, s)
    BY <1>s, PartsRead DEF Reached, NodeOf, PerOpen, MayHold, MustHold
<1>m. NeedsMet(l, s)
    BY <1>s, NeedsRead, PartsRead DEF NeedsMet, MayHold, MustHold
<1>k. \A k \in 1..Len(s) :
          s[k].fails = "stop" => k = 1 \/ k = 2 \/ k = 4
    BY <1>s
<1>f. \A k \in 1..Len(s) :
          s[k].fails \in {"never", "stop", "ignored", "put"}
    BY <1>s
<1> QED
    BY <1>s, <1>u1, <1>u2, <1>u3, <1>u4, <1>p, <1>r, <1>m, <1>k, <1>f
       DEF InOrder, s

LEMMA UdevInOrder ==
    InOrder("udev", UdevInit, UdevExit)
<1> DEFINE s == UdevInit
<1>s. /\ Len(s) = 6 /\ s[1].thing = "region" /\ s[2].thing = "cdev"
      /\ s[3].thing = "ramdisk" /\ s[4].thing = "map"
      /\ s[5].thing = "class" /\ s[6].thing = "device"
      /\ s[1].fails = "stop" /\ s[2].fails = "stop"
      /\ s[3].fails = "never" /\ s[4].fails = "stop"
      /\ s[5].fails = "never" /\ s[6].fails = "never"
      /\ s[1].undo = <<>> /\ s[2].undo = <<"region">>
      /\ s[4].undo = <<"cdev", "region", "ramdisk">>
    BY DEF UdevInit, CdevInit, Stage, Get, Try
<1> HIDE DEF s
<1>u1. Undoes("udev", s, 1, s[1].undo, LeftBy("udev", s[1].thing))
    BY <1>s, NeedsRead, PartsRead
       DEF Undoes, LeftBy, Unsure, MayHold, MustHold, Names
<1>u2. Undoes("udev", s, 2, s[2].undo, LeftBy("udev", s[2].thing))
    BY <1>s, NeedsRead, PartsRead
       DEF Undoes, LeftBy, Unsure, MayHold, MustHold, Names
<1>u3. Undoes("udev", s, 4, s[4].undo, LeftBy("udev", s[4].thing))
    BY <1>s, NeedsRead, PartsRead
       DEF Undoes, LeftBy, Unsure, MayHold, MustHold, Names
<1>z. /\ Len(UdevExit) = 5
      /\ UdevExit[1] = "device" /\ UdevExit[2] = "class"
      /\ UdevExit[3] = "cdev" /\ UdevExit[4] = "region"
      /\ UdevExit[5] = "ramdisk"
      /\ UdevExit \in Seq(Names)
    BY DEF UdevExit, CdevExit, Names
<1>u4. Undoes("udev", s, Len(s) + 1, UdevExit, LeftBy("udev", "none"))
    <2> DEFINE p == UdevExit
    <2>1. \A i \in 1..Len(s) :
             MayHold(s, i, Len(s) + 1) =>
                 \E j \in 1..Len(p) : s[i].thing \in Freed(p[j])
        BY <1>s, PartsRead, <1>z DEF MayHold
    <2>2. \A j \in 1..Len(p) : \E i \in 1..Len(s) :
             MustHold(s, i, Len(s) + 1) /\ s[i].thing = p[j]
        BY <1>s, PartsRead, <1>z DEF MustHold, MayHold
    <2>3. \A i, j \in 1..Len(p) : i < j => p[j] \notin Freed(p[i])
        BY PartsRead, <1>z
    <2>4. \A i \in 1..Len(s), j \in 1..Len(p) :
             Needs("udev", s[i].thing) \cap Freed(p[j]) # {} =>
                 \E h \in 1..j : s[i].thing \in Freed(p[h])
        BY <1>s, NeedsRead, PartsRead, <1>z
    <2> QED
        BY <2>1, <2>2, <2>3, <2>4, <1>z DEF Undoes
<1>p. PutsHeld("udev", s)
    BY <1>s, PartsRead DEF PutsHeld, Unsure, MayHold, MustHold
<1>r. Reached("udev", s)
    BY <1>s, PartsRead DEF Reached, NodeOf, PerOpen, MayHold, MustHold
<1>m. NeedsMet("udev", s)
    BY <1>s, NeedsRead, PartsRead DEF NeedsMet, MayHold, MustHold
<1>k. \A k \in 1..Len(s) :
          s[k].fails = "stop" => k = 1 \/ k = 2 \/ k = 4
    BY <1>s
<1>f. \A k \in 1..Len(s) :
          s[k].fails \in {"never", "stop", "ignored", "put"}
    BY <1>s
<1> QED
    BY <1>s, <1>u1, <1>u2, <1>u3, <1>u4, <1>p, <1>r, <1>m, <1>k, <1>f
       DEF InOrder, s

LEMMA MiscInOrder ==
    ASSUME NEW l \in {"misc", "samplemisc"}
    PROVE  InOrder(l, MiscInit, MiscExit)
<1> DEFINE s == MiscInit
<1>s. /\ Len(s) = 2 /\ s[1].thing = "ramdisk" /\ s[2].thing = "misc"
      /\ s[1].fails = "never" /\ s[2].fails = "stop"
      /\ s[2].undo = <<"ramdisk">>
    BY DEF MiscInit, Stage, Get, Try
<1> HIDE DEF s
<1>u1. Undoes(l, s, 2, s[2].undo, LeftBy(l, s[2].thing))
    BY <1>s, NeedsRead, PartsRead
       DEF Undoes, LeftBy, Unsure, MayHold, MustHold, Names
<1>u2. Undoes(l, s, Len(s) + 1, MiscExit, LeftBy(l, "none"))
    BY <1>s, NeedsRead, PartsRead
       DEF Undoes, LeftBy, Unsure, MayHold, MustHold, Names, MiscExit
<1>2. PutsHeld(l, s) /\ Reached(l, s) /\ NeedsMet(l, s)
    BY <1>s, NeedsRead, PartsRead
       DEF PutsHeld, NodeOf, Unsure, NeedsMet, Reached, MayHold, MustHold,
       PerOpen
<1>k. \A k \in 1..Len(s) :
          s[k].fails = "stop" => k = 2
    BY <1>s
<1>f. \A k \in 1..Len(s) :
          s[k].fails \in {"never", "stop", "ignored", "put"}
    BY <1>s
<1> QED
    BY <1>s, <1>u1, <1>u2, <1>2, <1>k, <1>f DEF InOrder, s

LEMMA MemoryInOrder ==
    InOrder("memory", MemoryInit, MemoryExit)
<1> DEFINE s == MemoryInit
<1>s. /\ Len(s) = 3 /\ s[1].thing = "region" /\ s[2].thing = "cdev"
      /\ s[3].thing = "map" /\ s[1].fails = "stop"
      /\ s[2].fails = "stop" /\ s[3].fails = "stop" /\ s[1].undo = <<>>
      /\ s[2].undo = <<"region">> /\ s[3].undo = <<"cdev", "region">>
    BY DEF MemoryInit, Stage, Try
<1> HIDE DEF s
<1>u1. Undoes("memory", s, 1, s[1].undo, LeftBy("memory", s[1].thing))
    BY <1>s, NeedsRead, PartsRead
       DEF Undoes, LeftBy, Unsure, MayHold, MustHold, Names
<1>u2. Undoes("memory", s, 2, s[2].undo, LeftBy("memory", s[2].thing))
    BY <1>s, NeedsRead, PartsRead
       DEF Undoes, LeftBy, Unsure, MayHold, MustHold, Names
<1>u3. Undoes("memory", s, 3, s[3].undo, LeftBy("memory", s[3].thing))
    BY <1>s, NeedsRead, PartsRead
       DEF Undoes, LeftBy, Unsure, MayHold, MustHold, Names
<1>u4. Undoes("memory", s, Len(s) + 1, MemoryExit, LeftBy("memory", "none"))
    BY <1>s, NeedsRead, PartsRead
       DEF Undoes, LeftBy, Unsure, MayHold, MustHold, Names, MemoryExit
<1>2. PutsHeld("memory", s) /\ Reached("memory", s) /\ NeedsMet("memory", s)
    BY <1>s, NeedsRead, PartsRead
       DEF PutsHeld, NodeOf, Unsure, NeedsMet, Reached, MayHold, MustHold,
       PerOpen
<1>k. \A k \in 1..Len(s) :
          s[k].fails = "stop" => k = 1 \/ k = 2 \/ k = 3
    BY <1>s
<1>f. \A k \in 1..Len(s) :
          s[k].fails \in {"never", "stop", "ignored", "put"}
    BY <1>s
<1> QED
    BY <1>s, <1>u1, <1>u2, <1>u3, <1>u4, <1>2, <1>k, <1>f DEF InOrder, s

LEMMA CacheInOrder ==
    InOrder("cache", CacheInit, CacheExit)
<1> DEFINE s == CacheInit
<1>s. /\ Len(s) = 6 /\ s[1].thing = "cache" /\ s[2].thing = "region"
      /\ s[3].thing = "cdev" /\ s[4].thing = "map"
      /\ s[5].thing = "class" /\ s[6].thing = "device"
      /\ s[1].fails = "stop" /\ s[2].fails = "stop"
      /\ s[3].fails = "stop" /\ s[4].fails = "stop"
      /\ s[5].fails = "never" /\ s[6].fails = "never"
      /\ s[1].undo = <<>> /\ s[2].undo = <<"cache">>
      /\ s[3].undo = <<"region", "cache">>
      /\ s[4].undo = <<"cdev", "region", "cache">>
    BY DEF CacheInit, Stage, Get, Try
<1> HIDE DEF s
<1>u1. Undoes("cache", s, 1, s[1].undo, LeftBy("cache", s[1].thing))
    BY <1>s, NeedsRead, PartsRead
       DEF Undoes, LeftBy, Unsure, MayHold, MustHold, Names
<1>u2. Undoes("cache", s, 2, s[2].undo, LeftBy("cache", s[2].thing))
    BY <1>s, NeedsRead, PartsRead
       DEF Undoes, LeftBy, Unsure, MayHold, MustHold, Names
<1>u3. Undoes("cache", s, 3, s[3].undo, LeftBy("cache", s[3].thing))
    BY <1>s, NeedsRead, PartsRead
       DEF Undoes, LeftBy, Unsure, MayHold, MustHold, Names
<1>u4. Undoes("cache", s, 4, s[4].undo, LeftBy("cache", s[4].thing))
    <2> DEFINE p == s[4].undo
    <2>p. /\ p \in Seq(Names) /\ Len(p) = 3
          /\ p[1] = "cdev" /\ p[2] = "region" /\ p[3] = "cache"
        BY <1>s DEF Names
    <2> HIDE DEF p
    <2>1. \A i \in 1..Len(s) :
             MayHold(s, i, 4) =>
                 \E j \in 1..Len(p) : s[i].thing \in Freed(p[j])
        BY <1>s, PartsRead, <2>p DEF MayHold
    <2>2. \A j \in 1..Len(p) : \E i \in 1..Len(s) :
             MustHold(s, i, 4) /\ s[i].thing = p[j]
        BY <1>s, PartsRead, <2>p DEF MustHold, MayHold
    <2>3. \A i, j \in 1..Len(p) : i < j => p[j] \notin Freed(p[i])
        BY PartsRead, <2>p
    <2>4. \A i \in 1..3, j \in 1..Len(p) :
             Needs("cache", s[i].thing) \cap Freed(p[j]) = {}
        BY <1>s, NeedsRead, PartsRead, <2>p
    <2>5. \A i \in 1..Len(s) : MayHold(s, i, 4) => i \in 1..3
        BY <1>s DEF MayHold
    <2> QED
        BY <2>1, <2>2, <2>3, <2>4, <2>5, <2>p DEF Undoes, p
<1>z. /\ Len(CacheExit) = 5
      /\ CacheExit[1] = "device" /\ CacheExit[2] = "class"
      /\ CacheExit[3] = "cdev" /\ CacheExit[4] = "region"
      /\ CacheExit[5] = "cache"
      /\ CacheExit \in Seq(Names)
    BY DEF CacheExit, Names
<1>u5. Undoes("cache", s, Len(s) + 1, CacheExit, LeftBy("cache", "none"))
    <2> DEFINE p == CacheExit
    <2>1. \A i \in 1..Len(s) :
             MayHold(s, i, Len(s) + 1) =>
                 \E j \in 1..Len(p) : s[i].thing \in Freed(p[j])
        BY <1>s, PartsRead, <1>z DEF MayHold
    <2>2. \A j \in 1..Len(p) : \E i \in 1..Len(s) :
             MustHold(s, i, Len(s) + 1) /\ s[i].thing = p[j]
        BY <1>s, PartsRead, <1>z DEF MustHold, MayHold
    <2>3. \A i, j \in 1..Len(p) : i < j => p[j] \notin Freed(p[i])
        BY PartsRead, <1>z
    <2>4. \A i \in 1..Len(s), j \in 1..Len(p) :
             Needs("cache", s[i].thing) \cap Freed(p[j]) # {} =>
                 \E h \in 1..j : s[i].thing \in Freed(p[h])
        BY <1>s, NeedsRead, PartsRead, <1>z
    <2> QED
        BY <2>1, <2>2, <2>3, <2>4, <1>z DEF Undoes
<1>p. PutsHeld("cache", s)
    BY <1>s, PartsRead DEF PutsHeld, Unsure, MayHold, MustHold
<1>r. Reached("cache", s)
    BY <1>s, PartsRead DEF Reached, NodeOf, PerOpen, MayHold, MustHold
<1>h. \A i \in 1..Len(s), k \in 1..(Len(s) + 1) :
          /\ MayHold(s, i, k) => i < k
          /\ i < k => MustHold(s, i, k)
    BY <1>s DEF MayHold, MustHold
<1>m. NeedsMet("cache", s)
    <2> SUFFICES ASSUME NEW i \in 1..Len(s), NEW k \in 1..(Len(s) + 1),
                        i < k, NEW n \in Needs("cache", s[i].thing)
                 PROVE  \E j \in 1..Len(s) : j < k /\ s[j].thing = n
        BY <1>h DEF NeedsMet
    <2>1. Len(s) = 6 /\ (i = 4 \/ i = 6)
        BY <1>s, NeedsRead
    <2>2. CASE i = 4
        BY <1>s, <2>2, NeedsRead
    <2>3. CASE i = 6
        BY <1>s, <2>3, NeedsRead
    <2> QED
        BY <2>1, <2>2, <2>3
<1>k. \A k \in 1..Len(s) : s[k].fails = "stop" =>
          k = 1 \/ k = 2 \/ k = 3 \/ k = 4
    BY <1>s
<1>f. \A k \in 1..Len(s) :
          s[k].fails \in {"never", "stop", "ignored", "put"}
    <2> SUFFICES ASSUME NEW k \in 1..Len(s)
                 PROVE  s[k].fails \in {"never", "stop"}
        OBVIOUS
    <2>1. CASE k \in 1..4
        BY <1>s, <2>1
    <2>2. CASE k = 5
        BY <1>s, <2>2
    <2>3. CASE k = 6
        BY <1>s, <2>3
    <2>4. Len(s) = 6
        BY <1>s
    <2> QED
        BY <2>1, <2>2, <2>3, <2>4
<1>n. /\ s[1].thing # "none" /\ s[2].thing # "none"
      /\ s[3].thing # "none" /\ s[4].thing # "none" /\ Len(s) = 6
    BY <1>s
<1>o. ASSUME NEW k \in 1..Len(s), s[k].fails = "stop"
      PROVE  /\ s[k].thing # "none"
             /\ Undoes("cache", s, k, s[k].undo, LeftBy("cache", s[k].thing))
    BY <1>u1, <1>u2, <1>u3, <1>u4, <1>k, <1>n, <1>o
<1>e. Undoes("cache", s, Len(s) + 1, CacheExit, LeftBy("cache", "none"))
    BY <1>u5, <1>n
<1> QED
    BY <1>n, <1>o, <1>e, <1>p, <1>r, <1>m, <1>f DEF InOrder, s

LEMMA SampleInOrder ==
    InOrder("sample", SampleInit, SampleExit)
<1> DEFINE s == SampleInit
<1>s. /\ Len(s) = 4 /\ s[1].thing = "ramdisk" /\ s[2].thing = "region"
      /\ s[3].thing = "cdev" /\ s[4].thing = "map"
      /\ s[1].fails = "never" /\ s[2].fails = "ignored"
      /\ s[3].fails = "never" /\ s[4].fails = "ignored"
    BY DEF SampleInit, Stage, Get, Hope
<1> HIDE DEF s
<1>1. /\ Undoes("sample", s, Len(s) + 1, SampleExit, LeftBy("sample", "none"))
    BY <1>s, NeedsRead, PartsRead
       DEF Undoes, LeftBy, Unsure, MayHold, MustHold, Names, SampleExit
<1>p. PutsHeld("sample", s)
    BY <1>s, PartsRead DEF PutsHeld, Unsure, MayHold, MustHold
<1>r. Reached("sample", s)
    BY <1>s, PartsRead DEF Reached, NodeOf, PerOpen, MayHold, MustHold
<1>k. \A k \in 1..Len(s) : s[k].fails # "stop"
    BY <1>s
<1>f. \A k \in 1..Len(s) :
          s[k].fails \in {"never", "stop", "ignored", "put"}
    BY <1>s
<1> QED
    BY <1>s, <1>1, <1>p, <1>r, <1>k, <1>f DEF InOrder, s

LEMMA FwcharInOrder ==
    InOrder("fwchar", FwcharInit, FwcharExit)
<1> DEFINE s == FwcharInit
<1>s. /\ Len(s) = 7 /\ s[1].thing = "region" /\ s[2].thing = "cdev"
      /\ s[3].thing = "ramdisk" /\ s[4].thing = "map"
      /\ s[5].thing = "class" /\ s[6].thing = "device"
      /\ s[7].thing = "firmware" /\ s[1].fails = "stop"
      /\ s[2].fails = "stop" /\ s[3].fails = "never"
      /\ s[4].fails = "stop" /\ s[5].fails = "never"
      /\ s[6].fails = "never" /\ s[7].fails = "stop" /\ s[1].undo = <<>>
      /\ s[2].undo = <<"region">>
      /\ s[4].undo = <<"cdev", "region", "ramdisk">> /\ s[7].undo = <<>>
    BY DEF FwcharInit, UdevInit, CdevInit, Stage, Get, Try
<1> HIDE DEF s
<1>z. /\ Len(FwcharExit) = 6 /\ FwcharExit[1] = "firmware"
      /\ FwcharExit[2] = "device" /\ FwcharExit[3] = "class"
      /\ FwcharExit[4] = "cdev" /\ FwcharExit[5] = "region"
      /\ FwcharExit[6] = "ramdisk" /\ FwcharExit \in Seq(Names)
    BY DEF FwcharExit, UdevExit, CdevExit, Names
<1>3. Undoes("fwchar", s, 1, s[1].undo, LeftBy("fwchar", s[1].thing))
    BY <1>s, NeedsRead, PartsRead
       DEF Undoes, LeftBy, Unsure, MayHold, MustHold, Names
<1>4. Undoes("fwchar", s, 2, s[2].undo, LeftBy("fwchar", s[2].thing))
    BY <1>s, NeedsRead, PartsRead
       DEF Undoes, LeftBy, Unsure, MayHold, MustHold, Names
<1>5. Undoes("fwchar", s, 4, s[4].undo, LeftBy("fwchar", s[4].thing))
    BY <1>s, NeedsRead, PartsRead
       DEF Undoes, LeftBy, Unsure, MayHold, MustHold, Names
<1>6. Undoes("fwchar", s, 7, s[7].undo, LeftBy("fwchar", s[7].thing))
    BY <1>s, NeedsRead, PartsRead
       DEF Undoes, LeftBy, Unsure, MayHold, MustHold, Names
<1>7. Undoes("fwchar", s, Len(s) + 1, FwcharExit, LeftBy("fwchar", "none"))
    <2> DEFINE p == FwcharExit
    <2>1. \A i \in 1..Len(s) :
             MayHold(s, i, Len(s) + 1) =>
                 \E j \in 1..Len(p) : s[i].thing \in Freed(p[j])
        BY <1>s, PartsRead, <1>z DEF MayHold
    <2>2. \A j \in 1..Len(p) :
             \E i \in 1..Len(s) :
                 MustHold(s, i, Len(s) + 1) /\ s[i].thing = p[j]
        BY <1>s, PartsRead, <1>z DEF MustHold, MayHold
    <2>3. \A i, j \in 1..Len(p) : i < j => p[j] \notin Freed(p[i])
        BY PartsRead, <1>z
    <2>n. /\ \A i \in {1, 2, 3, 5} : Needs("fwchar", s[i].thing) = {}
          /\ Needs("fwchar", s[4].thing) = {"cdev", "region", "ramdisk"}
          /\ Needs("fwchar", s[6].thing) = {"class", "map"}
          /\ Needs("fwchar", s[7].thing) = {"device"}
        BY <1>s, NeedsRead
    <2>f. /\ Freed(p[1]) = {"firmware"} /\ Freed(p[2]) = {"device"}
          /\ Freed(p[3]) = {"class"} /\ Freed(p[4]) = {"cdev", "map"}
          /\ Freed(p[5]) = {"region"} /\ Freed(p[6]) = {"ramdisk"}
        BY <1>z, PartsRead
    <2>4. ASSUME NEW i \in 1..Len(s), NEW j \in 1..Len(p),
                 Needs("fwchar", s[i].thing) \cap Freed(p[j]) # {}
          PROVE  \E h \in 1..j : s[i].thing \in Freed(p[h])
        <3>1. i = 4 \/ i = 6 \/ i = 7
            <4>1. i \notin {1, 2, 3, 5}
                BY <2>4, <2>n
            <4>2. i \in 1..7
                BY <1>s
            <4> QED
                BY <4>1, <4>2
        <3>4. CASE i = 4
            <4>1. j # 1 /\ j # 2 /\ j # 3
                BY <3>4, <2>4, <2>n, <2>f
            <4>2. s[4].thing \in Freed(p[4]) /\ 4 \in 1..j
                BY <4>1, <2>f, <1>s, <1>z
            <4> QED
                BY <3>4, <4>2
        <3>6. CASE i = 6
            <4>1. j # 1
                BY <3>6, <2>4, <2>n, <2>f
            <4>2. s[6].thing \in Freed(p[2]) /\ 2 \in 1..j
                BY <4>1, <2>f, <1>s, <1>z
            <4> QED
                BY <3>6, <4>2
        <3>7. CASE i = 7
            <4>1. s[7].thing \in Freed(p[1]) /\ 1 \in 1..j
                BY <2>f, <1>s, <1>z
            <4> QED
                BY <3>7, <4>1
        <3> QED
            BY <3>1, <3>4, <3>6, <3>7
    <2> QED
        BY <2>1, <2>2, <2>3, <2>4, <1>z DEF Undoes
<1>p. PutsHeld("fwchar", s)
    BY <1>s, PartsRead DEF PutsHeld, Unsure, MayHold, MustHold
<1>r. Reached("fwchar", s)
    BY <1>s, PartsRead DEF Reached, NodeOf, PerOpen, MayHold, MustHold
<1>m. NeedsMet("fwchar", s)
    BY <1>s, NeedsRead, PartsRead DEF NeedsMet, MayHold, MustHold
<1>k. \A k \in 1..Len(s) : s[k].fails = "stop" =>
          k = 1 \/ k = 2 \/ k = 4 \/ k = 7
    BY <1>s
<1>f. \A k \in 1..Len(s) :
          s[k].fails \in {"never", "stop", "ignored", "put"}
    BY <1>s
<1> QED
    BY <1>s, <1>p, <1>r, <1>m, <1>3, <1>4, <1>5, <1>6, <1>7, <1>k, <1>f
       DEF InOrder, s

LEMMA QueueInOrder ==
    InOrder("queue", QueueInit, QueueExit)
<1> DEFINE s == QueueInit
<1>s. /\ Len(s) = 3 /\ s[1].thing = "queue" /\ s[2].thing = "ramdisk"
      /\ s[3].thing = "misc" /\ s[1].fails = "never"
      /\ s[2].fails = "never" /\ s[3].fails = "stop"
      /\ s[3].undo = <<"ramdisk">>
    BY DEF QueueInit, MiscInit, Stage, Get, Try
<1> HIDE DEF s
<1>u1. Undoes("queue", s, 3, s[3].undo, LeftBy("queue", s[3].thing))
    BY <1>s, NeedsRead, PartsRead
       DEF Undoes, LeftBy, Unsure, MayHold, MustHold, Names
<1>u2. Undoes("queue", s, Len(s) + 1, QueueExit, LeftBy("queue", "none"))
    BY <1>s, NeedsRead, PartsRead
       DEF Undoes, LeftBy, Unsure, MayHold, MustHold, Names,
       QueueExit, MiscExit
<1>2. PutsHeld("queue", s) /\ Reached("queue", s) /\ NeedsMet("queue", s)
    BY <1>s, NeedsRead, PartsRead
       DEF PutsHeld, NodeOf, Unsure, NeedsMet, Reached, MayHold, MustHold,
       PerOpen
<1>k. \A k \in 1..Len(s) :
          s[k].fails = "stop" => k = 3
    BY <1>s
<1>f. \A k \in 1..Len(s) :
          s[k].fails \in {"never", "stop", "ignored", "put"}
    BY <1>s
<1> QED
    BY <1>s, <1>u1, <1>u2, <1>2, <1>k, <1>f DEF InOrder, s

LEMMA DmaInOrder ==
    InOrder("dma", DmaInit, DmaExit)
<1> DEFINE s == DmaInit
<1>s. /\ Len(s) = 14 /\ s[1].thing = "ramdisk" /\ s[2].thing = "misc"
      /\ s[3].thing = "mask" /\ s[4].thing = "width"
      /\ s[5].thing = "coherent"
      /\ s[6].thing = "coherent" /\ s[7].thing = "kbuf"
      /\ s[8].thing = "mapping" /\ s[9].thing = "mapping"
      /\ s[10].thing = "kbuf" /\ s[11].thing = "pool"
      /\ s[12].thing = "poolbuf" /\ s[13].thing = "poolbuf"
      /\ s[14].thing = "pool" /\ s[1].fails = "never"
      /\ s[2].fails = "stop" /\ s[3].fails = "stop"
      /\ s[4].fails = "stop" /\ s[5].fails = "never" /\ s[6].fails = "put"
      /\ s[7].fails = "never" /\ s[8].fails = "never"
      /\ s[9].fails = "put" /\ s[10].fails = "put"
      /\ s[11].fails = "never" /\ s[12].fails = "ignored"
      /\ s[13].fails = "put" /\ s[14].fails = "put"
      /\ s[2].undo = <<"ramdisk">> /\ s[3].undo = <<>>
      /\ s[4].undo = <<>>
    BY DEF DmaInit, MiscInit, Stage, Get, Hope, Put, Try
<1>a. /\ s[1].fails = "never" /\ s[2].fails = "stop"
      /\ s[3].fails = "stop" /\ s[4].fails = "stop"
      /\ s[5].fails = "never"
      /\ s[7].fails = "never" /\ s[8].fails = "never"
      /\ s[11].fails = "never" /\ Len(s) = 14
    BY DEF DmaInit, MiscInit, Stage, Get, Hope, Put, Try
<1>b. /\ s[1].thing = "ramdisk" /\ s[2].thing = "misc"
      /\ s[3].thing = "mask" /\ s[4].thing = "width"
      /\ s[2].undo = <<"ramdisk">>
    BY DEF DmaInit, MiscInit, Stage, Get, Hope, Put, Try
<1>c. /\ s[5].thing = s[6].thing /\ s[8].thing = s[9].thing
      /\ s[7].thing = s[10].thing /\ s[11].thing = s[14].thing
      /\ s[13].thing = "poolbuf"
    BY DEF DmaInit, MiscInit, Stage, Get, Hope, Put, Try
<1> HIDE DEF s
<1>q. \A j \in 1..Len(s) : s[j].fails = "put" <=> j \in {6, 9, 10, 13, 14}
    BY <1>s
<1>w. /\ Freed(s[6].thing) = {"coherent"} /\ Freed(s[9].thing) = {"mapping"}
      /\ Freed(s[10].thing) = {"kbuf"} /\ Freed(s[13].thing) = {"poolbuf"}
      /\ Freed(s[14].thing) = {"pool"}
    BY <1>s, PartsRead
<1>h. \A i, k \in 1..15 :
          MayHold(s, i, k) <=>
              \/ i \in 1..4 /\ i < k
              \/ i = 5 /\ k = 6
              \/ i = 7 /\ k \in 8..10
              \/ i = 8 /\ k = 9
              \/ i = 11 /\ k \in 12..14
              \/ i = 12 /\ k = 13
    <2> SUFFICES ASSUME NEW i \in 1..15, NEW k \in 1..15
                 PROVE  MayHold(s, i, k) <=>
                            \/ i \in 1..4 /\ i < k
                            \/ i = 5 /\ k = 6
                            \/ i = 7 /\ k \in 8..10
                            \/ i = 8 /\ k = 9
                            \/ i = 11 /\ k \in 12..14
                            \/ i = 12 /\ k = 13
        OBVIOUS
    <2>1. CASE i \in {6, 9, 10, 13, 14, 15}
        BY <2>1, <1>q, <1>s DEF MayHold
    <2>2. CASE i \in 1..4
        <3>1. \A j \in {6, 9, 10, 13, 14} : s[i].thing \notin Freed(s[j].thing)
            BY <2>2, <1>s, <1>w
        <3>2. s[i].fails # "put"
            BY <2>2, <1>q, <1>s
        <3> QED
            BY <2>2, <3>1, <3>2, <1>q, <1>s DEF MayHold
    <2>3. CASE i \in {5, 7, 8}
        BY <2>3, <1>q, <1>s, <1>w DEF MayHold
    <2>4. CASE i \in {11, 12}
        BY <2>4, <1>q, <1>s, <1>w DEF MayHold
    <2> QED
        BY <2>1, <2>2, <2>3, <2>4
<1>j. \A i, k : MayHold(s, i, k) => i \in 1..Len(s)
    BY DEF MayHold
<1>z. /\ Len(DmaExit) = 2 /\ DmaExit[1] = "misc" /\ DmaExit[2] = "ramdisk"
      /\ DmaExit \in Seq(Names)
    BY DEF DmaExit, MiscExit, Names
<1>i. \A k \in 1..15, i \in {1, 2, 3, 4, 5, 7, 8, 11} :
          MustHold(s, i, k) <=> MayHold(s, i, k)
    BY <1>a DEF MustHold
<1>3. Undoes("dma", s, 2, s[2].undo, LeftBy("dma", s[2].thing))
    <2> DEFINE p == s[2].undo
    <2>1. /\ p \in Seq(Names) /\ Len(p) = 1 /\ p[1] = "ramdisk"
          /\ Freed(p[1]) = {"ramdisk"}
        BY <1>b, PartsRead DEF Names
    <2>2. \A i \in 1..Len(s) : MayHold(s, i, 2) <=> i = 1
        BY <1>a, <1>h
    <2>3. MustHold(s, 1, 2)
        BY <1>a, <1>i, <2>2
    <2> HIDE DEF p
    <2>4. Needs("dma", s[1].thing) = {}
        BY <1>b, NeedsRead
    <2>5. Undoes("dma", s, 2, p, LeftBy("dma", s[2].thing))
        BY <1>a, <1>b, <2>1, <2>2, <2>3, <2>4 DEF Undoes
    <2> QED
        BY <2>5 DEF p
<1>4. Undoes("dma", s, 3, s[3].undo, LeftBy("dma", s[3].thing))
    BY <1>s, NeedsRead, PartsRead, <1>h, <1>j, <1>z
       DEF Undoes, LeftBy, Unsure, MustHold, Names
<1>6. Undoes("dma", s, 4, s[4].undo, LeftBy("dma", s[4].thing))
    BY <1>s, NeedsRead, PartsRead, <1>h, <1>j, <1>z
       DEF Undoes, LeftBy, Unsure, MustHold, Names
<1>5. Undoes("dma", s, Len(s) + 1, DmaExit, LeftBy("dma", "none"))
    <2> DEFINE p == DmaExit
    <2>1. \A i \in 1..Len(s) :
             MayHold(s, i, Len(s) + 1) =>
                 \/ s[i].thing \in LeftBy("dma", "none")
                 \/ \E j \in 1..Len(p) : s[i].thing \in Freed(p[j])
        <3>1. \A i \in 1..Len(s) : MayHold(s, i, Len(s) + 1) => i \in 1..4
            BY <1>a, <1>h
        <3>2. /\ s[1].thing \in Freed(p[2]) /\ s[2].thing \in Freed(p[1])
              /\ s[3].thing \in LeftBy("dma", "none")
              /\ s[4].thing \in LeftBy("dma", "none")
            BY <1>b, PartsRead, <1>z DEF LeftBy
        <3> QED
            BY <3>1, <3>2, <1>z
    <2>2. \A j \in 1..Len(p) :
             \E i \in 1..Len(s) :
                 MustHold(s, i, Len(s) + 1) /\ s[i].thing = p[j]
        BY <1>a, <1>b, <1>h, <1>i, <1>z
    <2>3. \A i, j \in 1..Len(p) : i < j => p[j] \notin Freed(p[i])
        BY PartsRead, <1>z
    <2>4. \A i \in 1..Len(s), j \in 1..Len(p) :
             MayHold(s, i, Len(s) + 1)
             /\ Needs("dma", s[i].thing) \cap Freed(p[j]) # {} =>
                 \E h \in 1..j : s[i].thing \in Freed(p[h])
        <3>1. \A i \in 1..Len(s) : MayHold(s, i, Len(s) + 1) => i \in 1..4
            BY <1>a, <1>h
        <3>2. /\ Needs("dma", s[1].thing) = {} /\ Needs("dma", s[3].thing) = {}
              /\ Needs("dma", s[2].thing) = {"ramdisk"}
              /\ Needs("dma", s[4].thing) = {"mask"}
              /\ Freed(p[1]) = {"misc"} /\ s[2].thing = "misc"
              /\ Freed(p[2]) = {"ramdisk"}
            BY <1>b, <1>z, NeedsRead, PartsRead
        <3> QED
            BY <3>1, <3>2, <1>z
    <2> QED
        BY <2>1, <2>2, <2>3, <2>4, <1>z DEF Undoes
<1>p. PutsHeld("dma", s)
    <2>1. /\ MustHold(s, 5, 6) /\ s[5].thing = s[6].thing
          /\ MustHold(s, 8, 9) /\ s[8].thing = s[9].thing
        BY <1>c, <1>h, <1>i
    <2>2. /\ MustHold(s, 7, 10) /\ s[7].thing = s[10].thing
          /\ MustHold(s, 11, 14) /\ s[11].thing = s[14].thing
        BY <1>c, <1>h, <1>i
    <2>3. s[13].thing \in Unsure("dma")
        BY <1>c DEF Unsure
    <2>4. Len(s) = 14
        BY <1>a
    <2> QED
        BY <1>q, <2>1, <2>2, <2>3, <2>4 DEF PutsHeld
<1>m. NeedsMet("dma", s)
    <2> SUFFICES ASSUME NEW i \in 1..Len(s), NEW k \in 1..(Len(s) + 1),
                        MayHold(s, i, k), NEW n \in Needs("dma", s[i].thing)
                 PROVE  \E j \in 1..Len(s) :
                            MustHold(s, j, k) /\ s[j].thing = n
        BY DEF NeedsMet
    <2>1. /\ i \in {1, 2, 3, 4, 5, 7, 8, 11, 12} /\ k \in 1..15
          /\ i \in {2, 3, 4, 5, 7, 8, 11, 12} => k > i
        BY <1>a, <1>h
    <2>2. CASE i \in {1, 3, 7}
        BY <1>s, <2>2, NeedsRead
    <2>3. CASE i = 2
        <3>1. n = "ramdisk" /\ MustHold(s, 1, k)
            BY <1>b, <1>h, <1>i, <2>1, <2>3, NeedsRead
        <3> QED
            BY <1>s, <3>1
    <2>7. CASE i = 4
        <3>1. n = "mask" /\ MustHold(s, 3, k)
            BY <1>b, <1>h, <1>i, <2>1, <2>7, NeedsRead
        <3> QED
            BY <1>s, <3>1
    <2>4. CASE i \in {5, 11}
        <3>0. s[i].thing \in {"coherent", "pool"}
            BY <1>s, <2>4
        <3>1. n = "misc"
            BY <3>0, NeedsRead
        <3>2. MustHold(s, 2, k)
            <4>1. k \in 1..15 /\ 2 \in 1..15 /\ 2 < k
                BY <2>1, <2>4
            <4>2. MayHold(s, 2, k)
                BY <1>h, <4>1
            <4> QED
                BY <1>i, <4>1, <4>2
        <3>3. 2 \in 1..Len(s) /\ s[2].thing = "misc"
            BY <1>a, <1>b
        <3> QED
            BY <3>1, <3>2, <3>3
    <2>5. CASE i = 8
        <3>0. s[8].thing = "mapping"
            BY <1>s
        <3>1. n = "kbuf"
            BY <2>5, <3>0, NeedsRead
        <3>2. MustHold(s, 7, k)
            BY <1>h, <1>i, <2>1, <2>5
        <3>3. 7 \in 1..Len(s) /\ s[7].thing = "kbuf"
            BY <1>s
        <3> QED
            BY <3>1, <3>2, <3>3
    <2>6. CASE i = 12
        <3>0. s[12].thing = "poolbuf"
            BY <1>s
        <3>1. n = "pool"
            BY <2>6, <3>0, NeedsRead
        <3>2. MustHold(s, 11, k)
            BY <1>h, <1>i, <2>1, <2>6
        <3> QED
            BY <1>s, <3>1, <3>2
    <2> QED
        BY <2>1, <2>2, <2>3, <2>4, <2>5, <2>6, <2>7
<1>r. Reached("dma", s)
    <2>1. NodeOf("dma") = "none"
        BY DEF NodeOf
    <2>2. \A i \in 1..Len(s) :
              s[i].thing # "none" /\ (s[i].thing = "ramdisk" => i = 1)
        BY <1>s
    <2> QED
        BY <2>1, <2>2 DEF Reached, PerOpen
<1>k. \A k \in 1..Len(s) : s[k].fails = "stop" =>
          k = 2 \/ k = 3 \/ k = 4
    BY <1>s
<1>f. \A k \in 1..Len(s) :
          s[k].fails \in {"never", "stop", "ignored", "put"}
    BY <1>s
<1>v. \A k \in 1..Len(s) : s[k].fails = "stop" =>
          s[k].thing # "none"
          /\ Undoes("dma", s, k, s[k].undo, LeftBy("dma", s[k].thing))
    BY <1>b, <1>3, <1>4, <1>6, <1>k
<1> QED
    BY <1>a, <1>p, <1>m, <1>r, <1>5, <1>v, <1>f DEF InOrder, s

LEMMA FirmwareInOrder ==
    InOrder("firmware", FirmwareInit, FirmwareExit)
<1> DEFINE s == FirmwareInit
<1>s. /\ Len(s) = 2 /\ s[1].thing = "fwdev" /\ s[2].thing = "firmware"
      /\ s[1].fails = "stop" /\ s[2].fails = "stop" /\ s[1].undo = <<>>
      /\ s[2].undo = <<"fwdev">>
    BY DEF FirmwareInit, Stage, Try
<1> HIDE DEF s
<1>u1. Undoes("firmware", s, 1, s[1].undo, LeftBy("firmware", s[1].thing))
    BY <1>s, NeedsRead, PartsRead
       DEF Undoes, LeftBy, Unsure, MayHold, MustHold, Names
<1>u2. Undoes("firmware", s, 2, s[2].undo, LeftBy("firmware", s[2].thing))
    BY <1>s, NeedsRead, PartsRead
       DEF Undoes, LeftBy, Unsure, MayHold, MustHold, Names
<1>u3. Undoes("firmware", s, Len(s) + 1, FirmwareExit,
              LeftBy("firmware", "none"))
    BY <1>s, NeedsRead, PartsRead
       DEF Undoes, LeftBy, Unsure, MayHold, MustHold, Names, FirmwareExit
<1>2. /\ PutsHeld("firmware", s) /\ Reached("firmware", s)
      /\ NeedsMet("firmware", s)
    BY <1>s, NeedsRead, PartsRead
       DEF PutsHeld, NodeOf, Unsure, NeedsMet, Reached, MayHold, MustHold,
       PerOpen
<1>k. \A k \in 1..Len(s) :
          s[k].fails = "stop" => k = 1 \/ k = 2
    BY <1>s
<1>f. \A k \in 1..Len(s) :
          s[k].fails \in {"never", "stop", "ignored", "put"}
    BY <1>s
<1> QED
    BY <1>s, <1>u1, <1>u2, <1>u3, <1>2, <1>k, <1>f DEF InOrder, s

LEMMA UioInOrder ==
    InOrder("uio", UioInit, UioExit)
<1> DEFINE s == UioInit
<1>s. /\ Len(s) = 4 /\ s[1].thing = "devmem" /\ s[2].thing = "uiodev"
      /\ s[3].thing = "info" /\ s[4].thing = "uio"
      /\ s[1].fails = "never" /\ s[2].fails = "stop"
      /\ s[3].fails = "never" /\ s[4].fails = "stop"
      /\ s[2].undo = <<"devmem">>
      /\ s[4].undo = <<"uiodev", "devmem", "info">>
    BY DEF UioInit, Stage, Get, Try
<1> HIDE DEF s
<1>u1. Undoes("uio", s, 2, s[2].undo, LeftBy("uio", s[2].thing))
    BY <1>s, NeedsRead, PartsRead
       DEF Undoes, LeftBy, Unsure, MayHold, MustHold, Names
<1>u2. Undoes("uio", s, 4, s[4].undo, LeftBy("uio", s[4].thing))
    BY <1>s, NeedsRead, PartsRead
       DEF Undoes, LeftBy, Unsure, MayHold, MustHold, Names
<1>u3. Undoes("uio", s, Len(s) + 1, UioExit, LeftBy("uio", "none"))
    BY <1>s, NeedsRead, PartsRead
       DEF Undoes, LeftBy, Unsure, MayHold, MustHold, Names, UioExit
<1>p. PutsHeld("uio", s)
    BY <1>s, PartsRead DEF PutsHeld, Unsure, MayHold, MustHold
<1>r. Reached("uio", s)
    BY <1>s, PartsRead DEF Reached, NodeOf, PerOpen, MayHold, MustHold
<1>m. NeedsMet("uio", s)
    BY <1>s, NeedsRead, PartsRead DEF NeedsMet, MayHold, MustHold
<1>k. \A k \in 1..Len(s) :
          s[k].fails = "stop" => k = 2 \/ k = 4
    BY <1>s
<1>f. \A k \in 1..Len(s) :
          s[k].fails \in {"never", "stop", "ignored", "put"}
    BY <1>s
<1> QED
    BY <1>s, <1>u1, <1>u2, <1>u3, <1>p, <1>r, <1>m, <1>k, <1>f DEF InOrder, s

LEMMA KprobesInOrder ==
    InOrder("kprobes", KprobesInit, KprobesExit)
<1> DEFINE s == KprobesInit
<1>s. /\ Len(s) = 4 /\ s[1].thing = "add" /\ s[2].thing = "mod"
      /\ s[3].thing = "del" /\ s[4].thing = "del_sync"
      /\ s[1].fails = "stop" /\ s[2].fails = "stop"
      /\ s[3].fails = "stop" /\ s[4].fails = "stop" /\ s[1].undo = <<>>
      /\ s[2].undo = <<"add">> /\ s[3].undo = <<"add", "mod">>
      /\ s[4].undo = <<"add", "mod", "del">>
    BY DEF KprobesInit, Stage, Try
<1> HIDE DEF s
<1>u1. Undoes("kprobes", s, 1, s[1].undo, LeftBy("kprobes", s[1].thing))
    BY <1>s, NeedsRead, PartsRead
       DEF Undoes, LeftBy, Unsure, MayHold, MustHold, Names
<1>u2. Undoes("kprobes", s, 2, s[2].undo, LeftBy("kprobes", s[2].thing))
    BY <1>s, NeedsRead, PartsRead
       DEF Undoes, LeftBy, Unsure, MayHold, MustHold, Names
<1>u3. Undoes("kprobes", s, 3, s[3].undo, LeftBy("kprobes", s[3].thing))
    BY <1>s, NeedsRead, PartsRead
       DEF Undoes, LeftBy, Unsure, MayHold, MustHold, Names
<1>u4. Undoes("kprobes", s, 4, s[4].undo, LeftBy("kprobes", s[4].thing))
    BY <1>s, NeedsRead, PartsRead
       DEF Undoes, LeftBy, Unsure, MayHold, MustHold, Names
<1>u5. Undoes("kprobes", s, Len(s) + 1, KprobesExit, LeftBy("kprobes", "none"))
    BY <1>s, NeedsRead, PartsRead
       DEF Undoes, LeftBy, Unsure, MayHold, MustHold, Names, KprobesExit
<1>p. PutsHeld("kprobes", s)
    BY <1>s, PartsRead DEF PutsHeld, Unsure, MayHold, MustHold
<1>r. Reached("kprobes", s)
    BY <1>s, PartsRead DEF Reached, NodeOf, PerOpen, MayHold, MustHold
<1>m. NeedsMet("kprobes", s)
    BY <1>s, NeedsRead, PartsRead DEF NeedsMet, MayHold, MustHold
<1>k. \A k \in 1..Len(s) :
          s[k].fails = "stop" => k = 1 \/ k = 2 \/ k = 3 \/ k = 4
    BY <1>s
<1>f. \A k \in 1..Len(s) :
          s[k].fails \in {"never", "stop", "ignored", "put"}
    BY <1>s
<1> QED
    BY <1>s, <1>u1, <1>u2, <1>u3, <1>u4, <1>u5, <1>p, <1>r, <1>m, <1>k, <1>f
       DEF InOrder, s

LEMMA HrkprobesInOrder ==
    InOrder("hrkprobes", HrkprobesInit, HrkprobesExit)
<1> DEFINE s == HrkprobesInit
<1>s. /\ Len(s) = 3 /\ s[1].thing = "start" /\ s[2].thing = "forward"
      /\ s[3].thing = "cancel" /\ s[1].fails = "stop"
      /\ s[2].fails = "stop" /\ s[3].fails = "stop" /\ s[1].undo = <<>>
      /\ s[2].undo = <<"start">> /\ s[3].undo = <<"start", "forward">>
    BY DEF HrkprobesInit, Stage, Try
<1> HIDE DEF s
<1>u1. Undoes("hrkprobes", s, 1, s[1].undo, LeftBy("hrkprobes", s[1].thing))
    BY <1>s, NeedsRead, PartsRead
       DEF Undoes, LeftBy, Unsure, MayHold, MustHold, Names
<1>u2. Undoes("hrkprobes", s, 2, s[2].undo, LeftBy("hrkprobes", s[2].thing))
    BY <1>s, NeedsRead, PartsRead
       DEF Undoes, LeftBy, Unsure, MayHold, MustHold, Names
<1>u3. Undoes("hrkprobes", s, 3, s[3].undo, LeftBy("hrkprobes", s[3].thing))
    BY <1>s, NeedsRead, PartsRead
       DEF Undoes, LeftBy, Unsure, MayHold, MustHold, Names
<1>u4. Undoes("hrkprobes", s, Len(s) + 1, HrkprobesExit,
              LeftBy("hrkprobes", "none"))
    BY <1>s, NeedsRead, PartsRead
       DEF Undoes, LeftBy, Unsure, MayHold, MustHold, Names, HrkprobesExit
<1>2. /\ PutsHeld("hrkprobes", s) /\ Reached("hrkprobes", s)
      /\ NeedsMet("hrkprobes", s)
    BY <1>s, NeedsRead, PartsRead
       DEF PutsHeld, NodeOf, Unsure, NeedsMet, Reached, MayHold, MustHold,
       PerOpen
<1>k. \A k \in 1..Len(s) :
          s[k].fails = "stop" => k = 1 \/ k = 2 \/ k = 3
    BY <1>s
<1>f. \A k \in 1..Len(s) :
          s[k].fails \in {"never", "stop", "ignored", "put"}
    BY <1>s
<1> QED
    BY <1>s, <1>u1, <1>u2, <1>u3, <1>u4, <1>2, <1>k, <1>f DEF InOrder, s

LEMMA KsetInOrder ==
    InOrder("kset", KsetInit, KsetExit)
<1> DEFINE s == KsetInit
<1>s. /\ Len(s) = 4 /\ s[1].thing = "kset" /\ s[2].thing = "foo"
      /\ s[3].thing = "bar" /\ s[4].thing = "baz" /\ s[1].fails = "stop"
      /\ s[2].fails = "stop" /\ s[3].fails = "stop"
      /\ s[4].fails = "stop" /\ s[1].undo = <<>>
      /\ s[2].undo = <<"kset">> /\ s[3].undo = <<"foo", "kset">>
      /\ s[4].undo = <<"bar", "foo", "kset">>
    BY DEF KsetInit, Stage, Try
<1> HIDE DEF s
<1>u1. Undoes("kset", s, 1, s[1].undo, LeftBy("kset", s[1].thing))
    BY <1>s, NeedsRead, PartsRead
       DEF Undoes, LeftBy, Unsure, MayHold, MustHold, Names
<1>u2. Undoes("kset", s, 2, s[2].undo, LeftBy("kset", s[2].thing))
    BY <1>s, NeedsRead, PartsRead
       DEF Undoes, LeftBy, Unsure, MayHold, MustHold, Names
<1>u3. Undoes("kset", s, 3, s[3].undo, LeftBy("kset", s[3].thing))
    BY <1>s, NeedsRead, PartsRead
       DEF Undoes, LeftBy, Unsure, MayHold, MustHold, Names
<1>u4. Undoes("kset", s, 4, s[4].undo, LeftBy("kset", s[4].thing))
    BY <1>s, NeedsRead, PartsRead
       DEF Undoes, LeftBy, Unsure, MayHold, MustHold, Names
<1>u5. Undoes("kset", s, Len(s) + 1, KsetExit, LeftBy("kset", "none"))
    BY <1>s, NeedsRead, PartsRead
       DEF Undoes, LeftBy, Unsure, MayHold, MustHold, Names, KsetExit
<1>p. PutsHeld("kset", s)
    BY <1>s, PartsRead DEF PutsHeld, Unsure, MayHold, MustHold
<1>r. Reached("kset", s)
    BY <1>s, PartsRead DEF Reached, NodeOf, PerOpen, MayHold, MustHold
<1>m. NeedsMet("kset", s)
    BY <1>s, NeedsRead, PartsRead DEF NeedsMet, MayHold, MustHold
<1>k. \A k \in 1..Len(s) :
          s[k].fails = "stop" => k = 1 \/ k = 2 \/ k = 3 \/ k = 4
    BY <1>s
<1>f. \A k \in 1..Len(s) :
          s[k].fails \in {"never", "stop", "ignored", "put"}
    BY <1>s
<1> QED
    BY <1>s, <1>u1, <1>u2, <1>u3, <1>u4, <1>u5, <1>p, <1>r, <1>m, <1>k, <1>f
       DEF InOrder, s

LEMMA KobjectInOrder ==
    InOrder("kobject", KobjectInit, KobjectExit)
<1> DEFINE s == KobjectInit
<1>s. /\ Len(s) = 2 /\ s[1].thing = "kobject" /\ s[2].thing = "group"
      /\ s[1].fails = "stop" /\ s[2].fails = "stop" /\ s[1].undo = <<>>
      /\ s[2].undo = <<"kobject">>
    BY DEF KobjectInit, Stage, Try
<1> HIDE DEF s
<1>u1. Undoes("kobject", s, 1, s[1].undo, LeftBy("kobject", s[1].thing))
    BY <1>s, NeedsRead, PartsRead
       DEF Undoes, LeftBy, Unsure, MayHold, MustHold, Names
<1>u2. Undoes("kobject", s, 2, s[2].undo, LeftBy("kobject", s[2].thing))
    BY <1>s, NeedsRead, PartsRead
       DEF Undoes, LeftBy, Unsure, MayHold, MustHold, Names
<1>u3. Undoes("kobject", s, Len(s) + 1, KobjectExit, LeftBy("kobject", "none"))
    BY <1>s, NeedsRead, PartsRead
       DEF Undoes, LeftBy, Unsure, MayHold, MustHold, Names, KobjectExit
<1>2. PutsHeld("kobject", s) /\ Reached("kobject", s) /\ NeedsMet("kobject", s)
    BY <1>s, NeedsRead, PartsRead
       DEF PutsHeld, NodeOf, Unsure, NeedsMet, Reached, MayHold, MustHold,
       PerOpen
<1>k. \A k \in 1..Len(s) :
          s[k].fails = "stop" => k = 1 \/ k = 2
    BY <1>s
<1>f. \A k \in 1..Len(s) :
          s[k].fails \in {"never", "stop", "ignored", "put"}
    BY <1>s
<1> QED
    BY <1>s, <1>u1, <1>u2, <1>u3, <1>2, <1>k, <1>f DEF InOrder, s

LEMMA PlatformInOrder ==
    InOrder("platform", PlatformInit, PlatformExit)
<1> DEFINE s == PlatformInit
<1>s. /\ Len(s) = 1 /\ s[1].thing = "platform" /\ s[1].fails = "stop"
      /\ s[1].undo = <<>>
    BY DEF PlatformInit, Stage, Try
<1> HIDE DEF s
<1>u1. Undoes("platform", s, 1, s[1].undo, LeftBy("platform", s[1].thing))
    BY <1>s, NeedsRead, PartsRead
       DEF Undoes, LeftBy, Unsure, MayHold, MustHold, Names
<1>u2. Undoes("platform", s, Len(s) + 1, PlatformExit,
              LeftBy("platform", "none"))
    BY <1>s, NeedsRead, PartsRead
       DEF Undoes, LeftBy, Unsure, MayHold, MustHold, Names, PlatformExit
<1>2. /\ PutsHeld("platform", s) /\ Reached("platform", s)
      /\ NeedsMet("platform", s)
    BY <1>s, NeedsRead, PartsRead
       DEF PutsHeld, NodeOf, Unsure, NeedsMet, Reached, MayHold, MustHold,
       PerOpen
<1>k. \A k \in 1..Len(s) :
          s[k].fails = "stop" => k = 1
    BY <1>s
<1>f. \A k \in 1..Len(s) :
          s[k].fails \in {"never", "stop", "ignored", "put"}
    BY <1>s
<1> QED
    BY <1>s, <1>u1, <1>u2, <1>2, <1>k, <1>f DEF InOrder, s

LEMMA UsbInOrder ==
    InOrder("usb", UsbInit, UsbExit)
<1> DEFINE s == UsbInit
<1>s. /\ Len(s) = 1 /\ s[1].thing = "usb" /\ s[1].fails = "stop"
      /\ s[1].undo = <<>>
    BY DEF UsbInit, Stage, Try
<1> HIDE DEF s
<1>u1. Undoes("usb", s, 1, s[1].undo, LeftBy("usb", s[1].thing))
    BY <1>s, NeedsRead, PartsRead
       DEF Undoes, LeftBy, Unsure, MayHold, MustHold, Names
<1>u2. Undoes("usb", s, Len(s) + 1, UsbExit, LeftBy("usb", "none"))
    BY <1>s, NeedsRead, PartsRead
       DEF Undoes, LeftBy, Unsure, MayHold, MustHold, Names, UsbExit
<1>2. PutsHeld("usb", s) /\ Reached("usb", s) /\ NeedsMet("usb", s)
    BY <1>s, NeedsRead, PartsRead
       DEF PutsHeld, NodeOf, Unsure, NeedsMet, Reached, MayHold, MustHold,
       PerOpen
<1>k. \A k \in 1..Len(s) :
          s[k].fails = "stop" => k = 1
    BY <1>s
<1>f. \A k \in 1..Len(s) :
          s[k].fails \in {"never", "stop", "ignored", "put"}
    BY <1>s
<1> QED
    BY <1>s, <1>u1, <1>u2, <1>2, <1>k, <1>f DEF InOrder, s

LEMMA TablesInOrder ==
    \A l \in Drivers : InOrder(l, InitOrder[l], ExitOrder[l])
<1>1. Drivers = {"plain", "dynamic", "udev", "misc", "samplemisc", "memory",
                 "cache", "sample", "fwchar", "queue", "dma", "firmware",
                 "uio", "kprobes", "hrkprobes", "kset", "kobject",
                 "platform", "usb"}
    BY DEF Drivers, InitOrder
<1>2. /\ \A l \in {"plain", "dynamic"} :
            InitOrder[l] = CdevInit /\ ExitOrder[l] = CdevExit
      /\ InitOrder["udev"] = UdevInit /\ ExitOrder["udev"] = UdevExit
      /\ \A l \in {"misc", "samplemisc"} :
            InitOrder[l] = MiscInit /\ ExitOrder[l] = MiscExit
      /\ InitOrder["memory"] = MemoryInit /\ ExitOrder["memory"] = MemoryExit
      /\ InitOrder["cache"] = CacheInit /\ ExitOrder["cache"] = CacheExit
      /\ InitOrder["sample"] = SampleInit /\ ExitOrder["sample"] = SampleExit
      /\ InitOrder["fwchar"] = FwcharInit /\ ExitOrder["fwchar"] = FwcharExit
      /\ InitOrder["queue"] = QueueInit /\ ExitOrder["queue"] = QueueExit
      /\ InitOrder["dma"] = DmaInit /\ ExitOrder["dma"] = DmaExit
    BY DEF InitOrder, ExitOrder
<1>3. /\ InitOrder["firmware"] = FirmwareInit
      /\ ExitOrder["firmware"] = FirmwareExit
      /\ InitOrder["uio"] = UioInit /\ ExitOrder["uio"] = UioExit
      /\ InitOrder["kprobes"] = KprobesInit
      /\ ExitOrder["kprobes"] = KprobesExit
      /\ InitOrder["hrkprobes"] = HrkprobesInit
      /\ ExitOrder["hrkprobes"] = HrkprobesExit
      /\ InitOrder["kset"] = KsetInit /\ ExitOrder["kset"] = KsetExit
      /\ InitOrder["kobject"] = KobjectInit
      /\ ExitOrder["kobject"] = KobjectExit
      /\ InitOrder["platform"] = PlatformInit
      /\ ExitOrder["platform"] = PlatformExit
      /\ InitOrder["usb"] = UsbInit /\ ExitOrder["usb"] = UsbExit
    BY DEF InitOrder, ExitOrder
<1> QED
    BY <1>1, <1>2, <1>3, CdevInOrder, UdevInOrder, MiscInOrder,
       MemoryInOrder, CacheInOrder, SampleInOrder, FwcharInOrder,
       QueueInOrder, DmaInOrder, FirmwareInOrder, UioInOrder,
       KprobesInOrder, HrkprobesInOrder, KsetInOrder, KobjectInOrder,
       PlatformInOrder, UsbInOrder

-----------------------------------------------------------------------------
(* The invariant *)

Closed == \A f \in Files : file[f] = "closed"

S == InitOrder[lab]

\* The stage before which the driver is while it loads and when it has.
At == IF module = "live" THEN Len(S) + 1 ELSE step

LeftNow == LeftBy(lab, IF step = 0 THEN "none" ELSE Now.thing)

\* The part of TypeOK the proofs need; the bounds of a run are left out.
Shape ==
    /\ lab \in Labs
    /\ module \in {"out", "loading", "undoing", "live", "unloading"}
    /\ step \in 0..Len(S)
    /\ module \in {"loading", "undoing"} => step # 0
    /\ module \in {"live", "unloading"} => step = 0
    /\ private \in [Files -> Buffers \cup {None}]
    /\ author \in [Buffers -> SUBSET Files]
    /\ file \in [Files -> {"closed", "count", "written", "open"}]
    /\ buffers \subseteq Buffers /\ ramdisk \in Buffers \cup {None}
    /\ strayed \subseteq Files

\* Before stage k all of h may be held, and what must be is in h.
Follows(s, h, k) ==
    /\ \A t \in h : \E i \in 1..Len(s) : MayHold(s, i, k) /\ t = s[i].thing
    /\ \A i \in 1..Len(s) : MustHold(s, i, k) => s[i].thing \in h

Loaded == module \in {"loading", "live"} => Follows(S, held, At)

\* Undoes, for what is held now: p releases it, all but left, in order.
Releases(l, h, p, left) ==
    /\ p \in Seq(Names)
    /\ \A t \in h : t \in left \/ \E j \in 1..Len(p) : t \in Freed(p[j])
    /\ \A j \in 1..Len(p) : p[j] \in h \cup Unsure(l)
    /\ \A i, j \in 1..Len(p) : i < j => p[j] \notin Freed(p[i])
    /\ l # "sample" =>
          \A t \in h, j \in 1..Len(p) :
              Needs(l, t) \cap Freed(p[j]) # {} =>
                  \E g \in 1..j : t \in Freed(p[g])

Undone ==
    module \in {"undoing", "unloading"} =>
        Releases(lab, held, pending, LeftNow)

Out == module = "out" => held \subseteq LeftNow

\* A module that has not loaded cannot be opened.
NotYet ==
    lab # "fwchar" /\ module \in {"loading", "undoing"} =>
        NodeOf(lab) \notin held

OpenWhileLive == ~Closed => module = "live" /\ NodeOf(lab) \in held

OneAtATime ==
    lab \in OneOpen =>
        \A f, g \in Files :
            file[f] # "closed" /\ file[g] # "closed" => f = g

\* Each open file of memory_allocation.c has a buffer to itself, but for those
\* who write past the end of theirs, ...
OwnBuffers ==
    /\ buffers = {private[f] : f \in {g \in Files : file[g] # "closed"}}
    /\ None \notin buffers
    /\ \A f, g \in Files :
          f # g /\ file[f] # "closed" /\ file[g] # "closed"
              => private[f] # private[g]
    /\ \A f \in Files :
          file[f] # "closed" => author[private[f]] \subseteq {f} \cup strayed

\* ... the one of lab_cache.c has the only one, ...
OneBuffer ==
    /\ buffers = IF Closed THEN {} ELSE {ramdisk}
    /\ ~Closed => ramdisk # None

\* ... and the files of the others share the ramdisk.
SharedBuffer == buffers = IF "ramdisk" \in held THEN {ramdisk} ELSE {}

Memory ==
    /\ lab = "memory" => OwnBuffers
    /\ lab = "cache" => OneBuffer
    /\ lab \in PerOpen => "ramdisk" \notin held
    /\ lab \notin PerOpen => SharedBuffer

Right == wrong \subseteq Unsure(lab)

IInv ==
    /\ Shape /\ Loaded /\ Undone /\ Out /\ NotYet /\ OpenWhileLive
    /\ OneAtATime /\ Memory /\ Right /\ NeedsHeld

-----------------------------------------------------------------------------
(* From the order of the tables to what the driver holds. *)

LEMMA NodeRead == Node = NodeOf(lab)
BY DEF Node, NodeOf

LEMMA LeftRead == \A f : Left(f) = LeftBy(lab, f)
BY DEF Left, LeftBy

LEMMA TableInOrder ==
    ASSUME Shape
    PROVE  /\ InOrder(lab, S, ExitOrder[lab])
           /\ Len(S) \in Nat \ {0}
BY TablesInOrder, ConstantsAssumption DEF Shape, S, InOrder

LEMMA FirstStage ==
    ASSUME NEW s, Len(s) \in Nat
    PROVE  \A i : ~MayHold(s, i, 1)
BY DEF MayHold

\* One stage further.
LEMMA NextStage ==
    ASSUME NEW s, Len(s) \in Nat, NEW k \in 1..Len(s), NEW i \in 1..Len(s)
    PROVE  MayHold(s, i, k + 1) <=>
               /\ s[i].fails # "put"
               /\ \/ i = k
                  \/ /\ MayHold(s, i, k)
                     /\ s[k].fails = "put" =>
                            s[i].thing \notin Freed(s[k].thing)
<1>1. \A j \in 1..Len(s) : j < k + 1 <=> j < k \/ j = k
    OBVIOUS
<1>2. CASE i = k
    BY <1>2 DEF MayHold
<1>3. CASE i # k
    BY <1>1, <1>3 DEF MayHold
<1> QED
    BY <1>2, <1>3

LEMMA HeldIsReleased ==
    ASSUME IInv, module \in {"loading", "live"}, NEW p, NEW left,
           Undoes(lab, S, At, p, left)
    PROVE  Releases(lab, held, p, left)
<1>1. \A t \in held : \E i \in 1..Len(S) :
          MayHold(S, i, At) /\ t = S[i].thing
    BY DEF IInv, Loaded, Follows
<1>2. \A i \in 1..Len(S) : MustHold(S, i, At) => S[i].thing \in held
    BY DEF IInv, Loaded, Follows
<1>3. /\ p \in Seq(Names)
      /\ \A i, j \in 1..Len(p) : i < j => p[j] \notin Freed(p[i])
    BY DEF Undoes
<1>4. \A t \in held : t \in left \/ \E j \in 1..Len(p) : t \in Freed(p[j])
    BY <1>1 DEF Undoes
<1>5. \A j \in 1..Len(p) : p[j] \in held \cup Unsure(lab)
    BY <1>2 DEF Undoes
<1>6. ASSUME lab # "sample", NEW t \in held, NEW j \in 1..Len(p),
             Needs(lab, t) \cap Freed(p[j]) # {}
      PROVE  \E g \in 1..j : t \in Freed(p[g])
    <2>1. PICK i \in 1..Len(S) : MayHold(S, i, At) /\ t = S[i].thing
        BY <1>1, <1>6
    <2>2. Needs(lab, S[i].thing) \cap Freed(p[j]) # {}
        BY <1>6, <2>1
    <2>3. \E g \in 1..j : S[i].thing \in Freed(p[g])
        BY <1>6, <2>1, <2>2 DEF Undoes
    <2> QED
        BY <2>1, <2>3
<1> QED
    BY <1>3, <1>4, <1>5, <1>6 DEF Releases

\* One release further.
LEMMA NextRelease ==
    ASSUME NEW l, NEW h, NEW p, NEW left, Releases(l, h, p, left), p # <<>>
    PROVE  /\ Releases(l, h \ Freed(Head(p)), Tail(p), left)
           /\ Head(p) \in h \cup Unsure(l)
           /\ l # "sample" =>
                  \A t \in h \ Freed(Head(p)) :
                      Needs(l, t) \cap Freed(Head(p)) = {}
<1> DEFINE q == Tail(p)
<1>1. /\ p \in Seq(Names) /\ q \in Seq(Names) /\ Head(p) = p[1]
      /\ Len(p) \in Nat \ {0} /\ Len(q) = Len(p) - 1
      /\ \A j \in 1..Len(q) : q[j] = p[j + 1] /\ j + 1 \in 1..Len(p)
    BY DEF Releases
<1>2. \A j \in 1..Len(p) : j # 1 => j - 1 \in 1..Len(q) /\ q[j - 1] = p[j]
    BY <1>1
<1> HIDE DEF q
<1>3. \A t \in h \ Freed(p[1]) :
          t \in left \/ \E j \in 1..Len(q) : t \in Freed(q[j])
    BY <1>1, <1>2 DEF Releases
<1>4. \A j \in 1..Len(q) : q[j] \in (h \ Freed(p[1])) \cup Unsure(l)
    BY <1>1 DEF Releases
<1>5. ASSUME NEW i \in 1..Len(q), NEW j \in 1..Len(q), i < j
      PROVE  q[j] \notin Freed(q[i])
    <2>1. /\ q[i] = p[i + 1] /\ q[j] = p[j + 1]
          /\ i + 1 \in 1..Len(p) /\ j + 1 \in 1..Len(p)
        BY <1>1
    <2>2. i + 1 < j + 1
        BY <1>5
    <2>3. p[j + 1] \notin Freed(p[i + 1])
        BY <2>1, <2>2 DEF Releases
    <2> QED
        BY <2>1, <2>3
<1>6. ASSUME l # "sample", NEW t \in h \ Freed(p[1]), NEW j \in 1..Len(q),
             Needs(l, t) \cap Freed(q[j]) # {}
      PROVE  \E g \in 1..j : t \in Freed(q[g])
    <2>1. PICK g \in 1..(j + 1) : t \in Freed(p[g])
        BY <1>1, <1>6 DEF Releases
    <2>2. g # 1 /\ g - 1 \in 1..j /\ q[g - 1] = p[g]
        BY <1>1, <1>2, <1>6, <2>1
    <2> QED
        BY <2>1, <2>2
<1>7. l # "sample" =>
          \A t \in h \ Freed(p[1]) : Needs(l, t) \cap Freed(p[1]) = {}
    BY <1>1 DEF Releases
<1> QED
    BY <1>1, <1>3, <1>4, <1>5, <1>6, <1>7 DEF Releases, q

-----------------------------------------------------------------------------
(* Loading, undoing and unloading. *)

LEMMA InitIInv == Init => IInv
<1> SUFFICES ASSUME Init PROVE IInv
    OBVIOUS
<1>1. Shape
    <2>1. Len(S) \in Nat
        BY TablesInOrder, ConstantsAssumption DEF Init, S, InOrder
    <2> QED
        BY <2>1 DEF Init, Shape
<1>2. Closed
    BY DEF Init, Closed
<1> QED
    BY <1>1, <1>2 DEF Init, IInv, Loaded, Undone, Out, NotYet, OpenWhileLive,
       OneAtATime, Memory, OwnBuffers, OneBuffer, SharedBuffer, Right,
       NeedsHeld

\* Every stage and every release leaves the files alone, and all of them are
\* closed.
LEMMA FilesClosed ==
    ASSUME IInv, Loading \/ Unloading
    PROVE  Closed /\ Closed' /\ UNCHANGED <<lab, private, file>>
<1>1. Closed
    BY DEF Loading, Unloading, Insmod, StageSucceeds, StageReleases,
       StageFailsUnseen, StageFails, Continue, Rmmod, ReleaseNext, Leave,
       IInv, OpenWhileLive, Closed
<1>2. UNCHANGED <<lab, private, file>>
    BY DEF Loading, Unloading, Insmod, StageSucceeds, StageReleases,
       StageFailsUnseen, StageFails, Rmmod, ReleaseNext, Leave, fileVars,
       memVars
<1> QED
    BY <1>1, <1>2 DEF Closed

\* What a stage that has succeeded or been passed over does to the position.
LEMMA NextAt ==
    ASSUME IInv, Continue, UNCHANGED lab
    PROVE  /\ step \in 1..Len(S) /\ At = step /\ At' = step + 1
           /\ S' = S /\ Now = S[step]
           /\ module' \in {"loading", "live"}
           /\ module' = "loading" => step' = step + 1 /\ step < Len(S)
           /\ module' = "live" => step' = 0 /\ step = Len(S)
<1>1. Len(S) \in Nat \ {0}
    BY TableInOrder DEF IInv
<1> QED
    BY <1>1 DEF Continue, IInv, Shape, S, At, Now

\* What is in the driver's hands when it releases a thing by name.
LEMMA PutIsHeld ==
    ASSUME IInv, StageReleases
    PROVE  Now.thing \in held \cup Unsure(lab)
<1>1. step \in 1..Len(S) /\ At = step /\ Now = S[step] /\ module = "loading"
    BY NextAt DEF StageReleases, Continue
<1>2. PutsHeld(lab, S)
    BY TableInOrder DEF IInv, InOrder
<1> QED
    BY <1>1, <1>2 DEF PutsHeld, StageReleases, IInv, Loaded, Follows

LEMMA StageFollows ==
    ASSUME NEW s, Len(s) \in Nat, NEW k \in 1..Len(s), NEW h, NEW g,
           Follows(s, h, k),
           \/ s[k].fails # "put" /\ g = h \cup {s[k].thing}
           \/ s[k].fails = "put" /\ g = h \ Freed(s[k].thing)
           \/ s[k].fails = "ignored" /\ g = h
    PROVE  Follows(s, g, k + 1)
<1> DEFINE May(i) == MayHold(s, i, k)
           May1(i) == MayHold(s, i, k + 1)
<1>1. \A i \in 1..Len(s) :
          May1(i) <=> /\ s[i].fails # "put"
                      /\ \/ i = k
                         \/ /\ May(i)
                            /\ s[k].fails = "put" =>
                                   s[i].thing \notin Freed(s[k].thing)
    BY NextStage
<1>2. \A i \in 1..Len(s) : May(i) => s[i].fails # "put"
    BY DEF MayHold
<1>3. /\ \A t \in h : \E i \in 1..Len(s) : May(i) /\ t = s[i].thing
      /\ \A i \in 1..Len(s) :
            May(i) /\ s[i].fails # "ignored" => s[i].thing \in h
    BY DEF Follows, MustHold
<1> HIDE DEF May, May1
<1>4. \A t \in g : \E i \in 1..Len(s) : May1(i) /\ t = s[i].thing
    <2> SUFFICES ASSUME NEW t \in g
                 PROVE  \E i \in 1..Len(s) : May1(i) /\ t = s[i].thing
        OBVIOUS
    <2>1. CASE t \in h
        <3>1. PICK i \in 1..Len(s) : May(i) /\ t = s[i].thing
            BY <1>3, <2>1
        <3>2. s[k].fails = "put" => t \notin Freed(s[k].thing)
            OBVIOUS
        <3> QED
            BY <1>1, <1>2, <3>1, <3>2
    <2>2. CASE t \notin h
        BY <1>1, <2>2
    <2> QED
        BY <2>1, <2>2
<1>5. \A i \in 1..Len(s) :
          May1(i) /\ s[i].fails # "ignored" => s[i].thing \in g
    BY <1>1, <1>3
<1> QED
    BY <1>4, <1>5 DEF Follows, MustHold, May1

LEMMA LoadedStep == ASSUME IInv, Loading PROVE Loaded'
<1>0. Len(S) \in Nat \ {0} /\ Shape
    BY TableInOrder DEF IInv
<1>1. CASE Insmod
    <2>1. At' = 1 /\ S' = S /\ held' = {}
        BY <1>1 DEF Insmod, At, S
    <2> QED
        BY <2>1, <1>0, FirstStage DEF Loaded, Follows, MustHold
<1>2. CASE StageSucceeds \/ StageReleases \/ StageFailsUnseen
    <2>1. Continue /\ UNCHANGED lab /\ module = "loading"
        BY <1>2 DEF StageSucceeds, StageReleases, StageFailsUnseen, Continue
    <2>2. /\ step \in 1..Len(S) /\ At = step /\ At' = step + 1 /\ S' = S
          /\ Now = S[step]
        BY <2>1, NextAt
    <2>3. Follows(S, held, step)
        BY <2>1, <2>2 DEF IInv, Loaded
    <2>4. \/ S[step].fails # "put" /\ held' = held \cup {S[step].thing}
          \/ S[step].fails = "put" /\ held' = held \ Freed(S[step].thing)
          \/ S[step].fails = "ignored" /\ held' = held
        BY <1>2, <2>2 DEF StageSucceeds, StageReleases, StageFailsUnseen,
           Release, Freed
    <2>5. Follows(S, held', step + 1)
        BY <1>0, <2>2, <2>3, <2>4, StageFollows
    <2> QED
        BY <2>2, <2>5 DEF Loaded
<1>3. CASE StageFails
    BY <1>3 DEF StageFails, Loaded
<1> QED
    BY <1>1, <1>2, <1>3 DEF Loading

LEMMA UndoneStep == ASSUME IInv, Loading \/ Unloading PROVE Undone'
<1>0. InOrder(lab, S, ExitOrder[lab]) /\ Len(S) \in Nat \ {0}
    BY TableInOrder DEF IInv
<1>1. CASE StageFails
    <2>1. /\ step \in 1..Len(S) /\ At = step /\ Now = S[step]
          /\ S[step].fails = "stop" /\ module = "loading"
        BY <1>1, <1>0 DEF StageFails, IInv, Shape, At, Now, S
    <2>2. Undoes(lab, S, At, S[step].undo, LeftBy(lab, S[step].thing))
        BY <1>0, <2>1 DEF InOrder
    <2>3. Releases(lab, held, S[step].undo, LeftBy(lab, S[step].thing))
        BY <2>1, <2>2, HeldIsReleased
    <2>4. LeftNow' = LeftBy(lab, S[step].thing)
        BY <1>1, <2>1 DEF StageFails, LeftNow, Now, S
    <2> QED
        BY <1>1, <2>1, <2>3, <2>4 DEF StageFails, Undone
<1>2. CASE Rmmod
    <2>1. At = Len(S) + 1 /\ step = 0 /\ module = "live"
        BY <1>2 DEF Rmmod, IInv, Shape, At
    <2>2. Releases(lab, held, ExitOrder[lab], LeftBy(lab, "none"))
        BY <1>0, <2>1, HeldIsReleased DEF InOrder
    <2>3. LeftNow' = LeftBy(lab, "none")
        BY <1>2, <2>1 DEF Rmmod, LeftNow
    <2> QED
        BY <1>2, <2>2, <2>3 DEF Rmmod, Undone
<1>3. CASE ReleaseNext
    <2>1. Releases(lab, held', pending', LeftNow)
        BY <1>3, NextRelease
           DEF ReleaseNext, Release, Freed, IInv, Undone
    <2>2. LeftNow' = LeftNow /\ lab' = lab
        BY <1>3 DEF ReleaseNext, LeftNow, Now
    <2> QED
        BY <2>1, <2>2 DEF Undone
<1>4. CASE Insmod \/ StageSucceeds \/ StageReleases \/ StageFailsUnseen
           \/ Leave
    BY <1>4 DEF Insmod, StageSucceeds, StageReleases, StageFailsUnseen,
       Continue, Leave, Undone
<1> QED
    BY <1>1, <1>2, <1>3, <1>4 DEF Loading, Unloading

LEMMA OutStep == ASSUME IInv, Loading \/ Unloading PROVE Out'
<1>1. CASE Leave
    <2>1. Releases(lab, held, <<>>, LeftNow)
        BY <1>1 DEF Leave, IInv, Undone
    <2>2. held \subseteq LeftNow
        BY <2>1 DEF Releases
    <2> QED
        BY <1>1, <2>2 DEF Leave, Out, LeftNow, Now
<1>2. CASE Loading \/ Rmmod \/ ReleaseNext
    BY <1>2 DEF Loading, Insmod, StageSucceeds, StageReleases, StageFails,
       StageFailsUnseen, Continue, Rmmod, ReleaseNext, Out
<1> QED
    BY <1>1, <1>2 DEF Unloading

LEMMA NotYetStep == ASSUME IInv, Loading \/ Unloading PROVE NotYet'
<1>0. /\ Reached(lab, S) /\ Len(S) \in Nat \ {0} /\ lab' = lab
    BY TableInOrder, FilesClosed DEF IInv, InOrder
<1>1. CASE StageSucceeds
    <2>1. Continue /\ lab' = lab
        BY <1>1, <1>0 DEF StageSucceeds
    <2>2. /\ step \in 1..Len(S) /\ Now = S[step] /\ module = "loading"
          /\ module' \in {"loading", "live"}
          /\ module' = "loading" => step < Len(S)
        BY <2>1, NextAt DEF Continue
    <2>3. lab # "fwchar" /\ module' = "loading" => Now.thing # NodeOf(lab)
        BY <1>0, <2>2 DEF Reached
    <2> QED
        BY <1>0, <1>1, <2>2, <2>3 DEF StageSucceeds, NotYet, IInv
<1>2. CASE (Loading /\ ~StageSucceeds) \/ Unloading
    BY <1>0, <1>2 DEF Loading, Insmod, StageReleases, StageFails,
       StageFailsUnseen, Continue, Unloading, Rmmod, ReleaseNext, Leave,
       Release, NotYet, IInv
<1> QED
    BY <1>1, <1>2

LEMMA RightStep == ASSUME IInv, Loading \/ Unloading PROVE Right'
<1>0. Right /\ lab' = lab
    BY FilesClosed DEF IInv
<1>1. CASE StageReleases
    <2>1. Now.thing \in held \cup Unsure(lab)
        BY <1>1, PutIsHeld
    <2> QED
        BY <1>0, <1>1, <2>1 DEF StageReleases, Release, Right
<1>2. CASE ReleaseNext
    <2>1. Head(pending) \in held \cup Unsure(lab)
        BY <1>2, NextRelease DEF ReleaseNext, IInv, Undone
    <2> QED
        BY <1>0, <1>2, <2>1 DEF ReleaseNext, Release, Right
<1>3. CASE Insmod \/ StageSucceeds \/ StageFailsUnseen \/ StageFails
           \/ Rmmod \/ Leave
    BY <1>0, <1>3 DEF Insmod, StageSucceeds, StageFailsUnseen, StageFails,
       Rmmod, Leave, Right
<1> QED
    BY <1>1, <1>2, <1>3 DEF Loading, Unloading

\* What is held has what it needs: in a table that is in order while the
\* module loads, by the order of the releases when it goes.
LEMMA NeedsOfTable ==
    ASSUME NEW l, NEW s, NEW k \in 1..(Len(s) + 1), NEW h,
           NeedsMet(l, s), Follows(s, h, k), NEW t \in h
    PROVE  Needs(l, t) \subseteq h
<1>1. PICK i \in 1..Len(s) : MayHold(s, i, k) /\ t = s[i].thing
    BY DEF Follows
<1>2. \A n \in Needs(l, t) :
          \E j \in 1..Len(s) : MustHold(s, j, k) /\ s[j].thing = n
    BY <1>1 DEF NeedsMet
<1> QED
    BY <1>2 DEF Follows

LEMMA NeedsStep ==
    ASSUME IInv, Loading \/ Unloading, Loaded', Shape'
    PROVE  NeedsHeld'
<1>0. lab' = lab /\ NeedsHeld
    BY FilesClosed DEF IInv
<1>1. CASE module' \in {"loading", "live"}
    <2>1. Follows(S', held', At') /\ At' \in 1..(Len(S') + 1)
        BY <1>1 DEF Loaded, Shape, At
    <2>2. lab' # "sample" => NeedsMet(lab', S')
        BY <1>0, TableInOrder DEF IInv, InOrder, S
    <2> QED
        BY <2>1, <2>2, NeedsOfTable DEF NeedsHeld
<1>2. CASE ReleaseNext
    <2>1. lab # "sample" =>
              \A t \in held \ Freed(Head(pending)) :
                  Needs(lab, t) \cap Freed(Head(pending)) = {}
        BY <1>2, NextRelease DEF ReleaseNext, IInv, Undone
    <2>2. held' = held \ Freed(Head(pending))
        BY <1>2 DEF ReleaseNext, Release, Freed
    <2> QED
        BY <1>0, <2>1, <2>2 DEF NeedsHeld
<1>3. CASE StageFails \/ Rmmod \/ Leave
    BY <1>0, <1>3 DEF StageFails, Rmmod, Leave, NeedsHeld
<1>4. Insmod \/ StageSucceeds \/ StageReleases \/ StageFailsUnseen
          => module' \in {"loading", "live"}
    BY DEF Insmod, StageSucceeds, StageReleases, StageFailsUnseen, Continue,
       IInv, Shape
<1> QED
    BY <1>1, <1>2, <1>3, <1>4 DEF Loading, Unloading

LEMMA ShapeStep == ASSUME IInv, Loading \/ Unloading PROVE Shape'
<1>0. /\ Shape /\ Len(S) \in Nat \ {0}
      /\ UNCHANGED <<lab, private, file>> /\ S' = S
    BY TableInOrder, FilesClosed DEF IInv, S
<1>1. CASE Insmod
    BY <1>0, <1>1 DEF Insmod, Shape
<1>2. CASE StageSucceeds \/ StageReleases \/ StageFailsUnseen
    <2>1. Continue
        BY <1>2 DEF StageSucceeds, StageReleases, StageFailsUnseen
    <2>2. /\ module' \in {"loading", "live"} /\ step' \in 0..Len(S)
          /\ module' = "loading" => step' # 0
          /\ module' = "live" => step' = 0
        BY <1>0, <2>1, NextAt
    <2>3. /\ buffers' \subseteq Buffers /\ ramdisk' \in Buffers \cup {None}
          /\ author' \in [Buffers -> SUBSET Files] /\ strayed' \subseteq Files
        BY <1>0, <1>2 DEF StageSucceeds, StageReleases, StageFailsUnseen,
           Kmalloc, Release, Shape, memVars
    <2> QED
        BY <1>0, <2>2, <2>3 DEF Shape
<1>3. CASE StageFails \/ Rmmod \/ Leave
    BY <1>0, <1>3 DEF StageFails, Rmmod, Leave, memVars, Shape
<1>4. CASE ReleaseNext
    BY <1>0, <1>4 DEF ReleaseNext, Release, Shape
<1> QED
    BY <1>1, <1>2, <1>3, <1>4 DEF Loading, Unloading

LEMMA MemoryStep == ASSUME IInv, Loading \/ Unloading PROVE Memory'
<1>0. /\ Memory /\ Closed /\ Closed' /\ UNCHANGED <<lab, private, file>>
      /\ Reached(lab, S) /\ Len(S) \in Nat \ {0}
    BY FilesClosed, TableInOrder DEF IInv, InOrder
\* With no file open it comes to this.
<1> DEFINE Plain(h, b, r) ==
              /\ lab \in PerOpen => b = {} /\ "ramdisk" \notin h
              /\ lab \notin PerOpen =>
                    b = IF "ramdisk" \in h THEN {r} ELSE {}
<1>1. Plain(held, buffers, ramdisk)
    BY <1>0 DEF Memory, OwnBuffers, OneBuffer, SharedBuffer, Closed, PerOpen
<1>2. Plain(held', buffers', ramdisk') => Memory'
    BY <1>0 DEF Memory, OwnBuffers, OneBuffer, SharedBuffer, Closed, PerOpen
<1>3. CASE Insmod
    BY <1>1, <1>2, <1>3 DEF Insmod
<1>4. CASE StageSucceeds
    <2>1. /\ step \in 1..Len(S) /\ At = step /\ Now = S[step]
          /\ module = "loading"
        BY <1>0, <1>4, NextAt DEF StageSucceeds, Continue
    <2>2. CASE Now.thing = "ramdisk"
        <3>1. lab \notin PerOpen /\ "ramdisk" \notin held
            BY <1>0, <2>1, <2>2
               DEF Reached, IInv, Loaded, Follows, MayHold
        <3>2. buffers = {}
            BY <1>1, <3>1
        <3>3. PICK b : ramdisk' = b /\ buffers' = buffers \cup {b}
            BY <1>4, <2>2 DEF StageSucceeds, Kmalloc
        <3> QED
            BY <1>2, <1>4, <2>2, <3>1, <3>2, <3>3 DEF StageSucceeds
    <2>3. CASE Now.thing # "ramdisk"
        BY <1>1, <1>2, <1>4, <2>3 DEF StageSucceeds
    <2> QED
        BY <2>2, <2>3
<1>5. ASSUME NEW thing, Release(thing), ramdisk' = ramdisk,
             lab \in PerOpen => thing # "ramdisk"
      PROVE  Memory'
    <2>1. "ramdisk" \in Freed(thing) <=> thing = "ramdisk"
        BY PartsRead
    <2> QED
        BY <1>1, <1>2, <1>5, <2>1 DEF Release, Freed
<1>6. CASE StageReleases
    <2>1. step \in 1..Len(S) /\ Now = S[step]
        BY <1>0, <1>6, NextAt DEF StageReleases
    <2>2. lab \in PerOpen => Now.thing # "ramdisk"
        BY <1>0, <2>1 DEF Reached
    <2> QED
        BY <1>5, <1>6, <2>2 DEF StageReleases
<1>7. CASE ReleaseNext
    <2>1. Head(pending) \in held \cup Unsure(lab)
        BY <1>7, NextRelease DEF ReleaseNext, IInv, Undone
    <2>2. lab \in PerOpen => Head(pending) # "ramdisk"
        BY <1>1, <2>1 DEF Unsure, PerOpen
    <2> QED
        BY <1>5, <1>7, <2>2 DEF ReleaseNext
<1>8. CASE StageFailsUnseen \/ StageFails \/ Rmmod \/ Leave
    BY <1>1, <1>2, <1>8 DEF StageFailsUnseen, StageFails, Rmmod, Leave,
       memVars
<1> QED
    BY <1>3, <1>4, <1>6, <1>7, <1>8 DEF Loading, Unloading

LEMMA ModuleStep == ASSUME IInv, Loading \/ Unloading PROVE IInv'
<1>1. OpenWhileLive' /\ OneAtATime'
    BY FilesClosed DEF IInv, OpenWhileLive, OneAtATime
<1>2. Loaded'
    BY LoadedStep DEF Unloading, Rmmod, ReleaseNext, Leave, Loaded
<1> QED
    BY <1>1, <1>2, ShapeStep, UndoneStep, OutStep, NotYetStep, MemoryStep,
       RightStep, NeedsStep DEF IInv

-----------------------------------------------------------------------------
(* The files. *)

\* A file is opened of a module that is loaded, through the table's last
\* stage; in lab_firmware_chardev.c by LoadFirst.
LEMMA OpensLive ==
    ASSUME Exclusive, IInv, NEW f \in Files, Open(f)
    PROVE  module = "live" /\ NodeOf(lab) \in held
<1>1. NodeOf(lab) \in held /\ module \in {"loading", "undoing", "live"}
      /\ (lab \in LoadFirst => module = "live")
    BY NodeRead DEF Open
<1>2. lab = "fwchar" => lab \in LoadFirst
    BY DEF Exclusive, IInv, Shape
<1> QED
    BY <1>1, <1>2 DEF IInv, NotYet

\* What the files do not touch.
LEMMA FilesLeave ==
    ASSUME IInv, NEW f \in Files, FileStep(f)
    PROVE  /\ UNCHANGED <<lab, module, step, pending, held>>
           /\ Loaded' /\ Undone' /\ Out' /\ NotYet' /\ NeedsHeld'
<1>1. UNCHANGED <<lab, module, step, pending, held>>
    BY DEF FileStep, Open, CounterRead, CounterWrite, Read, Write, Request,
       Close, loadVars
<1> QED
    BY <1>1 DEF IInv, Loaded, Undone, Out, NotYet, NeedsHeld, S, At, LeftNow,
       Now

\* Where a file that is open reads and writes.
LEMMA BufferThere ==
    ASSUME IInv, NEW f \in Files, file[f] # "closed"
    PROVE  Buffer(f) \in buffers
<1>1. ~Closed /\ module = "live" /\ NodeOf(lab) \in held /\ Memory
    BY DEF Closed, IInv, OpenWhileLive
<1>2. CASE lab = "memory"
    BY <1>1, <1>2 DEF Memory, OwnBuffers, Buffer
<1>3. CASE lab = "cache"
    BY <1>1, <1>3 DEF Memory, OneBuffer, Buffer
<1>4. CASE lab \notin PerOpen
    <2>1. Follows(S, held, Len(S) + 1) /\ Reached(lab, S)
        BY <1>1, TableInOrder DEF IInv, Loaded, At, InOrder
    <2>2. NodeOf(lab) # "none"
        BY <1>1, <2>1 DEF Follows, Reached
    <2>3. "ramdisk" \in held
        BY <1>4, <2>1, <2>2 DEF Follows, Reached
    <2> QED
        BY <1>1, <1>4, <2>3 DEF Memory, SharedBuffer, Buffer, PerOpen
<1> QED
    BY <1>2, <1>3, <1>4 DEF PerOpen

LEMMA FilesShape ==
    ASSUME IInv, NEW f \in Files, FileStep(f)
    PROVE  Shape'
<1>0. Shape /\ S' = S
    BY FilesLeave DEF IInv, S
<1>1. CASE Open(f)
    <2>1. PICK b \in Buffers \cup {None} :
              /\ KmallocPrivate(f, b) \/ CacheAlloc(f, b) \/ NoAlloc(f, b)
              /\ buffers' = buffers \cup ({b} \ {None})
              /\ author' = IF b = None THEN author
                                ELSE [author EXCEPT ![b] = {}]
        BY <1>1 DEF Open
    <2>2. /\ author' \in [Buffers -> SUBSET Files]
          /\ buffers' \subseteq Buffers /\ strayed' \subseteq Files
        BY <1>0, <1>1, <2>1 DEF Shape, Open
    <2>3. /\ file' \in [Files -> {"closed", "count", "written", "open"}]
          /\ ramdisk' \in Buffers \cup {None}
          /\ private' \in [Files -> Buffers \cup {None}]
        BY <1>0, <2>1 DEF Shape, KmallocPrivate, CacheAlloc, NoAlloc,
           OpenFile
    <2> QED
        BY <1>0, <1>1, <2>2, <2>3, FilesLeave DEF Shape
<1>2. CASE CounterRead(f) \/ CounterWrite(f)
    BY <1>0, <1>2, FilesLeave DEF CounterRead, CounterWrite, memVars, Shape
<1>3. CASE Read(f) \/ Write(f)
    <2>1. author' \in [Buffers -> SUBSET Files]
        BY <1>0, <1>3 DEF Read, Write, Shape
    <2> QED
        BY <1>0, <1>3, <2>1, FilesLeave DEF Read, Write, Request, Shape
<1>4. CASE Close(f)
    BY <1>0, <1>4, FilesLeave DEF Close, Shape
<1> QED
    BY <1>1, <1>2, <1>3, <1>4 DEF FileStep

\* The buffer of a file that is opened is nobody else's, ...
LEMMA OpenMemory ==
    ASSUME Exclusive, IInv, NEW f \in Files, Open(f)
    PROVE  Memory' /\ OpenWhileLive' /\ OneAtATime' /\ Right'
<1>0. /\ Memory /\ OneAtATime /\ Right /\ UNCHANGED <<lab, module, held>>
      /\ module = "live" /\ NodeOf(lab) \in held
      /\ file \in [Files -> {"closed", "count", "written", "open"}]
      /\ private \in [Files -> Buffers \cup {None}]
      /\ author \in [Buffers -> SUBSET Files] /\ buffers \subseteq Buffers
    BY OpensLive DEF IInv, Shape, Open, loadVars
<1>1. PICK b \in Buffers \cup {None} :
          /\ KmallocPrivate(f, b) \/ CacheAlloc(f, b) \/ NoAlloc(f, b)
          /\ lab \in {"memory", "cache"} => b \notin buffers
          /\ buffers' = buffers \cup ({b} \ {None})
          /\ author' = IF b = None THEN author ELSE [author EXCEPT ![b] = {}]
    BY DEF Open
<1>2. /\ file[f] = "closed"
      /\ lab \in OneOpen => Closed
      /\ wrong' = wrong /\ strayed' = strayed
    BY DEF Open, Closed
<1>3. \/ file' = [file EXCEPT ![f] = "count"]
      \/ file' = file /\ lab = "cache" /\ b = None
    BY <1>1 DEF KmallocPrivate, CacheAlloc, NoAlloc, OpenFile
<1>4. OpenWhileLive' /\ Right'
    BY <1>0, <1>2 DEF OpenWhileLive, Right
<1>5. OneAtATime'
    BY <1>0, <1>2, <1>3 DEF OneAtATime, Closed
<1>6. CASE lab = "memory"
    <2>1. /\ b \in Buffers \ buffers /\ b # None
          /\ private' = [private EXCEPT ![f] = b]
          /\ file' = [file EXCEPT ![f] = "count"]
          /\ buffers' = buffers \cup {b}
          /\ author' = [author EXCEPT ![b] = {}]
        BY <1>1, <1>6 DEF KmallocPrivate, CacheAlloc, NoAlloc, OpenFile
    <2>2. \A g \in Files :
              /\ file'[g] # "closed" <=> file[g] # "closed" \/ g = f
              /\ private'[g] = IF g = f THEN b ELSE private[g]
        BY <1>0, <2>1
    <2>0. OwnBuffers
        BY <1>0, <1>6 DEF Memory
    <2>3. \A g \in Files :
              file[g] # "closed" =>
                  private[g] \in buffers /\ private[g] # b /\ g # f
        BY <1>2, <2>0, <2>1 DEF OwnBuffers
    <2>4. buffers' = {private'[g] : g \in {h \in Files : file'[h] # "closed"}}
        BY <2>0, <2>1, <2>2, <2>3 DEF OwnBuffers
    <2>5. None \notin buffers'
        BY <2>0, <2>1 DEF OwnBuffers
    <2>6. \A g, h \in Files :
              g # h /\ file'[g] # "closed" /\ file'[h] # "closed"
                  => private'[g] # private'[h]
        BY <2>0, <2>2, <2>3 DEF OwnBuffers
    <2>7. \A g \in Files :
              file'[g] # "closed" =>
                  author'[private'[g]] \subseteq {g} \cup strayed'
        BY <1>0, <1>2, <2>0, <2>1, <2>2, <2>3 DEF OwnBuffers
    <2>8. OwnBuffers'
        BY <2>4, <2>5, <2>6, <2>7 DEF OwnBuffers
    <2> QED
        BY <1>0, <1>4, <1>5, <1>6, <2>8 DEF Memory, PerOpen
<1>7. CASE lab = "cache"
    <2>1. Closed /\ buffers = {}
        BY <1>0, <1>2, <1>7 DEF Exclusive, IInv, Shape, Memory, OneBuffer
    <2>2. ramdisk' = b
        BY <1>1, <1>7 DEF KmallocPrivate, CacheAlloc, NoAlloc
    <2>3. b = None => Closed'
        BY <1>1, <1>7, <2>1
           DEF KmallocPrivate, CacheAlloc, NoAlloc, Closed
    <2>4. b # None => ~Closed'
        BY <1>0, <1>1, <1>7
           DEF KmallocPrivate, CacheAlloc, NoAlloc, OpenFile, Closed
    <2>5. OneBuffer'
        BY <1>1, <2>1, <2>2, <2>3, <2>4 DEF OneBuffer
    <2> QED
        BY <1>0, <1>4, <1>5, <1>7, <2>5 DEF Memory, PerOpen
<1>8. CASE lab \notin PerOpen
    <2>1. b = None /\ UNCHANGED <<ramdisk, held>> /\ buffers' = buffers
        BY <1>0, <1>1, <1>8 DEF KmallocPrivate, CacheAlloc, NoAlloc, PerOpen
    <2>2. SharedBuffer'
        BY <1>0, <1>8, <2>1 DEF Memory, SharedBuffer
    <2> QED
        BY <1>0, <1>4, <1>5, <1>8, <2>2 DEF Memory, PerOpen
<1> QED
    BY <1>4, <1>5, <1>6, <1>7, <1>8 DEF PerOpen

\* ... what is written goes to one's own, and a file that is closed gives
\* back what it got.
LEMMA FilesMemory ==
    ASSUME Exclusive, IInv, NEW f \in Files, FileStep(f)
    PROVE  Memory' /\ OpenWhileLive' /\ OneAtATime' /\ Right'
<1>0. /\ Memory /\ OneAtATime /\ OpenWhileLive /\ Right
      /\ UNCHANGED <<lab, module, held>>
      /\ file \in [Files -> {"closed", "count", "written", "open"}]
      /\ private \in [Files -> Buffers \cup {None}]
      /\ author \in [Buffers -> SUBSET Files] /\ buffers \subseteq Buffers
    BY FilesLeave DEF IInv, Shape
<1>1. CASE Open(f)
    BY <1>1, OpenMemory
<1>2. CASE CounterRead(f) \/ CounterWrite(f) \/ Read(f) \/ Write(f)
    <2>1. /\ \A g \in Files : file'[g] # "closed" <=> file[g] # "closed"
          /\ UNCHANGED <<buffers, ramdisk, private, wrong>>
          /\ file[f] # "closed"
        BY <1>0, <1>2 DEF CounterRead, CounterWrite, Read, Write, Request,
           memVars
    <2>2. Closed' <=> Closed
        BY <2>1 DEF Closed
    <2>3. lab = "memory" =>
              \A g \in Files :
                  file[g] # "closed" =>
                      author'[private[g]] \subseteq {g} \cup strayed'
        <3>1. CASE CounterRead(f) \/ CounterWrite(f) \/ Read(f)
            BY <1>0, <3>1 DEF CounterRead, CounterWrite, Read, Memory,
               OwnBuffers, memVars
        <3>2. CASE lab = "memory" /\ Write(f)
            <4>1. \A g \in Files :
                      file[g] # "closed" =>
                          /\ private[g] \in Buffers
                          /\ author[private[g]] \subseteq {g} \cup strayed
                          /\ g # f => private[g] # private[f]
                BY <1>0, <2>1, <3>2 DEF Memory, OwnBuffers
            <4>2. PICK hit \in SUBSET (IF PastEnd(f) THEN buffers ELSE {}) :
                      author' = [b \in Buffers |->
                                    IF b \in hit \cup {private[f]}
                                    THEN author[b] \cup {f} ELSE author[b]]
                BY <3>2 DEF Write, Buffer
            <4>3. /\ strayed \subseteq strayed'
                  /\ PastEnd(f) => f \in strayed'
                BY <3>2 DEF Write
            <4>4. SUFFICES ASSUME NEW g \in Files, file[g] # "closed"
                           PROVE  author'[private[g]]
                                      \subseteq {g} \cup strayed'
                OBVIOUS
            <4>5. author'[private[g]]
                      \subseteq author[private[g]] \cup
                        (IF PastEnd(f) \/ g = f THEN {f} ELSE {})
                BY <2>1, <4>1, <4>2, <4>4
            <4> QED
                BY <4>1, <4>3, <4>4, <4>5
        <3> QED
            BY <1>2, <3>1, <3>2
    <2>4. lab = "memory" => OwnBuffers'
        BY <1>0, <2>1, <2>3 DEF Memory, OwnBuffers
    <2>5. /\ lab = "cache" => OneBuffer'
          /\ lab \notin PerOpen => SharedBuffer'
        BY <1>0, <2>1, <2>2 DEF Memory, OneBuffer, SharedBuffer
    <2>6. Memory'
        BY <1>0, <2>4, <2>5 DEF Memory
    <2> QED
        BY <1>0, <2>1, <2>2, <2>6 DEF OpenWhileLive, OneAtATime, Right
<1>3. CASE Close(f)
    <2>1. /\ file[f] # "closed" /\ file' = [file EXCEPT ![f] = "closed"]
          /\ private' = [private EXCEPT ![f] = None]
          /\ UNCHANGED <<ramdisk, author, strayed>>
          /\ LET freed == IF lab \in {"memory", "cache"} THEN {Buffer(f)}
                                                        ELSE {}
             IN  /\ buffers' = buffers \ freed
                 /\ wrong' = wrong \cup (freed \ buffers)
        BY <1>3 DEF Close
    <2>2. wrong' = wrong
        BY <2>1, BufferThere
    <2>3. /\ \A g \in Files :
                file'[g] # "closed" <=> file[g] # "closed" /\ g # f
          /\ \A g \in Files : g # f => private'[g] = private[g]
          /\ ~Closed
        BY <1>0, <2>1 DEF Closed
    <2>4. OpenWhileLive' /\ OneAtATime' /\ Right'
        BY <1>0, <2>2, <2>3 DEF OpenWhileLive, OneAtATime, Right, Closed
    <2>5. CASE lab = "memory"
        <3>1. buffers' = buffers \ {private[f]}
            BY <2>1, <2>5 DEF Buffer
        <3>2. buffers' = {private'[g] :
                              g \in {h \in Files : file'[h] # "closed"}}
            BY <1>0, <2>1, <2>3, <2>5, <3>1 DEF Memory, OwnBuffers
        <3>3. /\ None \notin buffers'
              /\ \A g, h \in Files :
                    g # h /\ file'[g] # "closed" /\ file'[h] # "closed"
                        => private'[g] # private'[h]
              /\ \A g \in Files :
                    file'[g] # "closed" =>
                        author'[private'[g]] \subseteq {g} \cup strayed'
            BY <1>0, <2>1, <2>3, <2>5, <3>1 DEF Memory, OwnBuffers
        <3>4. OwnBuffers'
            BY <3>2, <3>3 DEF OwnBuffers
        <3> QED
            BY <1>0, <2>4, <2>5, <3>4 DEF Memory, PerOpen
    <2>6. CASE lab = "cache"
        <3>1. Closed'
            BY <1>0, <2>1, <2>3, <2>6
               DEF OneAtATime, Exclusive, IInv, Shape, Closed
        <3>2. buffers' = {}
            BY <1>0, <2>1, <2>3, <2>6 DEF Memory, OneBuffer, Buffer
        <3>3. OneBuffer'
            BY <3>1, <3>2 DEF OneBuffer
        <3> QED
            BY <1>0, <2>4, <2>6, <3>3 DEF Memory, PerOpen
    <2>7. CASE lab \notin PerOpen
        <3>1. SharedBuffer'
            BY <1>0, <2>1, <2>7 DEF Memory, SharedBuffer, PerOpen
        <3> QED
            BY <1>0, <2>4, <2>7, <3>1 DEF Memory, PerOpen
    <2> QED
        BY <2>4, <2>5, <2>6, <2>7 DEF PerOpen
<1> QED
    BY <1>1, <1>2, <1>3 DEF FileStep

LEMMA FilesIInv ==
    ASSUME Exclusive, IInv, NEW f \in Files, FileStep(f)
    PROVE  IInv'
BY FilesLeave, FilesShape, FilesMemory DEF IInv

LEMMA StutterIInv == IInv /\ UNCHANGED vars => IInv'
<1> SUFFICES ASSUME IInv, UNCHANGED vars PROVE IInv'
    OBVIOUS
<1> QED
    BY DEF vars, loadVars, memVars, countVars, fileVars, IInv, Shape, Loaded,
       Undone, Out, NotYet, OpenWhileLive, OneAtATime, Memory, OwnBuffers,
       OneBuffer, SharedBuffer, Right,
       NeedsHeld, S, At, LeftNow, Now, Closed

-----------------------------------------------------------------------------

\* The inductive invariant: the driver holds what its table says it got and
\* has not released, and what is open leads to memory that is there.
THEOREM Invariance == ASSUME Exclusive PROVE Spec => []IInv
<1>1. Init => IInv
    BY InitIInv
<1>2. IInv /\ [Next]_vars => IInv'
    BY ModuleStep, FilesIInv, StutterIInv DEF Next
<1> QED
    BY <1>1, <1>2, PTL DEF Spec

\* A module that is out has left nothing behind but what Left lists, and
\* nothing was released that was not held but what it could not know of.
THEOREM NothingLeftBehind == ASSUME Exclusive PROVE Spec => []NothingLeft
<1>1. IInv => NothingLeft
    <2> SUFFICES ASSUME IInv PROVE NothingLeft
        OBVIOUS
    <2>1. /\ lab = "sample" => wrong \subseteq {"region"}
          /\ lab = "dma" => wrong \subseteq {"poolbuf"}
          /\ lab \notin {"sample", "dma"} => wrong \subseteq {}
        BY DEF IInv, Right, Unsure
    <2>2. CASE module = "out"
        <3>1. held \subseteq Left(IF step = 0 THEN "none" ELSE Now.thing)
            BY <2>2, LeftRead DEF IInv, Out, LeftNow
        <3>2. Closed
            BY <2>2 DEF IInv, OpenWhileLive
        <3>3. "ramdisk" \notin held => buffers = {}
            BY <3>2 DEF IInv, Memory, OwnBuffers, OneBuffer, SharedBuffer,
               Closed, PerOpen
        <3> QED
            BY <2>1, <3>1, <3>3 DEF NothingLeft
    <2>3. CASE module # "out"
        BY <2>1, <2>3 DEF NothingLeft
    <2> QED
        BY <2>2, <2>3
<1> QED
    BY <1>1, Invariance, PTL

\* At every moment what is held has what it needs.
THEOREM NothingInUseGoes == ASSUME Exclusive PROVE Spec => []NeedsHeld
BY Invariance, PTL DEF IInv

\* An open file is served by a driver that is registered, from a buffer that
\* is allocated and, in memory_allocation.c, its own, but for those who write
\* past the end.
THEOREM FilesAreServed == ASSUME Exclusive PROVE Spec => []OpenFileServed
<1>1. IInv => OpenFileServed
    <2> SUFFICES ASSUME IInv, NEW f \in Files, file[f] # "closed"
                 PROVE  /\ module # "out" /\ Node \in held
                        /\ Buffer(f) \in buffers
                        /\ lab = "memory" =>
                              author[Buffer(f)] \subseteq {f} \cup strayed
        BY DEF OpenFileServed
    <2>1. module = "live" /\ Node \in held
        BY NodeRead DEF IInv, OpenWhileLive, Closed
    <2>2. Buffer(f) \in buffers
        BY BufferThere
    <2>3. lab = "memory" => author[Buffer(f)] \subseteq {f} \cup strayed
        BY DEF IInv, Memory, OwnBuffers, Buffer
    <2> QED
        BY <2>1, <2>2, <2>3
<1> QED
    BY <1>1, Invariance, PTL

-----------------------------------------------------------------------------
(* The position of a file. *)

\* Every request stays within the device, whichever of the two ways its driver
\* has to see to that, if it has one.
Within ==
    /\ pos \in [Files -> 0..MaxPos] /\ done \in [Files -> 0..MaxPos]
    /\ \A f \in Files :
          pos[f] = done[f] /\ (lab \notin Unchecked => pos[f] <= Size)

LEMMA BytesRead ==
    \A f, n : BytesToDo(f, n) =
        IF lab \in {"sample", "samplemisc"} THEN RefuseAtEnd(f, n)
        ELSE IF lab \in Unchecked THEN n
        ELSE ClampToEnd(f, n)
BY DEF BytesToDo, Unchecked

LEMMA RequestWithin ==
    ASSUME Within, NEW f \in Files, Request(f)
    PROVE  Within'
<1>1. PICK n \in 1..(Size + 1) :
          /\ pos[f] + BytesToDo(f, n) <= MaxPos
          /\ \E left \in 0..BytesToDo(f, n) :
                Transfer(f, BytesToDo(f, n), left)
    BY DEF Request
<1> DEFINE todo == BytesToDo(f, n)
<1>2. PICK left \in 0..todo : Transfer(f, todo, left)
    BY <1>1
<1>3. /\ Size \in Nat /\ MaxPos \in Nat /\ pos[f] \in 0..MaxPos
      /\ n \in 1..(Size + 1) /\ (lab \notin Unchecked => pos[f] <= Size)
      /\ lab' = lab
    BY ConstantsAssumption DEF Within, Request
<1>4. /\ todo \in Int /\ pos[f] + todo <= MaxPos
      /\ lab \notin Unchecked => pos[f] + todo <= Size
    BY <1>1, <1>3, BytesRead DEF RefuseAtEnd, ClampToEnd, Min2, Unchecked
<1> HIDE DEF todo
<1>5. /\ pos[f] + todo - left \in 0..MaxPos
      /\ lab \notin Unchecked => pos[f] + todo - left <= Size
    BY <1>3, <1>4
<1> QED
    BY <1>2, <1>3, <1>5 DEF Transfer, Within

LEMMA NextWithin == Within /\ [Next]_vars => Within'
<1> SUFFICES ASSUME Within, [Next]_vars PROVE Within'
    OBVIOUS
<1>1. CASE Loading \/ Unloading \/ UNCHANGED vars
    BY <1>1 DEF Loading, Unloading, Insmod, StageSucceeds, StageReleases,
       StageFailsUnseen, StageFails, Rmmod, ReleaseNext, Leave, vars,
       fileVars, Within
<1>2. ASSUME NEW f \in Files, FileStep(f) PROVE Within'
    <2>1. CASE Read(f) \/ Write(f)
        BY <2>1, RequestWithin DEF Read, Write
    <2>2. CASE Close(f)
        BY <2>2, ConstantsAssumption DEF Close, Within
    <2>3. CASE Open(f) \/ CounterRead(f) \/ CounterWrite(f)
        BY <2>3 DEF Open, CounterRead, CounterWrite, Within
    <2> QED
        BY <1>2, <2>1, <2>2, <2>3 DEF FileStep
<1> QED
    BY <1>1, <1>2 DEF Next

\* A file's position is the number of bytes its process was told of, and lies
\* within the device wherever the driver looks where that ends.
THEOREM PositionsCount == Spec => []PositionCounts
<1>1. Init => Within
    BY ConstantsAssumption DEF Init, Within
<1>2. Within => PositionCounts
    BY ConstantsAssumption DEF Within, PositionCounts
<1> QED
    BY <1>1, <1>2, NextWithin, PTL DEF Spec

-----------------------------------------------------------------------------
(* The types, and how high the driver counts. *)

LEMMA TablesAreSequences ==
    \A l \in Drivers : DOMAIN InitOrder[l] = 1..Len(InitOrder[l])
<1> USE DEF Stage, Get, Try, Hope, Put
<1>1. DOMAIN CdevInit = 1..Len(CdevInit)
    BY DEF CdevInit
<1>2. DOMAIN UdevInit = 1..Len(UdevInit)
    BY DEF CdevInit, UdevInit
<1>3. DOMAIN MiscInit = 1..Len(MiscInit)
    BY DEF MiscInit
<1>4. DOMAIN MemoryInit = 1..Len(MemoryInit)
    BY DEF MemoryInit
<1>5. DOMAIN CacheInit = 1..Len(CacheInit)
    BY DEF CacheInit
<1>6. DOMAIN SampleInit = 1..Len(SampleInit)
    BY DEF SampleInit
<1>7. DOMAIN FwcharInit = 1..Len(FwcharInit)
    BY DEF CdevInit, UdevInit, FwcharInit
<1>8. DOMAIN QueueInit = 1..Len(QueueInit)
    BY DEF MiscInit, QueueInit
<1>9. DOMAIN DmaInit = 1..Len(DmaInit)
    BY DEF MiscInit, DmaInit
<1>10. DOMAIN FirmwareInit = 1..Len(FirmwareInit)
    BY DEF FirmwareInit
<1>11. DOMAIN UioInit = 1..Len(UioInit)
    BY DEF UioInit
<1>12. DOMAIN KprobesInit = 1..Len(KprobesInit)
    BY DEF KprobesInit
<1>13. DOMAIN HrkprobesInit = 1..Len(HrkprobesInit)
    BY DEF HrkprobesInit
<1>14. DOMAIN KsetInit = 1..Len(KsetInit)
    BY DEF KsetInit
<1>15. DOMAIN KobjectInit = 1..Len(KobjectInit)
    BY DEF KobjectInit
<1>16. DOMAIN PlatformInit = 1..Len(PlatformInit)
    BY DEF PlatformInit
<1>17. DOMAIN UsbInit = 1..Len(UsbInit)
    BY DEF UsbInit
<1> QED
    BY <1>1, <1>2, <1>3, <1>4, <1>5, <1>6, <1>7, <1>8, <1>9, <1>10, <1>11,
       <1>12, <1>13, <1>14, <1>15, <1>16, <1>17
       DEF Drivers, InitOrder

LEMMA StageIsThing ==
    ASSUME lab \in Labs
    PROVE  /\ \A i \in 1..Len(S) : S[i].thing \in Things
           /\ Unsure(lab) \subseteq Things
<1>1. lab \in Drivers /\ DOMAIN S = 1..Len(S)
    BY TablesAreSequences, ConstantsAssumption DEF S
<1>2. \A i \in 1..Len(S) : S[i].thing \in Things
    BY <1>1 DEF Things, S
<1>3. CASE lab = "sample"
    <2>1. Len(S) = 4 /\ S[2].thing = "region"
        BY <1>3 DEF S, InitOrder, SampleInit, Get, Hope, Stage
    <2> QED
        BY <1>2, <1>3, <2>1 DEF Unsure
<1>4. CASE lab = "dma"
    <2>1. Len(S) = 14 /\ S[12].thing = "poolbuf"
        BY <1>4
           DEF S, InitOrder, DmaInit, MiscInit, Get, Hope, Put, Try, Stage
    <2> QED
        BY <1>2, <1>4, <2>1 DEF Unsure
<1> QED
    BY <1>2, <1>3, <1>4 DEF Unsure

\* What there is to be released is what the table names, and there is nothing
\* else to do for a module that is not on its way out.
Listed ==
    /\ held \subseteq Things /\ pending \in Seq(Things)
    /\ module \in {"out", "loading", "live"} => pending = <<>>

LEMMA ReleasesListed ==
    ASSUME NEW l, NEW h, NEW p, NEW left, NEW T,
           Releases(l, h, p, left), h \cup Unsure(l) \subseteq T
    PROVE  p \in Seq(T)
<1>1. p \in Seq(Names) /\ \A j \in 1..Len(p) : p[j] \in T
    BY DEF Releases
<1>2. p \in [1..Len(p) -> Names] /\ Len(p) \in Nat
    BY <1>1, LenProperties
<1>3. p \in [1..Len(p) -> T]
    BY <1>1, <1>2
<1> QED
    BY <1>2, <1>3, SeqDef

LEMMA ListedStep == ASSUME IInv, IInv', Listed, [Next]_vars PROVE Listed'
<1>l. lab' = lab
    BY FilesClosed, FilesLeave DEF Next, vars
<1>s. /\ \A i \in 1..Len(S) : S[i].thing \in Things
      /\ Unsure(lab') \subseteq Things
    BY <1>l, StageIsThing DEF IInv, Shape
<1>1. ASSUME NEW f \in Files, FileStep(f) PROVE Listed'
    BY <1>1, FilesLeave DEF Listed
<1>2. CASE UNCHANGED vars
    BY <1>2 DEF vars, loadVars, Listed
<1>3. CASE Insmod \/ Leave
    BY <1>3 DEF Insmod, Leave, Listed
<1>4. CASE StageSucceeds \/ StageReleases \/ StageFailsUnseen
    <2>1. Continue /\ UNCHANGED lab /\ module = "loading"
        BY <1>4 DEF StageSucceeds, StageReleases, StageFailsUnseen, Continue
    <2>2. step \in 1..Len(S) /\ Now = S[step]
        BY <2>1, NextAt
    <2>3. held' \subseteq Things
        BY <1>s, <1>4, <2>2 DEF StageSucceeds, StageReleases,
           StageFailsUnseen, Release, Listed
    <2> QED
        BY <1>4, <2>1, <2>3 DEF StageSucceeds, StageReleases,
           StageFailsUnseen, Listed, Continue
<1>5. CASE StageFails \/ Rmmod \/ ReleaseNext
    <2>1. held' \subseteq Things
        BY <1>5 DEF StageFails, Rmmod, ReleaseNext, Release, Listed
    <2>2. module' \in {"undoing", "unloading"}
        BY <1>5 DEF StageFails, Rmmod, ReleaseNext
    <2>3. Releases(lab', held', pending', LeftNow')
        BY <2>2 DEF IInv, Undone
    <2>4. pending' \in Seq(Things)
        BY <1>s, <2>1, <2>3, ReleasesListed
    <2> QED
        BY <2>1, <2>2, <2>4 DEF Listed
<1> QED
    BY <1>1, <1>2, <1>3, <1>4, <1>5 DEF Next, Loading, Unloading

\* Files whose open() is not through.
Opening == {f \in Files : file[f] \in {"count", "written"}}

\* An open() that is lost makes the counter too low, and none too high: each
\* one that is under way has its own opening to count.
NotAhead ==
    /\ opens \in 0..MaxOpens /\ IsFiniteSet(Opening)
    /\ counter \in Nat /\ counter + Cardinality(Opening) <= opens
    /\ read \in [Files -> Nat]
    /\ \A f \in Files :
            file[f] = "written" => read[f] + Cardinality(Opening) <= opens
    /\ \A f \in Files : file[f] # "written" => read[f] = 0

LEMMA NotAheadStep == ASSUME IInv, NotAhead, [Next]_vars PROVE NotAhead'
<1>c. Cardinality(Opening) \in Nat
    BY FS_CardinalityType DEF NotAhead
<1>k. ASSUME Opening' = Opening, UNCHANGED <<countVars, read, file>>
      PROVE  NotAhead'
    BY <1>k DEF NotAhead, countVars
<1>1. CASE Loading \/ Unloading \/ UNCHANGED vars
    <2>1. CASE Insmod
        <3>1. Closed /\ file' = file
            BY <2>1, FilesClosed DEF Loading
        <3>2. Opening = {} /\ Opening' = {}
            BY <3>1 DEF Closed, Opening
        <3>3. \A f \in Files : file[f] # "written" /\ file'[f] # "written"
            BY <3>1 DEF Closed
        <3>4. counter' = 0 /\ opens' = 0 /\ read' = read
            BY <2>1 DEF Insmod, fileVars
        <3> QED
            BY <3>2, <3>3, <3>4, FS_EmptySet, ConstantsAssumption DEF NotAhead
    <2>2. CASE ~Insmod
        <3>1. UNCHANGED <<countVars, read, file>>
            BY <1>1, <2>2 DEF Loading, Unloading, StageSucceeds,
               StageReleases, StageFailsUnseen, StageFails, Rmmod,
               ReleaseNext, Leave, vars, fileVars
        <3> QED
            BY <3>1, <1>k DEF Opening
    <2> QED
        BY <2>1, <2>2
<1>2. ASSUME NEW f \in Files, FileStep(f) PROVE NotAhead'
    <2> USE DEF IInv, Shape
    <2>1. CASE Open(f)
        <3>1. \/ file' = file /\ opens' = opens
              \/ OpenFile(f) /\ opens' = opens + 1
            BY <2>1 DEF Open, KmallocPrivate, CacheAlloc, NoAlloc
        <3>2. file[f] = "closed" /\ opens < MaxOpens /\ counter' = counter
              /\ read' = read
            BY <2>1 DEF Open
        <3>3. CASE file' = file /\ opens' = opens
            BY <3>2, <3>3, <1>k DEF Opening, countVars
        <3>4. CASE OpenFile(f) /\ opens' = opens + 1
            <4>1. /\ Opening' = Opening \cup {f} /\ f \notin Opening
                  /\ \A g \in Files : file'[g] = "written"
                                          <=> file[g] = "written"
                BY <3>2, <3>4 DEF OpenFile, Opening
            <4>2. /\ IsFiniteSet(Opening')
                  /\ Cardinality(Opening') = Cardinality(Opening) + 1
                BY <4>1, FS_AddElement DEF NotAhead
            <4>3. opens' \in 0..MaxOpens
                BY <3>2, <3>4, ConstantsAssumption DEF NotAhead
            <4>4. counter' + Cardinality(Opening') <= opens'
                BY <1>c, <3>2, <3>4, <4>2 DEF NotAhead
            <4>5. \A g \in Files : file'[g] = "written" =>
                      read'[g] + Cardinality(Opening') <= opens'
                BY <1>c, <3>2, <3>4, <4>1, <4>2 DEF NotAhead
            <4> QED
                BY <3>2, <4>1, <4>2, <4>3, <4>4, <4>5 DEF NotAhead
        <3> QED
            BY <3>1, <3>3, <3>4
    <2>2. CASE CounterRead(f)
        <3>1. Opening' = Opening
            BY <2>2 DEF CounterRead, Opening
        <3>2. /\ file[f] = "count" /\ file'[f] = "written"
              /\ read'[f] = counter
            BY <2>2 DEF CounterRead, NotAhead
        <3>3. \A g \in Files : g # f => file'[g] = file[g]
                                      /\ read'[g] = read[g]
            BY <2>2 DEF CounterRead, NotAhead
        <3>4. /\ counter' = counter /\ opens' = opens
              /\ read' \in [Files -> Nat]
            BY <2>2 DEF CounterRead, countVars, NotAhead
        <3>5. \A g \in Files : file'[g] = "written" =>
                  read'[g] + Cardinality(Opening') <= opens'
            BY <1>c, <3>1, <3>2, <3>3, <3>4 DEF NotAhead
        <3> QED
            BY <3>1, <3>2, <3>3, <3>4, <3>5 DEF NotAhead
    <2>3. CASE CounterWrite(f)
        <3>1. Opening' = Opening \ {f} /\ f \in Opening
            BY <2>3 DEF CounterWrite, Opening
        <3>2. /\ IsFiniteSet(Opening')
              /\ Cardinality(Opening') = Cardinality(Opening) - 1
            BY <3>1, FS_RemoveElement DEF NotAhead
        <3>3. /\ file[f] = "written" /\ counter' = read[f] + 1
              /\ opens' = opens /\ read' \in [Files -> Nat]
            BY <2>3 DEF CounterWrite, NotAhead
        <3>4. \A g \in Files : file'[g] = "written" => file[g] = "written"
            BY <2>3 DEF CounterWrite
        <3>5. \A g \in Files : file'[g] # "written" => read'[g] = 0
            BY <2>3 DEF CounterWrite, NotAhead
        <3>6. \A g \in Files : file'[g] = "written" => read'[g] = read[g]
            BY <2>3 DEF CounterWrite, NotAhead
        <3>7. /\ counter' \in Nat /\ counter' + Cardinality(Opening') <= opens'
              /\ opens' \in 0..MaxOpens
            BY <1>c, <3>2, <3>3 DEF NotAhead
        <3>8. \A g \in Files : file'[g] = "written" =>
                  read'[g] + Cardinality(Opening') <= opens'
            <4> SUFFICES ASSUME NEW g \in Files, file'[g] = "written"
                         PROVE  read'[g] + Cardinality(Opening') <= opens'
                OBVIOUS
            <4>1. read[g] \in Nat /\ opens \in Nat /\ read'[g] = read[g]
                BY <3>6, ConstantsAssumption DEF NotAhead
            <4>2. read[g] + Cardinality(Opening) <= opens
                BY <3>4 DEF NotAhead
            <4> QED
                BY <1>c, <3>2, <3>3, <4>1, <4>2
        <3> QED
            BY <3>2, <3>3, <3>5, <3>7, <3>8 DEF NotAhead
    <2>4. CASE Read(f) \/ Write(f) \/ Close(f)
        <3>1. Opening' = Opening
            BY <2>4 DEF Read, Write, Request, Close, Opening
        <3>2. UNCHANGED <<countVars, read>>
              /\ \A g \in Files : file'[g] = "written" <=> file[g] = "written"
            BY <2>4 DEF Read, Write, Request, Close
        <3> QED
            BY <3>1, <3>2 DEF NotAhead, countVars
    <2> QED
        BY <1>2, <2>1, <2>2, <2>3, <2>4 DEF FileStep
<1> QED
    BY <1>1, <1>2 DEF Next

\* The types; that the counter, whose increments may be lost, is never above
\* the number of opens, is among them.
THEOREM TypeCorrect == ASSUME Exclusive PROVE Spec => []TypeOK
<1>1. Init => Listed /\ NotAhead /\ Within
    <2> SUFFICES ASSUME Init PROVE Listed /\ NotAhead /\ Within
        OBVIOUS
    <2>1. Opening = {}
        BY DEF Init, Opening
    <2>2. NotAhead
        BY <2>1, FS_EmptySet, ConstantsAssumption DEF Init, NotAhead
    <2>3. Listed
        BY DEF Init, Listed
    <2> QED
        BY <2>2, <2>3, ConstantsAssumption DEF Init, Within
<1>2. IInv /\ Listed /\ NotAhead /\ Within => TypeOK
    <2> SUFFICES ASSUME IInv, Listed, NotAhead, Within PROVE TypeOK
        OBVIOUS
    <2>1. opens \in 0..MaxOpens /\ counter \in 0..opens
          /\ read \in [Files -> 0..MaxOpens]
        <3>1. Cardinality(Opening) \in Nat
            BY FS_CardinalityType DEF NotAhead
        <3>2. \A f \in Files : read[f] \in 0..MaxOpens
            BY <3>1, ConstantsAssumption DEF NotAhead
        <3> QED
            BY <3>1, <3>2 DEF NotAhead
    <2>2. wrong \subseteq Things \cup Buffers
        BY StageIsThing DEF IInv, Right, Shape
    <2>3. step \in 0..Len(InitOrder[lab])
        BY DEF IInv, Shape, S
    <2> QED
        BY <2>1, <2>2, <2>3 DEF TypeOK, IInv, Shape, Listed, Within
<1> QED
    BY <1>1, <1>2, ListedStep, NotAheadStep, NextWithin, Invariance, PTL
       DEF Spec

=============================================================================
