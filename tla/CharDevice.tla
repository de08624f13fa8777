----------------------------- MODULE CharDevice -----------------------------
(***************************************************************************)
(* How the drivers of module LoadOrders load stage by stage, undo a load   *)
(* that fails and unload, and how the character drivers among them, those  *)
(* of chapter_11_character_drivers and chapter 13 above all, serve the     *)
(* files that are open meanwhile.                                          *)
(*                                                                         *)
(* Allocations the code does not check are assumed to succeed.  rmmod is   *)
(* refused while a file is open and open() while the module goes: the      *)
(* drivers' .owner = THIS_MODULE.                                          *)
(***************************************************************************)
EXTENDS LoadOrders, Integers, FiniteSets

CONSTANTS
    Labs,       \* the labs a run is about
    OneOpen,    \* those whose device one process at a time has open
    LoadFirst,  \* those nobody opens before they are loaded
    Files,      \* open files
    Buffers,    \* memory for buffers
    None,       \* the NULL pointer
    Size,       \* ramdisk_size
    MaxPos,     \* bound: the position a request leads to
    MaxOpens    \* bound: opens between loading and unloading

ASSUME ConstantsAssumption ==
    /\ Labs \subseteq Drivers /\ OneOpen \subseteq Labs
    /\ LoadFirst \subseteq Labs
    /\ Size \in Nat \ {0} /\ MaxOpens \in Nat
    /\ MaxPos \in Nat /\ MaxPos >= Size
    /\ Cardinality(Buffers) > Cardinality(Files) /\ None \notin Buffers

VARIABLES
    lab,        \* the lab that is loaded
    module,     \* "out", "loading", "undoing", "live" or "unloading"
    step,       \* next stage of the lab's init, the one that failed, or 0
    pending,    \* what is still to be released, in this order
    held,       \* what the driver has registered or created
    buffers,    \* buffers that are allocated
    ramdisk,    \* the global pointer
    private,    \* "memory": the private_data of each open file
    counter,    \* times the device was opened, as the driver counts
    read,       \* counter as an open() in progress has read it
    file,       \* each file: "closed", "count", "written" or "open"
    pos,        \* position of each open file
    opens,      \* not in the code: times the device was opened
    done,       \* not in the code: bytes each open file was told of
    author,     \* not in the code: files that wrote to each buffer
    strayed,    \* not in the code: files that wrote past the device's end
    wrong       \* not in the code: what was released without being held

loadVars == <<module, step, pending, held>>
fileVars == <<file, pos, done, read>>
countVars == <<counter, opens>>
memVars == <<buffers, ramdisk, private, author, strayed>>
vars == <<lab, loadVars, memVars, countVars, fileVars, wrong>>

Things ==
    UNION {{InitOrder[l][i].thing : i \in DOMAIN InitOrder[l]} : l \in Labs}

TypeOK ==
    /\ lab \in Labs
    /\ module \in {"out", "loading", "undoing", "live", "unloading"}
    /\ step \in 0..Len(InitOrder[lab]) /\ pending \in Seq(Things)
    /\ held \subseteq Things /\ wrong \subseteq Things \cup Buffers
    /\ buffers \subseteq Buffers /\ ramdisk \in Buffers \cup {None}
    /\ private \in [Files -> Buffers \cup {None}]
    /\ author \in [Buffers -> SUBSET Files]
    /\ opens \in 0..MaxOpens /\ counter \in 0..opens
    /\ read \in [Files -> 0..MaxOpens]
    /\ file \in [Files -> {"closed", "count", "written", "open"}]
    /\ pos \in [Files -> 0..MaxPos] /\ done \in [Files -> 0..MaxPos]
    /\ strayed \subseteq Files

Init ==
    /\ lab \in Labs /\ module = "out" /\ step = 0 /\ pending = <<>>
    /\ held = {} /\ wrong = {}
    /\ buffers = {} /\ ramdisk = None
    /\ private = [f \in Files |-> None] /\ author = [b \in Buffers |-> {}]
    /\ strayed = {}
    /\ counter = 0 /\ opens = 0 /\ read = [f \in Files |-> 0]
    /\ file = [f \in Files |-> "closed"]
    /\ pos = [f \in Files |-> 0] /\ done = [f \in Files |-> 0]

\* Releases a thing that the driver holds or believes to hold; ramdisk is the
\* one buffer among the things.
Release(thing) ==
    /\ held' = held \ ({thing} \cup Parts(thing))
    /\ buffers' = IF thing = "ramdisk" THEN buffers \ {ramdisk} ELSE buffers
    /\ wrong' = wrong \cup ({thing} \ held)

-----------------------------------------------------------------------------
(* Loading. *)

\* insmod: the module's variables are as they were compiled.
Insmod ==
    /\ module = "out" /\ held = {} /\ module' = "loading" /\ step' = 1
    /\ ramdisk' = None /\ counter' = 0 /\ opens' = 0 /\ strayed' = {}
    /\ UNCHANGED <<lab, pending, held, buffers, private, author, wrong>>
    /\ UNCHANGED fileVars

Now == InitOrder[lab][step]

Continue ==
    /\ module = "loading"
    /\ IF step = Len(InitOrder[lab]) THEN module' = "live" /\ step' = 0
       ELSE module' = module /\ step' = step + 1

\* kmalloc(ramdisk_size)
Kmalloc ==
    \E b \in Buffers \ buffers :
        /\ ramdisk' = b /\ buffers' = buffers \cup {b}
        /\ author' = [author EXCEPT ![b] = {}]

StageSucceeds ==
    /\ Continue /\ Now.fails # "put"
    /\ held' = held \cup {Now.thing}
    /\ IF Now.thing = "ramdisk" THEN Kmalloc
       ELSE UNCHANGED <<ramdisk, buffers, author>>
    /\ UNCHANGED <<lab, pending, private, strayed, wrong>>
    /\ UNCHANGED <<countVars, fileVars>>

StageReleases ==
    /\ Continue /\ Now.fails = "put"
    /\ Release(Now.thing)
    /\ UNCHANGED <<lab, pending, ramdisk, private, author, strayed>>
    /\ UNCHANGED <<countVars, fileVars>>

\* A failure nobody looks at.
StageFailsUnseen ==
    /\ Continue /\ Now.fails = "ignored"
    /\ UNCHANGED <<lab, pending, held, memVars, countVars, fileVars, wrong>>

StageFails ==
    /\ module = "loading" /\ Now.fails = "stop"
    /\ module' = "undoing" /\ pending' = Now.undo
    /\ UNCHANGED <<lab, step, held, memVars, countVars, fileVars, wrong>>

Loading ==
    Insmod \/ StageSucceeds \/ StageReleases \/ StageFailsUnseen \/ StageFails

-----------------------------------------------------------------------------
(* Undoing a load, and unloading. *)

\* Mutant: any time.
RmmodAnyTime ==
    /\ module = "live" /\ module' = "unloading" /\ pending' = ExitOrder[lab]
    /\ UNCHANGED <<lab, step, held, memVars, countVars, fileVars, wrong>>

Rmmod ==
    /\ module = "live" /\ \A f \in Files : file[f] = "closed"
    /\ module' = "unloading" /\ pending' = ExitOrder[lab]
    /\ UNCHANGED <<lab, step, held, memVars, countVars, fileVars, wrong>>

ReleaseNext ==
    /\ module \in {"undoing", "unloading"} /\ pending # <<>>
    /\ Release(Head(pending)) /\ pending' = Tail(pending)
    /\ UNCHANGED <<lab, module, step, ramdisk, private, author, strayed>>
    /\ UNCHANGED <<countVars, fileVars>>

Leave ==
    /\ module \in {"undoing", "unloading"} /\ pending = <<>>
    /\ module' = "out"
    /\ UNCHANGED <<lab, step, pending, held, wrong>>
    /\ UNCHANGED <<memVars, countVars, fileVars>>

Unloading == Rmmod \/ ReleaseNext \/ Leave

-----------------------------------------------------------------------------
(* open() *)

\* How a process gets at the driver: a node the driver made, the misc
\* device's node, or one that mknod made.
\* The others have no files of ours to serve.
Node ==
    CASE lab \in {"udev", "cache", "fwchar"} -> "device"
      [] lab \in {"misc", "samplemisc"} -> "misc"
      [] lab \in {"plain", "dynamic", "memory", "sample"} -> "map"
      [] OTHER -> "none"

OpenFile(f) == file' = [file EXCEPT ![f] = "count"]

\* The buffer an open() allocates, NULL where lab_cache.c gets none.
KmallocPrivate(f, b) ==
    /\ lab = "memory" /\ b # None
    /\ private' = [private EXCEPT ![f] = b]
    /\ OpenFile(f) /\ opens' = opens + 1
    /\ UNCHANGED ramdisk

CacheAlloc(f, b) ==
    /\ lab = "cache" /\ ramdisk' = b
    /\ IF b = None THEN UNCHANGED <<file, opens>>
       ELSE OpenFile(f) /\ opens' = opens + 1
    /\ UNCHANGED private

NoAlloc(f, b) ==
    /\ lab \notin {"memory", "cache"} /\ b = None
    /\ OpenFile(f) /\ opens' = opens + 1
    /\ UNCHANGED <<ramdisk, private>>

Open(f) ==
    /\ module \in {"loading", "undoing", "live"} /\ Node \in held
    /\ lab \in LoadFirst => module = "live"
    /\ file[f] = "closed" /\ opens < MaxOpens
    /\ lab \in OneOpen => \A g \in Files : file[g] = "closed"
    /\ \E b \in Buffers \cup {None} :
          /\ KmallocPrivate(f, b) \/ CacheAlloc(f, b) \/ NoAlloc(f, b)
          /\ lab \in {"memory", "cache"} => b \notin buffers
          /\ buffers' = buffers \cup ({b} \ {None})
          /\ author' = IF b = None THEN author ELSE [author EXCEPT ![b] = {}]
    /\ UNCHANGED <<lab, loadVars, counter, pos, done, read, strayed, wrong>>

\* counter++ has no lock: it reads and it writes.
CounterRead(f) ==
    /\ file[f] = "count" /\ file' = [file EXCEPT ![f] = "written"]
    /\ read' = [read EXCEPT ![f] = counter]
    /\ UNCHANGED <<lab, loadVars, memVars, countVars, pos, done, wrong>>

CounterWrite(f) ==
    /\ file[f] = "written" /\ file' = [file EXCEPT ![f] = "open"]
    /\ counter' = read[f] + 1
    /\ read' = [read EXCEPT ![f] = 0]
    /\ UNCHANGED <<lab, loadVars, memVars, opens, pos, done, wrong>>

-----------------------------------------------------------------------------
(* read(), write() and close() on an open file. *)

Min2(a, b) == IF a > b THEN b ELSE a

\* Bytes a request for n bytes is about.
ClampToEnd(f, n) == Min2(Size - pos[f], n)

RefuseAtEnd(f, n) == IF n + pos[f] > Size THEN 0 ELSE n

\* lab_char.c, improve_char_driver.c and memory_allocation.c do not look where
\* the device ends.
Unchecked == {"plain", "memory"}

BytesToDo(f, n) ==
    CASE lab \in {"sample", "samplemisc"} -> RefuseAtEnd(f, n)
      [] lab \in Unchecked -> n
      [] OTHER -> ClampToEnd(f, n)

Buffer(f) == IF lab = "memory" THEN private[f] ELSE ramdisk

\* Mutant: the position moves over bytes that were not copied.
TransferAll(f, todo, left) ==
    /\ pos' = [pos EXCEPT ![f] = @ + todo]
    /\ done' = [done EXCEPT ![f] = @ + todo - left]

\* left: bytes that copy_to_user, copy_from_user, put_user or get_user
\* could not move.
Transfer(f, todo, left) ==
    /\ pos' = [pos EXCEPT ![f] = @ + todo - left]
    /\ done' = [done EXCEPT ![f] = @ + todo - left]

Request(f) ==
    /\ file[f] = "open"
    /\ \E n \in 1..(Size + 1) :
          /\ pos[f] + BytesToDo(f, n) <= MaxPos
          /\ \E left \in 0..BytesToDo(f, n) :
                Transfer(f, BytesToDo(f, n), left)
    /\ UNCHANGED <<lab, loadVars, buffers, ramdisk, private, countVars>>
    /\ UNCHANGED <<file, read, wrong>>

Read(f) == Request(f) /\ UNCHANGED <<author, strayed>>

PastEnd(f) == pos'[f] > Size /\ pos'[f] # pos[f]

\* What is written past the end goes to memory that is not the device's,
\* another file's buffer it may be.
Write(f) ==
    /\ Request(f)
    /\ \E hit \in SUBSET (IF PastEnd(f) THEN buffers ELSE {}) :
          author' = [b \in Buffers |->
                        IF b \in hit \cup {Buffer(f)} THEN author[b] \cup {f}
                        ELSE author[b]]
    /\ strayed' = IF PastEnd(f) THEN strayed \cup {f} ELSE strayed

\* The struct file goes away with its position and its private_data.
Close(f) ==
    /\ file[f] = "open" /\ file' = [file EXCEPT ![f] = "closed"]
    /\ pos' = [pos EXCEPT ![f] = 0] /\ done' = [done EXCEPT ![f] = 0]
    /\ private' = [private EXCEPT ![f] = None]
    /\ LET freed == IF lab \in {"memory", "cache"} THEN {Buffer(f)} ELSE {}
       IN /\ buffers' = buffers \ freed
          /\ wrong' = wrong \cup (freed \ buffers)
    /\ UNCHANGED <<lab, loadVars, countVars, ramdisk, author, strayed, read>>

-----------------------------------------------------------------------------
FileStep(f) ==
    \/ Open(f) \/ CounterRead(f) \/ CounterWrite(f)
    \/ Read(f) \/ Write(f) \/ Close(f)

Next == Loading \/ Unloading \/ \E f \in Files : FileStep(f)

Spec == Init /\ [][Next]_vars

-----------------------------------------------------------------------------
(* Properties *)

\* What a load that failed at this stage leaves behind, and an exit:
\* lab_firmware_chardev.c and lab_workqueue_private.c undo nothing of what
\* they have done themselves, basic_dma.c does not either and never frees the
\* mask it allocated.
Left(failed) ==
    CASE lab = "fwchar" /\ failed = "firmware" ->
            {"region", "cdev", "ramdisk", "map", "class", "device"}
      [] lab = "queue" /\ failed = "misc" -> {"queue"}
      [] lab = "dma" /\ failed = "mask" -> {"misc", "ramdisk"}
      [] lab = "dma" /\ failed = "width" -> {"misc", "ramdisk", "mask"}
      [] lab = "dma" /\ failed = "none" -> {"mask", "width"}
      [] OTHER -> {}

\* However loading ended, and whatever was open in between, a module that is
\* out has left nothing registered and no buffer allocated, but for what Left
\* lists, and nothing was released that was not held, but for what
\* sample_char_driver.c and basic_dma.c do not know that they failed to get.
NothingLeft ==
    /\ module = "out" =>
          /\ held \subseteq Left(IF step = 0 THEN "none" ELSE Now.thing)
          /\ "ramdisk" \notin held => buffers = {}
    /\ wrong \subseteq CASE lab = "sample" -> {"region"}
                        [] lab = "dma" -> {"poolbuf"}
                        [] OTHER -> {}

\* At every moment of loading, of undoing a load that failed and of unloading,
\* what is held has what it needs: nothing goes while something that is
\* reached by the kernel or a process still leads to it.
NeedsHeld ==
    lab # "sample" => \A thing \in held : Needs(lab, thing) \subseteq held

\* An open file is served by a driver that is registered, from a buffer that
\* is allocated; in memory_allocation.c from one that nobody else wrote to:
\* "each opening of the device allocates its own data area", so long as nobody
\* writes past the end of his.
OpenFileServed ==
    \A f \in Files : file[f] # "closed" =>
        /\ module # "out" /\ Node \in held
        /\ Buffer(f) \in buffers
        /\ lab = "memory" => author[Buffer(f)] \subseteq {f} \cup strayed

\* A file's position is the number of bytes its process was told of, short
\* transfers included, so that none is skipped or repeated.  It lies within
\* the device wherever the driver looks where that ends.
PositionCounts ==
    \A f \in Files :
        pos[f] = done[f] /\ (lab \notin Unchecked => pos[f] <= Size)

\* What lab_cache.c asks for, "release them all before destroying the cache".
SlabsFreed == lab = "cache" /\ "cache" \notin held => buffers = {}

\* What lab_char.c asks for, "Keep track of the number of times it has been
\* opened since loading": when no open() is under way the counter is right.
OpensCounted ==
    (\A f \in Files : file[f] \in {"closed", "open"}) => counter = opens
=============================================================================
