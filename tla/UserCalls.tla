----------------------------- MODULE UserCalls -----------------------------
(***************************************************************************)
(* Calls that take their caller's memory or arguments into the driver: the *)
(* pages that are pinned, the buffer that is allocated, the bytes that are *)
(* moved, and the globals that two callers share.                          *)
(*                                                                         *)
(* chapter_13_mem_user_and_kernel_space/todo:                              *)
(*   "usermap"  lab_usermap.c, lab_usermap_fast.c: read() and write() copy *)
(*              page by page between the ramdisk and the caller's pages,   *)
(*              its buffer begins with a page (lab_write_aligned.c)        *)
(*   "align"    lab_usermap_align-not-needed.c: it begins anywhere         *)
(*   "mmap"     lab_mmap.c: the caller maps the ramdisk                    *)
(* chapter_19_ioctls/todo:                                                 *)
(*   "data"     lab_ioctl_data.c: a structure copied in and out            *)
(*   "vardata"  lab_ioctl_vardata.c: a buffer of the length in the command *)
(*   "signal"   lab_ioctl_signal.c: lab_ioctl_signal_test.c sets a process *)
(*              and a signal and has it sent                               *)
(* chapter_20_unified_device_model_and_sysfs:                              *)
(*   "sysfs"    kset_example.c, kobject_example.c: three integers, each    *)
(*              read and written through a file of its own                 *)
(*                                                                         *)
(* A byte is <<who wrote it, its index in what he wrote>>.  Three things   *)
(* the code does not check are assumed: callers transfer no more than the  *)
(* ramdisk holds, a command of lab_ioctl_data.c has the size of the        *)
(* caller's buffer, and get_user_pages gets all the pages it is asked for. *)
(* The page after a buffer is mapped.                                      *)
(***************************************************************************)
EXTENDS Integers, FiniteSets

CONSTANTS
    Labs,       \* the labs a run is about
    Procs,      \* processes that call
    Other,      \* a process that only gets signals
    None,       \* nobody
    PageSize,
    RamdiskPages,
    BufferPages,\* the caller's memory: its buffer is in these pages
    IntRange,   \* 2^32, the values of an int; the runs have it narrow
    UnsignedLong,  \* 2^64, those of an unsigned long
    MaxCalls    \* bound: calls

Aligned == {"usermap"}
PageLabs == {"usermap", "align"}
Ioctls == {"data", "vardata"}

ASSUME ConstantsAssumption ==
    /\ Labs \subseteq PageLabs \cup Ioctls \cup {"mmap", "signal", "sysfs"}
    /\ PageSize \in Nat \ {0} /\ RamdiskPages \in Nat \ {0}
    /\ BufferPages \in Nat \ {0} /\ MaxCalls \in Nat
    /\ IntRange \in Nat \ {0} /\ UnsignedLong \in Nat \ {0}
    \* As 2^64 is of 2^32 * PAGE_SIZE.
    /\ UnsignedLong % (IntRange * PageSize) = 0
    /\ PageSize * RamdiskPages > 2
    /\ Other \notin Procs /\ None \notin Procs \cup {Other}

RamdiskSize == PageSize * RamdiskPages
Ramdisk == 0..(RamdiskSize - 1)
\* One more page is mapped after the last.
Memory == 0..(PageSize * (BufferPages + 1) - 1)
Pages == 0..BufferPages
Bytes == (Procs \cup {None}) \X (Ramdisk \cup {-1})
Old == <<None, -1>>
Error == -1     \* -EINVAL, -ENOMEM, -EAGAIN

VARIABLES
    lab,      \* the lab that is loaded
    pc,       \* next operation of each caller
    call,     \* the arguments of its call
    held,     \* it holds a buffer or an array of pages from kmalloc
    kbuf,     \* "vardata": the buffer
    npages, j, ktmp, curlen,   \* locals of mycdrv_rw
    pinned,   \* how many references it holds to each of its pages
    rc,       \* what the call returns: bytes, or bytes that are left
    user,     \* the callers' memory
    mem,      \* the ramdisk, or the driver's structure
    mapping,  \* the range of the ramdisk each caller has mapped
    alone,    \* not in the code: no other call since this one began
    calls,    \* not in the code: their number
    sig_tsk, sig_tosend, alive,  \* "signal": task and signal, living tasks
    sent      \* not in the code: the signals sent and those meant

callVars == <<call, alone, calls>>
rwVars == <<npages, j, ktmp, curlen, pinned>>
sigVars == <<sig_tsk, sig_tosend, alive, sent>>
vars == <<lab, pc, callVars, held, kbuf, rwVars, rc, user, mem, mapping,
          sigVars>>

Calls == [op : {"read", "write", "none", "mmap", "signal"},
          buf : Memory \cup {0}, len : 0..UnsignedLong,
          to : Procs \cup {Other, None}, sig : {"KILL", "USR1", "none"}]

NoCall == [op |-> "none", buf |-> 0, len |-> 0, to |-> None, sig |-> "none"]

TypeOK ==
    /\ lab \in Labs
    /\ pc \in [Procs -> {"idle", "array", "gup", "copy", "put", "kfree",
                         "kmalloc", "copyvar", "cells", "mmap", "setpid",
                         "setsig", "sendsig", "show", "sprintf", "store",
                         "assign", "return", "dead"}]
    /\ call \in [Procs -> Calls]
    /\ held \in [Procs -> BOOLEAN] /\ alone \in [Procs -> BOOLEAN]
    /\ npages \in [Procs -> 0..(BufferPages + 1)] /\ j \in [Procs -> Nat]
    /\ ktmp \in [Procs -> Nat] /\ curlen \in [Procs -> Nat]
    /\ pinned \in [Procs -> [Pages -> 0..1]]
    /\ rc \in [Procs -> 0..RamdiskSize \cup {Error}]
    /\ user \in [Procs -> [Memory -> Bytes]]
    /\ mem \in [Ramdisk -> Bytes]
    /\ calls \in 0..MaxCalls

Init ==
    /\ lab \in Labs /\ calls = 0
    /\ pc = [p \in Procs |-> "idle"] /\ call = [p \in Procs |-> NoCall]
    /\ held = [p \in Procs |-> FALSE] /\ alone = [p \in Procs |-> FALSE]
    /\ kbuf = [p \in Procs |-> <<>>]
    /\ npages = [p \in Procs |-> 0] /\ j = npages
    /\ ktmp = npages /\ curlen = npages
    /\ pinned = [p \in Procs |-> [g \in Pages |-> 0]]
    /\ rc = [p \in Procs |-> 0]
    /\ user = [p \in Procs |-> [a \in Memory |-> Old]]
    /\ mem = [i \in Ramdisk |-> <<None, i>>]
    /\ mapping = [p \in Procs |-> {}]
    /\ sig_tsk = None /\ sig_tosend = "KILL" /\ alive = Procs \cup {Other}
    /\ sent = {}

Goto(p, from, to) == pc[p] = from /\ pc' = [pc EXCEPT ![p] = to]

InCall == {p \in Procs : pc[p] \notin {"idle", "dead"}}

-----------------------------------------------------------------------------
(* The callers: which calls they make. *)

Begin(p, first, c) ==
    /\ Goto(p, "idle", first) /\ calls < MaxCalls
    /\ call' = [call EXCEPT ![p] = c] /\ calls' = calls + 1
    /\ alone' = [q \in Procs |-> IF q = p THEN InCall = {} ELSE FALSE]

\* A buffer that is about to be written has the caller's bytes.
Prepare(p, op, buf, len) ==
    user' = [user EXCEPT ![p] = [a \in Memory |->
                IF op = "write" /\ a \in buf..(buf + len - 1)
                THEN <<p, a - buf>> ELSE Old]]

FirstOf(op) ==
    CASE lab \in PageLabs -> "array"
      [] lab = "data" -> IF op = "none" THEN "return" ELSE "cells"
      [] lab = "vardata" -> "kmalloc"

\* read(), write() or an ioctl with a direction.  The command of
\* lab_ioctl_data.c has the size of its structure.
CallRw(p) ==
    /\ lab \in PageLabs \cup Ioctls
    /\ \E op \in {"read", "write", "none"},
          buf \in 0..(PageSize * BufferPages - 1), len \in 0..RamdiskSize :
          /\ op = "none" => lab \in Ioctls
          /\ buf + len <= PageSize * BufferPages
          /\ lab \in Aligned => buf % PageSize = 0
          /\ lab = "data" => buf = 0 /\ len = RamdiskSize
          /\ lab = "vardata" => buf = 0
          /\ Begin(p, FirstOf(op),
                   [NoCall EXCEPT !.op = op, !.buf = buf, !.len = len])
          /\ Prepare(p, op, buf, len)
          /\ rc' = [rc EXCEPT ![p] = IF op = "none" THEN Error ELSE 0]
    /\ j' = [j EXCEPT ![p] = 0]
    /\ UNCHANGED <<lab, held, kbuf, npages, ktmp, curlen, pinned, mem>>
    /\ UNCHANGED <<mapping, sigVars>>

\* mmap: whole pages from any page offset
CallMmap(p) ==
    /\ lab = "mmap"
    /\ \E off \in 0..(RamdiskPages + 1), n \in 1..(RamdiskPages + 1) :
          Begin(p, "mmap", [NoCall EXCEPT !.op = "mmap",
                               !.buf = off * PageSize, !.len = n * PageSize])
    /\ UNCHANGED <<lab, held, kbuf, rwVars, rc, user, mem, mapping, sigVars>>

\* lab_ioctl_signal_test.c: a process number, the number of none perhaps, and
\* a signal.
CallSignal(p) ==
    /\ lab = "signal"
    /\ \E to \in Procs \cup {Other}, sig \in {"KILL", "USR1"} :
          Begin(p, "setpid",
                [NoCall EXCEPT !.op = "signal", !.to = to, !.sig = sig])
    /\ UNCHANGED <<lab, held, kbuf, rwVars, rc, user, mem, mapping, sigVars>>

-----------------------------------------------------------------------------
(* mycdrv_rw *)

\* npages = (lbuf - 1) / PAGE_SIZE + 1, in an int
NpagesOf(len) == ((((len - 1) % UnsignedLong) \div PageSize) + 1) % IntRange

\* pfn_of(buf + lbuf) - pfn_of(buf) + 1
NpagesBetween(buf, len) ==
    ((buf + len) \div PageSize) - (buf \div PageSize) + 1

KmallocArray(p) ==
    LET c == call[p] IN
    /\ \/ /\ Goto(p, "array", "gup")
          /\ held' = [held EXCEPT ![p] = TRUE] /\ UNCHANGED rc
       \/ /\ Goto(p, "array", "return")
          /\ rc' = [rc EXCEPT ![p] = Error] /\ UNCHANGED held
    /\ npages' = [npages EXCEPT ![p] =
                    IF lab \in Aligned THEN NpagesOf(c.len)
                                       ELSE NpagesBetween(c.buf, c.len)]
    /\ UNCHANGED <<lab, callVars, kbuf, j, ktmp, curlen, pinned, user, mem>>
    /\ UNCHANGED <<mapping, sigVars>>

\* get_user_pages, get_user_pages_fast
GetUserPages(p) ==
    LET first == call[p].buf \div PageSize IN
    /\ Goto(p, "gup", IF npages[p] = 0 THEN "kfree" ELSE "copy")
    /\ pinned' = [pinned EXCEPT ![p] = [g \in Pages |->
                    IF g \in first..(first + npages[p] - 1) THEN 1 ELSE 0]]
    /\ ktmp' = [ktmp EXCEPT ![p] = 0]
    /\ curlen' = [curlen EXCEPT ![p] = call[p].len]
    /\ UNCHANGED <<lab, callVars, held, kbuf, npages, j, rc, user, mem>>
    /\ UNCHANGED <<mapping, sigVars>>

Min2(a, b) == IF a < b THEN a ELSE b

\* How much of page j is copied, and from where in it.
Offset(p) ==
    IF lab = "align" /\ j[p] = 0 THEN call[p].buf % PageSize ELSE 0

\* Mutant: the rest of the last page as well.
NbWhole(p) ==
    IF lab = "align" THEN Min2(PageSize - Offset(p), curlen[p]) ELSE PageSize

Nb(p) ==
    CASE lab = "align" -> Min2(PageSize - Offset(p), curlen[p])
      [] lab # "align" /\ j[p] = npages[p] - 1 ->
            ((call[p].len - 1) % PageSize) + 1
      [] OTHER -> PageSize

\* kmap, memcpy; in the second lab cur_len -= nb, ktmp += nb
CopyPage(p) ==
    LET uaddr == ((call[p].buf \div PageSize) + j[p]) * PageSize + Offset(p)
        nb == Nb(p)
    IN
    /\ Goto(p, "copy", "put")
    /\ CASE call[p].op = "read" ->
              /\ user' = [user EXCEPT ![p] = [a \in Memory |->
                    IF a \in uaddr..(uaddr + nb - 1)
                    THEN mem[ktmp[p] + a - uaddr] ELSE @[a]]]
              /\ UNCHANGED mem
         [] OTHER ->
              /\ mem' = [i \in Ramdisk |->
                    IF i \in ktmp[p]..(ktmp[p] + nb - 1)
                    THEN user[p][uaddr + i - ktmp[p]] ELSE mem[i]]
              /\ UNCHANGED user
    /\ curlen' = [curlen EXCEPT ![p] = @ - nb]
    /\ ktmp' = [ktmp EXCEPT ![p] = @ + nb]
    /\ UNCHANGED <<lab, callVars, held, kbuf, npages, j, pinned, rc, mapping>>
    /\ UNCHANGED sigVars

\* set_page_dirty_lock, put_page, kunmap
PutPage(p) ==
    /\ Goto(p, "put", IF j[p] + 1 = npages[p] THEN "kfree" ELSE "copy")
    /\ j' = [j EXCEPT ![p] = @ + 1]
    /\ pinned' = [pinned EXCEPT
                    ![p][(call[p].buf \div PageSize) + j[p]] = @ - 1]
    /\ UNCHANGED <<lab, callVars, held, kbuf, npages, ktmp, curlen, rc, user>>
    /\ UNCHANGED <<mem, mapping, sigVars>>

\* Mutant: not on the way out of a copy that has failed.
KfreeIfCopied(p) ==
    /\ Goto(p, "kfree", "return")
    /\ held' = [held EXCEPT ![p] = lab = "vardata" /\ rc[p] # 0]
    /\ rc' = [rc EXCEPT ![p] = IF lab \in PageLabs THEN call[p].len ELSE @]
    /\ UNCHANGED <<lab, callVars, kbuf, rwVars, user, mem, mapping, sigVars>>

\* kfree(pages), kfree(buffer)
Kfree(p) ==
    /\ Goto(p, "kfree", "return")
    /\ held' = [held EXCEPT ![p] = FALSE]
    /\ rc' = [rc EXCEPT ![p] = IF lab \in PageLabs THEN call[p].len ELSE @]
    /\ UNCHANGED <<lab, callVars, kbuf, rwVars, user, mem, mapping, sigVars>>

-----------------------------------------------------------------------------
(* The data ioctls *)

\* kmalloc, which may fail, and memset; an invalid direction returns at once.
KmallocBuffer(p) ==
    /\ pc[p] = "kmalloc"
    /\ \/ /\ pc' = [pc EXCEPT ![p] =
                      IF call[p].op = "none" THEN "return" ELSE "copyvar"]
          /\ held' = [held EXCEPT ![p] = TRUE]
          /\ rc' = [rc EXCEPT ![p] = IF call[p].op = "none" THEN Error ELSE @]
       \/ /\ pc' = [pc EXCEPT ![p] = "return"]
          /\ rc' = [rc EXCEPT ![p] = Error]
          /\ UNCHANGED held
    /\ kbuf' = [kbuf EXCEPT ![p] =
                  [i \in 0..(call[p].len - 1) |-> <<None, i>>]]
    /\ UNCHANGED <<lab, callVars, rwVars, user, mem, mapping, sigVars>>

\* copy_from_user, copy_to_user: it stops at a byte that faults.
CopyVar(p) ==
    /\ Goto(p, "copyvar", "kfree")
    /\ \E n \in 0..call[p].len :
          /\ rc' = [rc EXCEPT ![p] = call[p].len - n]
          /\ IF call[p].op = "write"
             THEN /\ kbuf' = [kbuf EXCEPT ![p] = [i \in DOMAIN @ |->
                        IF i < n THEN user[p][call[p].buf + i] ELSE @[i]]]
                  /\ UNCHANGED user
             ELSE /\ user' = [user EXCEPT ![p] = [a \in Memory |->
                        IF a - call[p].buf \in 0..(n - 1)
                        THEN kbuf[p][a - call[p].buf] ELSE @[a]]]
                  /\ UNCHANGED kbuf
    /\ UNCHANGED <<lab, callVars, held, rwVars, mem, mapping, sigVars>>

\* The structure is copied with no lock, part by part, and a part may fault.
CopyCell(p) ==
    LET i == j[p] IN
    /\ pc[p] = "cells"
    /\ IF i = RamdiskSize
       THEN pc' = [pc EXCEPT ![p] = "return"] /\ UNCHANGED <<j, user, mem>>
       ELSE /\ UNCHANGED pc /\ j' = [j EXCEPT ![p] = @ + 1]
            /\ IF call[p].op = "write"
               THEN mem' = [mem EXCEPT ![i] = user[p][i]] /\ UNCHANGED user
               ELSE user' = [user EXCEPT ![p][i] = mem[i]] /\ UNCHANGED mem
    /\ rc' = [rc EXCEPT ![p] = RamdiskSize - i]
    /\ UNCHANGED <<lab, callVars, held, kbuf, npages, ktmp, curlen, pinned>>
    /\ UNCHANGED <<mapping, sigVars>>

CellFault(p) ==
    /\ Goto(p, "cells", "return") /\ j[p] < RamdiskSize
    /\ rc' = [rc EXCEPT ![p] = RamdiskSize - j[p]]
    /\ UNCHANGED <<lab, callVars, held, kbuf, rwVars, user, mem, mapping>>
    /\ UNCHANGED sigVars

-----------------------------------------------------------------------------
(* mmap *)

\* The differences are unsigned.
Maps(off, len) ==
    off < RamdiskSize /\ len <= (RamdiskSize - off) % UnsignedLong

\* remap_pfn_range may fail.
MycdrvMmap(p) ==
    LET off == call[p].buf
        len == call[p].len
    IN
    /\ Goto(p, "mmap", "return")
    /\ \/ /\ Maps(off, len)
          /\ mapping' = [mapping EXCEPT ![p] = off..(off + len - 1)]
          /\ rc' = [rc EXCEPT ![p] = 0]
       \/ rc' = [rc EXCEPT ![p] = Error] /\ UNCHANGED mapping
    /\ UNCHANGED <<lab, callVars, held, kbuf, rwVars, user, mem, sigVars>>

\* The caller stores into what it has mapped.
Store(p) ==
    /\ pc[p] = "idle"
    /\ \E i \in mapping[p] : mem' = [mem EXCEPT ![i] = <<p, i>>]
    /\ UNCHANGED <<lab, pc, callVars, held, kbuf, rwVars, rc, user, mapping>>
    /\ UNCHANGED sigVars

-----------------------------------------------------------------------------
(* The signal ioctls *)

\* pid_task(find_vpid(sig_pid), PIDTYPE_PID): NULL if there is no such process.
SetPid(p) ==
    /\ Goto(p, "setpid", "setsig")
    /\ sig_tsk' = IF call[p].to \in alive THEN call[p].to ELSE None
    /\ UNCHANGED <<lab, callVars, held, kbuf, rwVars, rc, user, mem, mapping>>
    /\ UNCHANGED <<sig_tosend, alive, sent>>

SetSig(p) ==
    /\ Goto(p, "setsig", "sendsig")
    /\ sig_tosend' = call[p].sig
    /\ UNCHANGED <<lab, callVars, held, kbuf, rwVars, rc, user, mem, mapping>>
    /\ UNCHANGED <<sig_tsk, alive, sent>>

\* Without a task, to the caller itself.  SIGKILL ends whom it reaches.
SendSig(p) ==
    LET to == IF sig_tsk = None THEN p ELSE sig_tsk
        dies == IF sig_tosend = "KILL" THEN {to} ELSE {}
    IN
    /\ pc[p] = "sendsig"
    /\ pc' = [q \in Procs |-> CASE q \in dies -> "dead"
                                [] q = p /\ q \notin dies -> "return"
                                [] OTHER -> pc[q]]
    /\ sig_tsk' = to /\ alive' = alive \ dies
    /\ sent' = sent \cup {[to |-> to, sig |-> sig_tosend,
                           meant |-> <<call[p].to, call[p].sig>>]}
    /\ UNCHANGED <<lab, callVars, held, kbuf, rwVars, rc, user, mem, mapping>>
    /\ UNCHANGED sig_tosend

-----------------------------------------------------------------------------
(* The attributes, of one of kset_example.c's objects.  foo, baz and bar   *)
(* are the first three cells of mem, kbuf is the local var.                *)

Foo == 0
Baz == 1
Bar == 2

\* A file of sysfs; the caller's buffer is at 0, what it writes is a number
\* or is not.
CallSysfs(p) ==
    /\ lab = "sysfs"
    /\ \E op \in {"read", "write"}, attr \in {Foo, Baz, Bar} :
          /\ Begin(p, IF op = "read" THEN "show" ELSE "store",
                   [NoCall EXCEPT !.op = op, !.buf = attr, !.len = 1])
          /\ user' = [user EXCEPT ![p] = [a \in Memory |->
                        IF a = 0 /\ op = "write" THEN <<p, attr>> ELSE Old]]
    /\ rc' = [rc EXCEPT ![p] = 0]
    /\ UNCHANGED <<lab, held, kbuf, rwVars, mem, mapping, sigVars>>

\* What foo_attr_show and foo_attr_store find for the file that is called.
Attribute(p, name) == lab = "sysfs" /\ call[p].buf = name

FooShow(p) ==
    /\ Attribute(p, Foo) /\ Goto(p, "show", "sprintf")
    /\ kbuf' = [kbuf EXCEPT ![p] = mem[Foo]]

\* var = strcmp(attr->attr.name, "baz") == 0 ? baz : bar
BShow(p) ==
    /\ ~Attribute(p, Foo) /\ Goto(p, "show", "sprintf")
    /\ kbuf' = [kbuf EXCEPT ![p] = IF Attribute(p, Baz) THEN mem[Baz]
                                                       ELSE mem[Bar]]

Show(p) ==
    /\ FooShow(p) \/ BShow(p)
    /\ UNCHANGED <<lab, callVars, held, rwVars, rc, user, mem, mapping>>
    /\ UNCHANGED sigVars

\* sprintf, and sysfs copies it to the caller.
Sprintf(p) ==
    /\ Goto(p, "sprintf", "return")
    /\ user' = [user EXCEPT ![p][0] = kbuf[p]]
    /\ UNCHANGED <<lab, callVars, held, kbuf, rwVars, rc, mem, mapping>>
    /\ UNCHANGED sigVars

\* kstrtoint(buf, 10, &foo)
FooStore(p) ==
    /\ Attribute(p, Foo) /\ Goto(p, "store", "return")
    /\ mem' = [mem EXCEPT ![Foo] = user[p][0]]
    /\ UNCHANGED kbuf

\* kstrtoint(buf, 10, &var)
BStore(p) ==
    /\ ~Attribute(p, Foo) /\ Goto(p, "store", "assign")
    /\ kbuf' = [kbuf EXCEPT ![p] = user[p][0]]
    /\ UNCHANGED mem

BAssign(p) ==
    /\ Goto(p, "assign", "return")
    /\ mem' = [mem EXCEPT ![IF Attribute(p, Baz) THEN Baz ELSE Bar] = kbuf[p]]
    /\ UNCHANGED kbuf

StoreAttribute(p) ==
    /\ FooStore(p) \/ BStore(p) \/ BAssign(p)
    /\ UNCHANGED <<lab, callVars, held, rwVars, rc, user, mapping, sigVars>>

\* What was written is not a number.
NoInteger(p) ==
    /\ Goto(p, "store", "return")
    /\ rc' = [rc EXCEPT ![p] = Error]
    /\ UNCHANGED <<lab, callVars, held, kbuf, rwVars, user, mem, mapping>>
    /\ UNCHANGED sigVars

-----------------------------------------------------------------------------

Return(p) ==
    /\ Goto(p, "return", "idle")
    /\ held' = [held EXCEPT ![p] = FALSE]
    /\ call' = [call EXCEPT ![p] = NoCall]
    /\ kbuf' = [kbuf EXCEPT ![p] = <<>>]
    /\ UNCHANGED <<lab, alone, calls, rwVars, rc, user, mem, mapping, sigVars>>

Next == \E p \in Procs :
    \/ CallRw(p) \/ CallMmap(p) \/ CallSignal(p)
    \/ KmallocArray(p) \/ GetUserPages(p) \/ CopyPage(p) \/ PutPage(p)
    \/ Kfree(p) \/ KmallocBuffer(p) \/ CopyVar(p) \/ CopyCell(p)
    \/ CellFault(p) \/ MycdrvMmap(p) \/ Store(p)
    \/ SetPid(p) \/ SetSig(p) \/ SendSig(p)
    \/ CallSysfs(p) \/ Show(p) \/ Sprintf(p) \/ StoreAttribute(p)
    \/ NoInteger(p) \/ Return(p)

Spec == Init /\ [][Next]_vars

-----------------------------------------------------------------------------
(* Properties *)

\* Whatever has failed, a call that returns holds no pages of its caller and
\* no memory; lab_ioctl_vardata.c keeps its buffer when the direction in the
\* command is neither of the two.  And what it copies is pinned until then.
CallReleases ==
    \A p \in Procs :
        /\ pc[p] \in {"return", "idle"} =>
              /\ pinned[p] = [g \in Pages |-> 0]
              /\ held[p] => lab = "vardata" /\ call[p].op = "none"
        /\ pc[p] = "copy" =>
              /\ held[p]
              /\ pinned[p][(call[p].buf \div PageSize) + j[p]] = 1

\* The bytes a call says it has moved, however they lie across pages.
Moved(p) ==
    IF lab \in PageLabs THEN rc[p] ELSE call[p].len - rc[p]

\* Each byte a call has moved is at its place, all of them have been moved if
\* no other call came in between, and no byte around them has changed.  An
\* attribute's file reads and writes that attribute, whatever is done to the
\* others.  A mapping lies in the ramdisk.
TransferRight ==
    /\ \A i \in Ramdisk : mem[i][2] = i
    /\ \A p \in Procs : mapping[p] \subseteq Ramdisk
    /\ \A p \in Procs : pc[p] = "return" /\ rc[p] # Error /\ lab # "signal" =>
          LET c == call[p]
              buffer == c.buf..(c.buf + Moved(p) - 1)
          IN IF lab = "sysfs"
             THEN /\ alone[p] /\ c.op = "write" => mem[c.buf] = <<p, c.buf>>
                  /\ c.op = "read" =>
                        /\ user[p][0][2] = c.buf
                        /\ alone[p] => user[p][0] = mem[c.buf]
             ELSE /\ alone[p] /\ c.op = "write" /\ lab # "vardata" =>
                        \A i \in 0..(Moved(p) - 1) : mem[i] = <<p, i>>
                  /\ c.op = "read" =>
                        \A a \in Memory :
                            IF a \in buffer
                            THEN /\ user[p][a][2] = a - c.buf
                                 /\ alone[p] /\ lab # "vardata" =>
                                        user[p][a] = mem[a - c.buf]
                            ELSE user[p][a] = Old

\* "get the total number of pages of memory needed"
\* (lab_usermap_align-not-needed.c:59): the pages in which there is a byte of
\* the buffer.
PagesNeeded ==
    \A p \in Procs : pc[p] = "gup" =>
        LET first == call[p].buf
            last == first + call[p].len - 1
        IN npages[p] = Cardinality({a \div PageSize : a \in first..last})

\* "If given one argument it should set the process ID to send signals to"
\* (lab_ioctl_signal.c:40): the signal of a program goes to whom it has named.
SignalAsMeant == \A m \in sent : m.meant = <<m.to, m.sig>>
=============================================================================
