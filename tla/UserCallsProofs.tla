-------------------------- MODULE UserCallsProofs ---------------------------
(***************************************************************************)
(* What a call owes its caller, for any number of processes and calls, any *)
(* size of page, ramdisk and buffer: it gives back what it pinned and      *)
(* allocated, and moves the bytes it was asked for, and no others.         *)
(***************************************************************************)
EXTENDS UserCalls, TLAPS

Step(p) ==
    \/ CallRw(p) \/ CallMmap(p) \/ CallSignal(p)
    \/ KmallocArray(p) \/ GetUserPages(p) \/ CopyPage(p) \/ PutPage(p)
    \/ Kfree(p) \/ KmallocBuffer(p) \/ CopyVar(p) \/ CopyCell(p)
    \/ CellFault(p) \/ MycdrvMmap(p) \/ Store(p)
    \/ SetPid(p) \/ SetSig(p) \/ SendSig(p)
    \/ CallSysfs(p) \/ Show(p) \/ Sprintf(p) \/ StoreAttribute(p)
    \/ NoInteger(p) \/ Return(p)

First(p) == call[p].buf \div PageSize

Args ==
    [op : {"read", "write", "none", "mmap", "signal"}, buf : Nat, len : Nat,
     to : Procs \cup {Other, None}, sig : {"KILL", "USR1", "none"}]

\* The part of TypeOK the proofs need; the bounds of a run are left out.
Shape ==
    /\ lab \in Labs /\ DOMAIN pc = Procs
    /\ call \in [Procs -> Args]
    /\ held \in [Procs -> BOOLEAN] /\ alone \in [Procs -> BOOLEAN]
    /\ DOMAIN kbuf = Procs
    /\ npages \in [Procs -> Int] /\ j \in [Procs -> Int]
    /\ ktmp \in [Procs -> Int] /\ curlen \in [Procs -> Int]
    /\ pinned \in [Procs -> [Pages -> Int]]
    /\ rc \in [Procs -> Int]
    /\ DOMAIN user = Procs /\ \A p \in Procs : DOMAIN user[p] = Memory
    /\ DOMAIN mem = Ramdisk
    /\ mapping \in [Procs -> SUBSET Ramdisk]

PagePcs == {"array", "gup", "copy", "put"}

\* Which lab is where in its code, with which calls.
Where(p) ==
    /\ pc[p] \in PagePcs => lab \in PageLabs
    /\ pc[p] = "kfree" => lab \in PageLabs \cup {"vardata"}
    /\ pc[p] \in {"kmalloc", "copyvar"} => lab = "vardata"
    /\ pc[p] = "cells" => lab = "data"
    /\ pc[p] = "mmap" => lab = "mmap"
    /\ pc[p] \in {"setpid", "setsig", "sendsig", "dead"} => lab = "signal"
    /\ pc[p] \in {"show", "sprintf", "store", "assign"} => lab = "sysfs"
    /\ pc[p] \in PagePcs \cup {"kfree", "copyvar", "cells"}
            => call[p].op \in {"read", "write"}
    /\ pc[p] = "kmalloc" => call[p].op \in {"read", "write", "none"}
    /\ pc[p] \in {"show", "sprintf"} => call[p].op = "read"
    /\ pc[p] \in {"store", "assign"} => call[p].op = "write"

\* The arguments a call has begun with.
Arguments(p) ==
    LET c == call[p] IN
    pc[p] # "idle" =>
        /\ lab \in PageLabs =>
              /\ c.op \in {"read", "write"}
              /\ c.len <= RamdiskSize
              /\ c.buf + c.len <= PageSize * BufferPages
        /\ lab \in Aligned => c.buf % PageSize = 0
        /\ lab \in Ioctls =>
              c.buf = 0 /\ c.len <= RamdiskSize
                        /\ c.len <= PageSize * BufferPages
        /\ lab = "data" => c.len = RamdiskSize
        /\ lab = "mmap" => c.op = "mmap"
        /\ lab = "sysfs" =>
              c.buf \in {Foo, Baz, Bar} /\ c.op \in {"read", "write"}

\* Who has memory from kmalloc.
Holds(p) ==
    /\ pc[p] \in {"gup", "copy", "put"} => held[p]
    /\ held[p] =>
          \/ pc[p] \in {"gup", "copy", "put", "kfree", "copyvar", "dead"}
          \/ pc[p] = "return" /\ lab = "vardata" /\ call[p].op = "none"

\* The pages from this one to the last are pinned, and they are the caller's.
Pins(p) ==
    /\ pc[p] \in {"array", "gup"} => j[p] = 0
    /\ pc[p] \in {"gup", "copy", "put"} =>
          0 <= npages[p] /\ First(p) + npages[p] <= BufferPages + 1
    /\ pc[p] \in {"copy", "put"} => 0 <= j[p] /\ j[p] < npages[p]
    /\ \A g \in Pages : pinned[p][g] =
          IF pc[p] \in {"copy", "put"}
             /\ g \in (First(p) + j[p])..(First(p) + npages[p] - 1)
          THEN 1 ELSE 0

Own(p) == Where(p) /\ Arguments(p) /\ Holds(p) /\ Pins(p)

IInv == Shape /\ \A p \in Procs : Own(p)

-----------------------------------------------------------------------------
(* What has been moved. *)

\* An int can count the pages of a buffer.
Fits == RamdiskPages < IntRange

\* How many bytes a call has moved so far.
Sofar(p) ==
    CASE pc[p] \in {"copy", "put"} -> ktmp[p]
      [] pc[p] = "kfree" /\ lab \in PageLabs -> call[p].len
      [] pc[p] = "kfree" /\ lab \notin PageLabs -> call[p].len - rc[p]
      [] pc[p] = "cells" -> j[p]
      [] pc[p] = "return" -> Moved(p)
      [] OTHER -> 0

Failed(p) == pc[p] = "return" /\ rc[p] = Error

\* Page j begins where the bytes copied end, and the last page is the one
\* with the end of the buffer.
Pieces(p) ==
    LET c == call[p]
        piece == IF j[p] = 0 THEN 0 ELSE PageSize * (First(p) + j[p]) - c.buf
        after == PageSize * (First(p) + j[p] + 1) - c.buf
    IN lab \in PageLabs =>
        /\ pc[p] \in {"gup", "copy", "put"} =>
              IF lab = "align"
              THEN npages[p] = ((c.buf + c.len) \div PageSize) - First(p) + 1
              ELSE /\ c.len > 0 =>
                         npages[p] = ((c.len - 1) \div PageSize) + 1
                   /\ c.len = 0 => npages[p] = 0
        /\ pc[p] = "copy" => ktmp[p] = piece
        /\ pc[p] = "put" =>
              ktmp[p] = IF j[p] + 1 = npages[p] THEN c.len ELSE after
        /\ pc[p] \in {"copy", "put"} => curlen[p] = c.len - ktmp[p]
        /\ pc[p] \in PagePcs \cup {"kfree"} => rc[p] = 0 

Amount(p) ==
    /\ lab \in PageLabs \cup Ioctls /\ ~Failed(p) => 
          0 <= Sofar(p) /\ Sofar(p) <= call[p].len
    /\ pc[p] = "kfree" /\ lab \notin PageLabs => rc[p] # Error

\* A process that calls alone is the only one in a call.
Solitude ==
    \A p, q \in Procs : alone[p] /\ p \in InCall /\ q \in InCall => p = q

\* Only mmap() maps.
Unmapped == lab # "mmap" => \A p \in Procs : mapping[p] = {}

InPlace == \A i \in Ramdisk : mem[i][2] = i

Transfers == lab \in PageLabs \cup Ioctls

\* What read() has moved is in the buffer, and the rest is as it was.
ReadRight(p) ==
    LET c == call[p] IN
    Transfers /\ pc[p] # "idle" /\ c.op = "read" /\ ~Failed(p) =>
        \A a \in Memory :
            IF a \in c.buf..(c.buf + Sofar(p) - 1)
            THEN /\ user[p][a][2] = a - c.buf
                 /\ alone[p] /\ lab # "vardata" =>
                        user[p][a] = mem[a - c.buf]
            ELSE user[p][a] = Old

\* What write() is to move is in the buffer, what it has is in the ramdisk.
WriteRight(p) ==
    LET c == call[p] IN
    Transfers /\ pc[p] # "idle" /\ c.op = "write" =>
        /\ \A a \in c.buf..(c.buf + c.len - 1) : user[p][a] = <<p, a - c.buf>>
        /\ alone[p] /\ lab # "vardata" /\ ~Failed(p) =>
              \A i \in 0..(Sofar(p) - 1) : mem[i] = <<p, i>>

VarBuffer(p) ==
    pc[p] = "copyvar" =>
        kbuf[p] = [i \in 0..(call[p].len - 1) |-> <<None, i>>]

\* The values that sysfs has on their way.
Values(p) ==
    LET c == call[p] IN
    lab = "sysfs" =>
        /\ pc[p] = "sprintf" =>
              kbuf[p][2] = c.buf /\ (alone[p] => kbuf[p] = mem[c.buf])
        /\ pc[p] = "store" => user[p][0] = <<p, c.buf>>
        /\ pc[p] = "assign" => kbuf[p] = <<p, c.buf>> /\ c.buf # Foo
        /\ pc[p] = "return" /\ ~Failed(p) =>
              /\ c.op = "read" => user[p][0][2] = c.buf
              /\ alone[p] /\ c.op = "read" => user[p][0] = mem[c.buf]
              /\ alone[p] /\ c.op = "write" => mem[c.buf] = <<p, c.buf>>

Data(p) ==
    /\ Pieces(p) /\ Amount(p) /\ ReadRight(p) /\ WriteRight(p)
    /\ VarBuffer(p) /\ Values(p)

DataInv == Solitude /\ Unmapped /\ InPlace /\ \A p \in Procs : Data(p)

-----------------------------------------------------------------------------
(* Pages *)

\* The remainder and the quotient of a division.
LEMMA DivMod ==
    ASSUME NEW m \in Nat \ {0}, NEW x \in Int
    PROVE  /\ x % m \in 0..(m - 1) /\ x \div m \in Int
           /\ x = m * (x \div m) + (x % m)
<1>1. x % m \in 0..(m - 1) /\ x = m * (x \div m) + (x % m)
    OBVIOUS
<1>2. x \div m \in Int
    OBVIOUS
<1> QED
    BY <1>1, <1>2

LEMMA Sizes ==
    /\ PageSize \in Nat \ {0} /\ RamdiskSize \in Nat /\ RamdiskSize > 2
    /\ BufferPages \in Nat \ {0} /\ PageSize * BufferPages \in Nat
    /\ PageSize * (BufferPages + 1) = PageSize * BufferPages + PageSize
    /\ 0 \in Memory /\ 0 \in Ramdisk /\ 1 \in Ramdisk /\ 2 \in Ramdisk
    /\ UnsignedLong \in Nat \ {0} /\ IntRange \in Nat \ {0}
<1>1. /\ PageSize \in Nat \ {0} /\ RamdiskPages \in Nat \ {0}
      /\ BufferPages \in Nat \ {0} /\ PageSize * RamdiskPages > 2
    BY ConstantsAssumption
<1>2. RamdiskSize \in Nat /\ RamdiskSize > 2
    BY <1>1 DEF RamdiskSize
<1>3. /\ PageSize * BufferPages \in Nat
      /\ PageSize * (BufferPages + 1) = PageSize * BufferPages + PageSize
    BY <1>1
<1>4. PageSize * (BufferPages + 1) - 1 \in Nat
    BY <1>1, <1>3
<1>5. UnsignedLong \in Nat \ {0} /\ IntRange \in Nat \ {0}
    BY ConstantsAssumption
<1> QED
    BY <1>1, <1>2, <1>3, <1>4, <1>5 DEF Memory, Ramdisk

\* Order of products.
LEMMA TimesOrder ==
    ASSUME NEW m \in Nat \ {0}, NEW x \in Int, NEW y \in Int
    PROVE  x < y <=> m * x < m * y
<1>1. ASSUME x < y PROVE m * x < m * y
    <2>1. m * x + m * (y - x) = m * y
        OBVIOUS
    <2>2. \A z \in Nat \ {0} : m * z > 0
        OBVIOUS
    <2>3. y - x \in Nat \ {0}
        BY <1>1
    <2>4. m * (y - x) > 0
        BY <2>2, <2>3
    <2>5. m * x \in Int /\ m * (y - x) \in Int /\ m * y \in Int
        OBVIOUS
    <2> QED
        BY <2>1, <2>4, <2>5
<1>2. ASSUME y <= x PROVE m * y <= m * x
    <2>1. m * y + m * (x - y) = m * x
        OBVIOUS
    <2>2. \A z \in Nat : m * z >= 0
        OBVIOUS
    <2>3. x - y \in Nat
        BY <1>2
    <2>4. m * (x - y) >= 0
        BY <2>2, <2>3
    <2>5. m * x \in Int /\ m * (x - y) \in Int /\ m * y \in Int
        OBVIOUS
    <2> QED
        BY <2>1, <2>4, <2>5
<1>3. m * x \in Int /\ m * y \in Int
    OBVIOUS
<1> QED
    BY <1>1, <1>2, <1>3

LEMMA TimesStep ==
    ASSUME NEW m \in Nat \ {0}, NEW x \in Int, NEW y \in Int, x < y
    PROVE  m * x + m <= m * y
<1>1. m * (x + 1) = m * x + m /\ m * x \in Int /\ m * y \in Int
    OBVIOUS
<1>2. ~(y < x + 1)
    OBVIOUS
<1>3. ~(m * y < m * (x + 1))
    BY <1>2, TimesOrder
<1> QED
    BY <1>1, <1>3

\* A number below a multiple of m is in a page below.
LEMMA DivBelow ==
    ASSUME NEW m \in Nat \ {0}, NEW x \in Int, NEW k \in Int, x < m * k
    PROVE  x \div m < k
<1> DEFINE q == x \div m
<1>1. x % m \in 0..(m - 1) /\ q \in Int /\ x = m * q + (x % m)
    BY DivMod
<1> HIDE DEF q
<1>2. m * q < m * k
    <2>1. m * q \in Int /\ m * k \in Int
        BY <1>1
    <2> QED
        BY <1>1, <2>1
<1>3. q < k
    BY <1>1, <1>2, TimesOrder
<1> QED
    BY <1>3 DEF q

LEMMA DivNat ==
    ASSUME NEW m \in Nat \ {0}, NEW x \in Nat
    PROVE  x \div m \in Nat
<1> DEFINE q == x \div m
<1>1. x % m \in 0..(m - 1) /\ q \in Int /\ x = m * q + (x % m)
    BY DivMod
<1> HIDE DEF q
<1>2. m * (q + 1) = m * q + m /\ m * q \in Int
    BY <1>1
<1>3. m * (q + 1) > m * 0
    BY <1>1, <1>2
<1>4. q + 1 > 0
    BY <1>1, <1>3, TimesOrder
<1> QED
    BY <1>1, <1>4 DEF q

\* The quotient is the page a number is in.
LEMMA DivPage ==
    ASSUME NEW m \in Nat \ {0}, NEW x \in Int, NEW k \in Int,
           m * k <= x, x < m * (k + 1)
    PROVE  x \div m = k
<1> DEFINE q == x \div m
<1>1. x % m \in 0..(m - 1) /\ q \in Int /\ x = m * q + (x % m)
    BY DivMod
<1>2. q < k + 1
    BY DivBelow
<1> HIDE DEF q
<1>3. m * (q + 1) = m * q + m /\ m * q \in Int /\ m * k \in Int
    BY <1>1
<1>4. m * k < m * (q + 1)
    BY <1>1, <1>3
<1>5. k < q + 1
    BY <1>1, <1>4, TimesOrder
<1> QED
    BY <1>1, <1>2, <1>5 DEF q

LEMMA ModAtMost ==
    ASSUME NEW m \in Nat \ {0}, NEW x \in Nat
    PROVE  x % m \in 0..x
<1> DEFINE q == x \div m
<1>0. x \in Int
    OBVIOUS
<1>1. x % m \in 0..(m - 1) /\ x = m * q + (x % m)
    BY <1>0, DivMod
<1>q. q \in Nat
    BY DivNat
<1> HIDE DEF q
<1>2. m * q \in Nat
    BY <1>q
<1> QED
    BY <1>1, <1>q, <1>2

LEMMA ModSmall ==
    ASSUME NEW m \in Nat \ {0}, NEW x \in 0..(m - 1)
    PROVE  x % m = x
<1>1. m * 0 <= x /\ x < m * (0 + 1)
    OBVIOUS
<1>2. x \div m = 0
    BY <1>1, DivPage
<1>3. x = m * 0 + (x % m) /\ x % m \in 0..(m - 1)
    BY <1>2, DivMod
<1> QED
    BY <1>3

\* The pages of a buffer that begins anywhere.
LEMMA PagesBetween ==
    ASSUME NEW b \in Nat, NEW n \in Nat, b + n <= PageSize * BufferPages
    PROVE  /\ b \div PageSize \in Nat
           /\ NpagesBetween(b, n) \in Nat \ {0}
           /\ b \div PageSize + NpagesBetween(b, n) <= BufferPages + 1
<1> DEFINE f == b \div PageSize
           e == (b + n) \div PageSize
<1>1. f \in Nat /\ e \in Nat
    BY Sizes, DivNat
<1>2. b + n < PageSize * (BufferPages + 1)
    BY Sizes
<1>3. e < BufferPages + 1
    BY <1>2, Sizes, DivBelow
<1>4. f < e + 1
    <2>1. (b + n) % PageSize \in 0..(PageSize - 1) /\ e \in Int
          /\ b + n = PageSize * e + ((b + n) % PageSize)
        BY Sizes, DivMod
    <2> HIDE DEF e
    <2>2. PageSize * (e + 1) = PageSize * e + PageSize
          /\ PageSize * e \in Int
        BY <2>1, Sizes
    <2>3. b < PageSize * (e + 1)
        BY <2>1, <2>2, Sizes
    <2> QED
        BY <2>1, <2>3, Sizes, DivBelow
<1>5. NpagesBetween(b, n) = e - f + 1
    BY DEF NpagesBetween
<1> HIDE DEF e, f
<1>6. /\ NpagesBetween(b, n) \in Nat \ {0}
      /\ f + NpagesBetween(b, n) <= BufferPages + 1
    BY <1>1, <1>3, <1>4, <1>5, Sizes
<1> QED
    BY <1>1, <1>6 DEF f

\* The pages of a buffer that begins with one; of none the word wraps round.
LEMMA WordOfPages ==
    \E q \in Nat \ {0} : UnsignedLong = PageSize * (IntRange * q)
<1> DEFINE w == IntRange * PageSize
           q == UnsignedLong \div w
<1>1. w \in Nat \ {0} /\ UnsignedLong \in Nat \ {0} /\ UnsignedLong % w = 0
    BY ConstantsAssumption, Sizes
<1> HIDE DEF w
<1>2. q \in Nat /\ UnsignedLong = w * q + 0
    <2>1. q \in Nat
        BY <1>1, DivNat
    <2>2. UnsignedLong = w * q + (UnsignedLong % w)
        BY <1>1, DivMod
    <2> QED
        BY <1>1, <2>1, <2>2
<1> HIDE DEF q
<1>3. w * q \in Nat /\ w * 0 = 0
    BY <1>1, <1>2
<1>4. q # 0
    BY <1>1, <1>2, <1>3
<1>5. UnsignedLong = w * q
    BY <1>2, <1>3
<1>6. (IntRange * PageSize) * q = PageSize * (IntRange * q)
    BY <1>2, Sizes
<1> QED
    BY <1>2, <1>4, <1>5, <1>6 DEF w

LEMMA PagesOfNone == NpagesOf(0) = 0
<1>1. PICK q \in Nat \ {0} : UnsignedLong = PageSize * (IntRange * q)
    BY WordOfPages
<1> DEFINE u == UnsignedLong - 1
           r == IntRange * q
<1>r. r \in Nat /\ UnsignedLong = PageSize * r /\ u \in Nat
    BY <1>1, Sizes
<1>2. (0 - 1) % UnsignedLong = u
    <2> DEFINE x == 0 - 1
               m == UnsignedLong
    <2>1. m \in Nat \ {0} /\ x \in Int /\ x = -1
        BY Sizes
    <2> HIDE DEF x, m
    <2>2. m * x <= x /\ x < m * (x + 1)
        BY <2>1
    <2>3. x \div m = x
        BY <2>1, <2>2, DivPage
    <2>4. x % m \in 0..(m - 1) /\ x = m * (x \div m) + (x % m)
        BY <2>1, DivMod
    <2>5. x % m = m - 1
        BY <2>1, <2>3, <2>4
    <2> QED
        BY <2>5 DEF x, m
<1>3. u \div PageSize = r - 1
    <2> HIDE DEF r
    <2>1. PageSize * (r - 1) = PageSize * r - PageSize
          /\ PageSize * r \in Nat
        BY <1>r, Sizes
    <2>2. PageSize * (r - 1) <= u /\ u < PageSize * ((r - 1) + 1)
        BY <1>r, <2>1, Sizes
    <2> HIDE DEF u
    <2> QED
        BY <1>r, <2>2, Sizes, DivPage
<1> HIDE DEF u
<1>4. NpagesOf(0) = ((r - 1) + 1) % IntRange
    BY <1>2, <1>3 DEF NpagesOf
<1>5. r % IntRange = 0
    <2>1. IntRange * (q + 1) = IntRange * q + IntRange /\ IntRange * q \in Nat
        BY Sizes
    <2>2. IntRange * q <= r /\ r < IntRange * (q + 1)
        BY <2>1, Sizes
    <2> HIDE DEF r
    <2>3. r \div IntRange = q
        BY <1>r, <2>2, Sizes, DivPage
    <2>4. r % IntRange \in 0..(IntRange - 1)
          /\ r = IntRange * q + (r % IntRange)
        <3> DEFINE m == IntRange
                   d == r \div m
        <3>1. m \in Nat \ {0} /\ r \in Int
            BY <1>r, Sizes
        <3> HIDE DEF m
        <3>2. r % m \in 0..(m - 1) /\ r = m * d + (r % m)
            BY <3>1, DivMod
        <3> QED
            BY <2>3, <3>2 DEF m
    <2>5. r = IntRange * q
        BY DEF r
    <2> QED
        BY <2>1, <2>4, <2>5, Sizes
<1> HIDE DEF r
<1>6. (r - 1) + 1 = r
    BY <1>r
<1> QED
    BY <1>4, <1>5, <1>6

LEMMA PagesOf ==
    ASSUME NEW b \in Nat, NEW n \in Nat, b + n <= PageSize * BufferPages,
           b % PageSize = 0
    PROVE  /\ b \div PageSize \in Nat /\ NpagesOf(n) \in Nat
           /\ b \div PageSize + NpagesOf(n) <= BufferPages + 1
<1> DEFINE f == b \div PageSize
           r == (n - 1) % UnsignedLong
           k == r \div PageSize
<1>1. f \in Nat /\ f < BufferPages + 1
    <2>1. /\ f \in Nat /\ NpagesBetween(b, n) \in Nat \ {0}
          /\ f + NpagesBetween(b, n) <= BufferPages + 1
        BY PagesBetween
    <2> HIDE DEF f
    <2> QED
        BY <2>1, Sizes
<1>2. CASE n = 0
    BY <1>1, <1>2, PagesOfNone, Sizes
<1>3. CASE n > 0
    <2>1. n - 1 \in Nat
        BY <1>3
    <2>2. r \in 0..(n - 1)
        BY <2>1, Sizes, ModAtMost
    <2>3. k \in Nat
        BY <2>2, Sizes, DivNat
    <2>4. b = PageSize * f
        <3>1. b = PageSize * f + (b % PageSize)
            BY Sizes, DivMod
        <3>2. PageSize * f \in Int
            BY <1>1, Sizes
        <3> QED
            BY <3>1, <3>2
    <2> HIDE DEF f, r
    <2>5. r < PageSize * (BufferPages - f)
        <3>1. PageSize * (BufferPages - f)
                = PageSize * BufferPages - PageSize * f
            BY <1>1, Sizes
        <3>2. PageSize * f \in Int
            BY <1>1, Sizes
        <3> QED
            BY <2>1, <2>2, <2>4, <3>1, <3>2, Sizes
    <2>6. k < BufferPages - f
        BY <1>1, <2>2, <2>5, Sizes, DivBelow
    <2> HIDE DEF k
    <2>7. (k + 1) % IntRange \in 0..(k + 1)
        BY <2>3, Sizes, ModAtMost
    <2>8. NpagesOf(n) = (k + 1) % IntRange
        BY DEF NpagesOf, k, r
    <2>9. f + NpagesOf(n) <= BufferPages + 1 /\ NpagesOf(n) \in Nat
        BY <1>1, <2>3, <2>6, <2>7, <2>8, Sizes
    <2> QED
        BY <1>1, <2>9 DEF f
<1> QED
    BY <1>2, <1>3

\* With Fits it is as it should be.
LEMMA PagesOfSome ==
    ASSUME Fits, NEW n \in Nat \ {0}, n <= RamdiskSize
    PROVE  NpagesOf(n) = ((n - 1) \div PageSize) + 1
<1> DEFINE k == (n - 1) \div PageSize
<1>1. RamdiskPages \in Nat \ {0} /\ RamdiskPages < IntRange
    BY ConstantsAssumption DEF Fits
<1>2. RamdiskSize = PageSize * RamdiskPages
    BY DEF RamdiskSize
<1>3. n - 1 \in 0..(UnsignedLong - 1)
    <2>1. PICK q \in Nat \ {0} : UnsignedLong = PageSize * (IntRange * q)
        BY WordOfPages
    <2>2. IntRange * q \in Int /\ RamdiskPages < IntRange * q
        <3>1. IntRange * 1 <= IntRange * q
            <4>1. 0 < q
                OBVIOUS
            <4>2. IntRange * 0 + IntRange <= IntRange * q
                BY <4>1, Sizes, TimesStep
            <4> QED
                BY <4>2, Sizes
        <3> QED
            BY <1>1, <3>1, Sizes
    <2>3. RamdiskSize < UnsignedLong
        BY <1>1, <1>2, <2>1, <2>2, Sizes, TimesOrder
    <2> QED
        BY <2>3, Sizes
<1>4. (n - 1) % UnsignedLong = n - 1
    BY <1>3, Sizes, ModSmall
<1>5. k \in Nat
    BY Sizes, DivNat
<1>6. k < RamdiskPages
    BY <1>1, <1>2, Sizes, DivBelow
<1> HIDE DEF k
<1>7. (k + 1) % IntRange = k + 1
    <2>1. k + 1 \in 0..(IntRange - 1)
        BY <1>1, <1>5, <1>6, Sizes
    <2> QED
        BY <2>1, Sizes, ModSmall
<1>8. NpagesOf(n) = (k + 1) % IntRange
    BY <1>4 DEF NpagesOf, k
<1> QED
    BY <1>7, <1>8 DEF k

-----------------------------------------------------------------------------
(* The shape, and what a step leaves to the other processes. *)

LEMMA InitShape == Init => Shape
BY ConstantsAssumption, Sizes
   DEF Init, Shape, NoCall, Args, Memory, Ramdisk, Pages

LEMMA CallIsArgs ==
    ASSUME NEW p \in Procs, NEW call0, call0 = call[p], Shape
    PROVE  /\ call0 \in Args /\ call0.len \in Nat /\ call0.buf \in Nat
           /\ First(p) \in Nat
<1>1. call0 \in Args
    BY DEF Shape
<1>2. call0.len \in Nat /\ call0.buf \in Nat
    BY <1>1 DEF Args
<1> QED
    BY <1>1, <1>2, Sizes, DivNat DEF First

LEMMA BeginShape ==
    ASSUME Shape, NEW p \in Procs, NEW first, NEW c \in Args,
           Begin(p, first, c)
    PROVE  /\ call' \in [Procs -> Args] /\ DOMAIN pc' = Procs
           /\ alone' \in [Procs -> BOOLEAN]
BY DEF Begin, Goto, Shape

LEMMA NewCalls ==
    /\ NoCall \in Args
    /\ \A op \in {"read", "write", "none", "mmap"}, b, n \in Nat :
          [NoCall EXCEPT !.op = op, !.buf = b, !.len = n] \in Args
    /\ \A to \in Procs \cup {Other}, sig \in {"KILL", "USR1"} :
          [NoCall EXCEPT !.op = "signal", !.to = to, !.sig = sig] \in Args
BY DEF NoCall, Args

LEMMA CallsShape ==
    ASSUME Shape, NEW p \in Procs,
           CallRw(p) \/ CallMmap(p) \/ CallSignal(p) \/ CallSysfs(p)
    PROVE  Shape'
<1>1. /\ call' \in [Procs -> Args] /\ DOMAIN pc' = Procs
      /\ alone' \in [Procs -> BOOLEAN]
    <2>1. CASE CallRw(p)
        <3>1. PICK op \in {"read", "write", "none"},
                   buf \in 0..(PageSize * BufferPages - 1),
                   len \in 0..RamdiskSize :
                  Begin(p, FirstOf(op),
                        [NoCall EXCEPT !.op = op, !.buf = buf, !.len = len])
            BY <2>1 DEF CallRw
        <3>2. buf \in Nat /\ len \in Nat
            BY Sizes
        <3>3. [NoCall EXCEPT !.op = op, !.buf = buf, !.len = len] \in Args
            BY <3>2, NewCalls
        <3> QED
            BY <3>1, <3>3, BeginShape
    <2>2. CASE CallMmap(p)
        <3>1. PICK off \in 0..(RamdiskPages + 1), n \in 1..(RamdiskPages + 1) :
                  Begin(p, "mmap",
                        [NoCall EXCEPT !.op = "mmap", !.buf = off * PageSize,
                                       !.len = n * PageSize])
            BY <2>2 DEF CallMmap
        <3>2. off * PageSize \in Nat /\ n * PageSize \in Nat
            BY Sizes, ConstantsAssumption
        <3> DEFINE c == [NoCall EXCEPT !.op = "mmap", !.buf = off * PageSize,
                                       !.len = n * PageSize]
        <3>3. c \in Args
            BY <3>2, NewCalls
        <3> QED
            BY <3>1, <3>3, BeginShape
    <2>3. CASE CallSignal(p)
        <3>1. PICK to \in Procs \cup {Other}, sig \in {"KILL", "USR1"} :
                  Begin(p, "setpid", [NoCall EXCEPT !.op = "signal",
                                          !.to = to, !.sig = sig])
            BY <2>3 DEF CallSignal
        <3> QED
            BY <3>1, NewCalls, BeginShape
    <2>4. CASE CallSysfs(p)
        <3>1. PICK op \in {"read", "write"}, attr \in {Foo, Baz, Bar} :
                  Begin(p, IF op = "read" THEN "show" ELSE "store",
                        [NoCall EXCEPT !.op = op, !.buf = attr, !.len = 1])
            BY <2>4 DEF CallSysfs
        <3>2. attr \in Nat /\ 1 \in Nat
            BY DEF Foo, Baz, Bar
        <3>3. [NoCall EXCEPT !.op = op, !.buf = attr, !.len = 1] \in Args
            BY <3>2, NewCalls
        <3> QED
            BY <3>1, <3>3, BeginShape
    <2> QED
        BY <2>1, <2>2, <2>3, <2>4
<1>2. UNCHANGED <<lab, held, kbuf, npages, pinned, ktmp, curlen, mem, mapping>>
    BY DEF CallRw, CallMmap, CallSignal, CallSysfs, rwVars
<1>3. j' \in [Procs -> Int]
    <2>1. j' = j \/ j' = [j EXCEPT ![p] = 0]
        BY DEF CallRw, CallMmap, CallSignal, CallSysfs, rwVars
    <2> QED
        BY <2>1 DEF Shape
<1>4. rc' \in [Procs -> Int]
    <2>1. \/ rc' = rc \/ rc' = [rc EXCEPT ![p] = 0]
          \/ rc' = [rc EXCEPT ![p] = -1]
        <3>1. CASE CallRw(p)
            BY <3>1 DEF CallRw, Error
        <3>2. CASE CallMmap(p) \/ CallSignal(p) \/ CallSysfs(p)
            BY <3>2 DEF CallMmap, CallSignal, CallSysfs
        <3> QED
            BY <3>1, <3>2
    <2> QED
        BY <2>1 DEF Shape
<1>5. DOMAIN user' = Procs /\ \A q \in Procs : DOMAIN user'[q] = Memory
    <2>1. CASE CallRw(p)
        <3>1. PICK op \in {"read", "write", "none"},
                   buf \in 0..(PageSize * BufferPages - 1),
                   len \in 0..RamdiskSize :
                  Prepare(p, op, buf, len)
            BY <2>1 DEF CallRw
        <3> QED
            BY <3>1 DEF Prepare, Shape
    <2>2. CASE CallMmap(p) \/ CallSignal(p)
        BY <2>2 DEF CallMmap, CallSignal, Shape
    <2>3. CASE CallSysfs(p)
        BY <2>3 DEF CallSysfs, Shape
    <2> QED
        BY <2>1, <2>2, <2>3
<1> QED
    BY <1>1, <1>2, <1>3, <1>4, <1>5 DEF Shape

LEMMA PagesShape ==
    ASSUME Shape, NEW p \in Procs,
           KmallocArray(p) \/ GetUserPages(p) \/ CopyPage(p) \/ PutPage(p)
    PROVE  Shape'
<1> USE DEF Goto, callVars
<1>0. /\ DOMAIN pc' = Procs
      /\ UNCHANGED <<lab, call, alone, kbuf, mapping>>
    BY DEF KmallocArray, GetUserPages, CopyPage, PutPage, Shape
<1>1. CASE KmallocArray(p)
    <2>1. /\ NpagesOf(call[p].len) \in Int
          /\ NpagesBetween(call[p].buf, call[p].len) \in Int
        <3> DEFINE n == call[p].len
                   b == call[p].buf
        <3>1. n \in Nat /\ b \in Nat
            BY CallIsArgs
        <3> HIDE DEF n, b
        <3>2. n - 1 \in Int /\ b + n \in Int
            BY <3>1
        <3>3. (n - 1) % UnsignedLong \in Int
            BY <3>2, Sizes, DivMod
        <3>4. ((n - 1) % UnsignedLong) \div PageSize \in Int
            BY <3>3, Sizes, DivMod
        <3>5. /\ b \div PageSize \in Int /\ (b + n) \div PageSize \in Int
            BY <3>1, <3>2, Sizes, DivMod
        <3>6. NpagesBetween(b, n) \in Int
            BY <3>5 DEF NpagesBetween
        <3>7. NpagesOf(n) \in Int
            BY <3>4, Sizes, DivMod DEF NpagesOf
        <3> QED
            BY <3>6, <3>7 DEF n, b
    <2>2. npages' \in [Procs -> Int] /\ rc' \in [Procs -> Int]
          /\ held' \in [Procs -> BOOLEAN]
        <3>1. npages' = [npages EXCEPT ![p] =
                    IF lab \in Aligned THEN NpagesOf(call[p].len)
                    ELSE NpagesBetween(call[p].buf, call[p].len)]
            BY <1>1 DEF KmallocArray
        <3>2. rc' = rc \/ rc' = [rc EXCEPT ![p] = -1]
            BY <1>1 DEF KmallocArray, Error
        <3>3. held' = held \/ held' = [held EXCEPT ![p] = TRUE]
            BY <1>1 DEF KmallocArray
        <3>4. npages' \in [Procs -> Int]
            BY <3>1, <2>1 DEF Shape
        <3>5. rc' \in [Procs -> Int]
            BY <3>2 DEF Shape
        <3>6. held' \in [Procs -> BOOLEAN]
            BY <3>3 DEF Shape
        <3> QED
            BY <3>4, <3>5, <3>6
    <2>3. UNCHANGED <<j, ktmp, curlen, pinned, user, mem>>
        BY <1>1 DEF KmallocArray
    <2> QED
        BY <1>0, <2>2, <2>3 DEF Shape
<1>2. CASE GetUserPages(p)
    <2>1. curlen' \in [Procs -> Int] /\ ktmp' \in [Procs -> Int]
        <3>1. call[p].len \in Int
            BY CallIsArgs
        <3> QED
            BY <1>2, <3>1 DEF GetUserPages, Shape
    <2>2. pinned' \in [Procs -> [Pages -> Int]]
        BY <1>2 DEF GetUserPages, Shape
    <2>3. UNCHANGED <<held, npages, j, rc, user, mem>>
        BY <1>2 DEF GetUserPages
    <2> QED
        BY <1>0, <2>1, <2>2, <2>3 DEF Shape
<1>3. CASE CopyPage(p)
    <2>1. Nb(p) \in Int
        <3> DEFINE n == call[p].len - 1
                   b == call[p].buf
        <3>1. n \in Int /\ b \in Int
            BY CallIsArgs
        <3> HIDE DEF n, b
        <3>2. n % PageSize \in Int /\ b % PageSize \in Int
            BY <3>1, Sizes, DivMod
        <3> USE DEF n, b
        <3>3. curlen[p] \in Int
            BY DEF Shape
        <3>4. PageSize \in Int
            BY Sizes
        <3> QED
            BY <3>2, <3>3, <3>4 DEF Nb, Min2, Offset
    <2>2. curlen' \in [Procs -> Int] /\ ktmp' \in [Procs -> Int]
        <3>1. curlen[p] - Nb(p) \in Int /\ ktmp[p] + Nb(p) \in Int
            BY <2>1 DEF Shape
        <3>2. /\ curlen' = [curlen EXCEPT ![p] = @ - Nb(p)]
              /\ ktmp' = [ktmp EXCEPT ![p] = @ + Nb(p)]
            BY <1>3 DEF CopyPage
        <3>3. curlen \in [Procs -> Int] /\ ktmp \in [Procs -> Int]
            BY DEF Shape
        <3> HIDE DEF Nb
        <3> QED
            BY <3>1, <3>2, <3>3
    <2>3. /\ DOMAIN user' = Procs /\ \A q \in Procs : DOMAIN user'[q] = Memory
          /\ DOMAIN mem' = Ramdisk
        BY <1>3 DEF CopyPage, Shape
    <2>4. UNCHANGED <<held, npages, j, pinned, rc>>
        BY <1>3 DEF CopyPage
    <2> QED
        BY <1>0, <2>2, <2>3, <2>4 DEF Shape
<1>4. CASE PutPage(p)
    <2>1. j' \in [Procs -> Int]
        BY <1>4 DEF PutPage, Shape
    <2>2. pinned' \in [Procs -> [Pages -> Int]]
        <3> DEFINE g == (call[p].buf \div PageSize) + j[p]
        <3>1. pinned' = [pinned EXCEPT ![p][g] = @ - 1]
            BY <1>4 DEF PutPage
        <3> HIDE DEF g
        <3>2. pinned \in [Procs -> [Pages -> Int]]
            BY DEF Shape
        <3> DEFINE new == [pinned[p] EXCEPT ![g] = @ - 1]
        <3>3. new \in [Pages -> Int]
            <4>1. pinned[p] \in [Pages -> Int]
                BY <3>2
            <4>2. \A h \in Pages : new[h] \in Int
                BY <4>1
            <4> QED
                BY <4>1, <4>2
        <3>4. pinned' = [pinned EXCEPT ![p] = new]
            BY <3>1
        <3> HIDE DEF new
        <3> QED
            BY <3>2, <3>3, <3>4
    <2>3. UNCHANGED <<held, npages, ktmp, curlen, rc, user, mem>>
        BY <1>4 DEF PutPage
    <2> QED
        BY <1>0, <2>1, <2>2, <2>3 DEF Shape
<1> QED
    BY <1>1, <1>2, <1>3, <1>4

LEMMA IoctlsShape ==
    ASSUME Shape, NEW p \in Procs,
           \/ Kfree(p) \/ KmallocBuffer(p) \/ CopyVar(p) \/ CopyCell(p)
           \/ CellFault(p)
    PROVE  Shape'
<1> USE DEF Goto, callVars, rwVars
<1>0. /\ DOMAIN pc' = Procs
      /\ UNCHANGED <<lab, call, alone, npages, ktmp, curlen, pinned, mapping>>
    BY DEF Kfree, KmallocBuffer, CopyVar, CopyCell, CellFault, Shape
<1>1. held' \in [Procs -> BOOLEAN] /\ j' \in [Procs -> Int]
    <2>1. \/ held' = held \/ held' = [held EXCEPT ![p] = TRUE]
          \/ held' = [held EXCEPT ![p] = FALSE]
        BY DEF Kfree, KmallocBuffer, CopyVar, CopyCell, CellFault
    <2>2. j' = j \/ j' = [j EXCEPT ![p] = @ + 1]
        BY DEF Kfree, KmallocBuffer, CopyVar, CopyCell, CellFault
    <2>3. held' \in [Procs -> BOOLEAN]
        BY <2>1 DEF Shape
    <2>4. j' \in [Procs -> Int]
        BY <2>2 DEF Shape
    <2> QED
        BY <2>3, <2>4
<1>2. DOMAIN kbuf' = Procs /\ DOMAIN mem' = Ramdisk
    BY DEF Kfree, KmallocBuffer, CopyVar, CopyCell, CellFault, Shape
<1>3. DOMAIN user' = Procs /\ \A q \in Procs : DOMAIN user'[q] = Memory
    <2>1. CASE CopyVar(p)
        <3>1. \/ user' = user
              \/ \E n \in 0..call[p].len :
                    user' = [user EXCEPT ![p] = [a \in Memory |->
                        IF a - call[p].buf \in 0..(n - 1)
                        THEN kbuf[p][a - call[p].buf] ELSE @[a]]]
            BY <2>1 DEF CopyVar
        <3> QED
            BY <3>1 DEF Shape
    <2>2. CASE CopyCell(p)
        BY <2>2 DEF CopyCell, Shape
    <2>3. CASE Kfree(p) \/ KmallocBuffer(p) \/ CellFault(p)
        BY <2>3 DEF Kfree, KmallocBuffer, CellFault, Shape
    <2> QED
        BY <2>1, <2>2, <2>3
<1>4. rc' \in [Procs -> Int]
    <2>1. call[p].len \in Int /\ j[p] \in Int
        BY CallIsArgs DEF Shape
    <2>2. \A n \in 0..call[p].len : call[p].len - n \in Int
        BY <2>1
    <2>3. CASE CopyVar(p)
        BY <2>2, <2>3 DEF CopyVar, Shape
    <2>4. CASE Kfree(p)
        BY <2>1, <2>4 DEF Kfree, Shape
    <2>5. CASE KmallocBuffer(p) \/ CopyCell(p) \/ CellFault(p)
        <3>1. \/ rc' = rc \/ rc' = [rc EXCEPT ![p] = -1]
              \/ rc' = [rc EXCEPT ![p] = @]
              \/ rc' = [rc EXCEPT ![p] = RamdiskSize - j[p]]
            BY <2>5 DEF KmallocBuffer, CopyCell, CellFault, Error
        <3>2. RamdiskSize - j[p] \in Int
            BY <2>1, Sizes
        <3> QED
            BY <3>1, <3>2 DEF Shape
    <2> QED
        BY <2>3, <2>4, <2>5
<1> QED
    BY <1>0, <1>1, <1>2, <1>3, <1>4 DEF Shape

LEMMA ShapeStep ==
    ASSUME Shape, NEW p \in Procs, Step(p)
    PROVE  Shape'
<1> USE DEF Goto, sigVars, callVars, rwVars
<1>1. CASE MycdrvMmap(p) \/ Store(p)
    <2>1. mapping' \in [Procs -> SUBSET Ramdisk]
        <3>1. CASE MycdrvMmap(p) /\ Maps(call[p].buf, call[p].len)
            <4> DEFINE off == call[p].buf
                       len == call[p].len
            <4>1. off \in Nat /\ len \in Nat
                BY CallIsArgs
            <4> HIDE DEF off, len
            <4>2. /\ off < RamdiskSize
                  /\ len <= (RamdiskSize - off) % UnsignedLong
                BY <3>1 DEF Maps, off, len
            <4>3. (RamdiskSize - off) % UnsignedLong \in 0..(RamdiskSize - off)
                BY <4>1, <4>2, Sizes, ModAtMost
            <4>4. off..(off + len - 1) \subseteq Ramdisk
                BY <4>1, <4>2, <4>3, Sizes DEF Ramdisk
            <4> QED
                <5>1. \/ mapping' = mapping
                      \/ mapping' =
                            [mapping EXCEPT ![p] = off..(off + len - 1)]
                    BY <3>1 DEF MycdrvMmap, off, len
                <5> DEFINE range == off..(off + len - 1)
                <5>2. range \in SUBSET Ramdisk
                    BY <4>4
                <5> HIDE DEF range
                <5> QED
                    BY <5>1, <5>2 DEF Shape, range
        <3>2. CASE ~(MycdrvMmap(p) /\ Maps(call[p].buf, call[p].len))
            BY <1>1, <3>2 DEF MycdrvMmap, Store, Shape
        <3> QED
            BY <3>1, <3>2
    <2>2. rc' \in [Procs -> Int] /\ DOMAIN mem' = Ramdisk /\ DOMAIN pc' = Procs
        <3>1. rc' = rc \/ \E v \in {0, -1} : rc' = [rc EXCEPT ![p] = v]
            BY <1>1 DEF MycdrvMmap, Store, Error
        <3>2. DOMAIN mem' = Ramdisk /\ DOMAIN pc' = Procs
            BY <1>1 DEF MycdrvMmap, Store, Shape
        <3> QED
            BY <3>1, <3>2 DEF Shape
    <2>3. UNCHANGED <<lab, call, alone, held, kbuf, npages, j, ktmp, curlen,
                      pinned, user>>
        BY <1>1 DEF MycdrvMmap, Store
    <2> QED
        BY <2>1, <2>2, <2>3 DEF Shape
<1>2. CASE SetPid(p) \/ SetSig(p) \/ SendSig(p)
    BY <1>2 DEF SetPid, SetSig, SendSig, Shape
<1>3. CASE Show(p) \/ Sprintf(p) \/ StoreAttribute(p) \/ NoInteger(p)
    <2>1. /\ DOMAIN pc' = Procs /\ DOMAIN kbuf' = Procs
          /\ DOMAIN mem' = Ramdisk
        BY <1>3 DEF Show, FooShow, BShow, Sprintf, StoreAttribute, FooStore,
           BStore, BAssign, NoInteger, Shape
    <2>2. DOMAIN user' = Procs /\ \A q \in Procs : DOMAIN user'[q] = Memory
        BY <1>3 DEF Show, Sprintf, StoreAttribute, NoInteger, Shape
    <2>3. rc' = rc \/ rc' = [rc EXCEPT ![p] = -1]
        BY <1>3 DEF Show, Sprintf, StoreAttribute, NoInteger, Error
    <2>4. rc' \in [Procs -> Int]
        BY <2>3 DEF Shape
    <2>5. UNCHANGED <<lab, call, held, alone, npages, j, ktmp, curlen, pinned,
                      mapping>>
        BY <1>3 DEF Show, Sprintf, StoreAttribute, NoInteger
    <2> QED
        BY <2>1, <2>2, <2>4, <2>5 DEF Shape
<1>4. CASE Return(p)
    BY <1>4, NewCalls DEF Return, Shape
<1> QED
    BY <1>1, <1>2, <1>3, <1>4, CallsShape, PagesShape, IoctlsShape DEF Step

\* All that is q's own.
Same(q) ==
    /\ lab' = lab
    /\ pc'[q] = pc[q] \/ (pc'[q] = "dead" /\ lab = "signal")
    /\ call'[q] = call[q] /\ held'[q] = held[q] /\ kbuf'[q] = kbuf[q]
    /\ npages'[q] = npages[q] /\ j'[q] = j[q] /\ ktmp'[q] = ktmp[q]
    /\ curlen'[q] = curlen[q] /\ pinned'[q] = pinned[q] /\ rc'[q] = rc[q]
    /\ user'[q] = user[q] /\ (alone'[q] => alone[q])

LEMMA OthersSame ==
    ASSUME Shape, NEW p \in Procs, NEW q \in Procs, q # p, Step(p),
           \A x \in Procs : Where(x)
    PROVE  Same(q)
<1> USE DEF Shape, Goto, sigVars, callVars, rwVars, Same
<1>1. CASE CallRw(p) \/ CallMmap(p) \/ CallSignal(p) \/ CallSysfs(p)
    <2>1. CASE CallRw(p)
        BY <2>1 DEF CallRw, Begin, Prepare
    <2>2. CASE CallMmap(p) \/ CallSignal(p)
        BY <2>2 DEF CallMmap, CallSignal, Begin
    <2>3. CASE CallSysfs(p)
        BY <2>3 DEF CallSysfs, Begin
    <2> QED
        BY <1>1, <2>1, <2>2, <2>3
<1>2. CASE KmallocArray(p) \/ GetUserPages(p) \/ Kfree(p)
    BY <1>2 DEF KmallocArray, GetUserPages, Kfree
<1>3. CASE CopyPage(p)
    BY <1>3 DEF CopyPage
<1>4. CASE PutPage(p)
    BY <1>4 DEF PutPage
<1>5. CASE KmallocBuffer(p) \/ CopyVar(p) \/ CellFault(p)
    BY <1>5 DEF KmallocBuffer, CopyVar, CellFault
<1>6. CASE CopyCell(p)
    BY <1>6 DEF CopyCell
<1>7. CASE MycdrvMmap(p) \/ Store(p)
    BY <1>7 DEF MycdrvMmap, Store
<1>8. CASE SetPid(p) \/ SetSig(p) \/ SendSig(p)
    BY <1>8 DEF SetPid, SetSig, SendSig, Where
<1>9. CASE Show(p) \/ Sprintf(p) \/ StoreAttribute(p) \/ NoInteger(p)
    BY <1>9 DEF Show, FooShow, BShow, Sprintf, StoreAttribute, FooStore,
       BStore, BAssign, NoInteger
<1>10. CASE Return(p)
    BY <1>10 DEF Return
<1> QED
    BY <1>1, <1>2, <1>3, <1>4, <1>5, <1>6, <1>7, <1>8, <1>9, <1>10 DEF Step

LEMMA SameOwn ==
    ASSUME Shape, NEW q \in Procs, Own(q), Same(q)
    PROVE  Own(q)'
<1>1. First(q)' = First(q)
    BY DEF First, Same
<1>2. CASE pc'[q] = pc[q]
    BY <1>1, <1>2
       DEF Own, Where, Arguments, Holds, Pins, Same, PagePcs, PageLabs, Ioctls,
           Aligned
<1>3. CASE pc'[q] = "dead" /\ lab = "signal"
    <2>1. pc[q] \notin {"copy", "put"}
        BY <1>3 DEF Own, Where, PagePcs, PageLabs
    <2> QED
        BY <1>1, <1>3, <2>1
           DEF Own, Where, Arguments, Holds, Pins, Same, PagePcs, PageLabs,
               Ioctls, Aligned
<1> QED
    BY <1>2, <1>3 DEF Same

-----------------------------------------------------------------------------
(* What a step of p does to p's own. *)

LEMMA CallsOwn ==
    ASSUME IInv, NEW p \in Procs,
           CallRw(p) \/ CallMmap(p) \/ CallSignal(p) \/ CallSysfs(p)
    PROVE  Own(p)'
<1>s. Shape /\ Own(p)
    BY DEF IInv
<1>p. pc[p] = "idle"
    BY DEF CallRw, CallMmap, CallSignal, CallSysfs, Begin, Goto
<1>0. /\ lab' = lab /\ held' = held /\ pinned' = pinned
      /\ ~held[p] /\ \A g \in Pages : pinned[p][g] = 0
    BY <1>s, <1>p
       DEF CallRw, CallMmap, CallSignal, CallSysfs, rwVars, Own, Holds, Pins
<1>1. CASE CallRw(p)
    <2>1. PICK op \in {"read", "write", "none"},
               buf \in 0..(PageSize * BufferPages - 1),
               len \in 0..RamdiskSize :
              /\ op = "none" => lab \in Ioctls
              /\ buf + len <= PageSize * BufferPages
              /\ lab \in Aligned => buf % PageSize = 0
              /\ lab = "data" => buf = 0 /\ len = RamdiskSize
              /\ lab = "vardata" => buf = 0
              /\ Begin(p, FirstOf(op),
                       [NoCall EXCEPT !.op = op, !.buf = buf, !.len = len])
        BY <1>1 DEF CallRw
    <2>2. lab \in PageLabs \cup Ioctls /\ j' = [j EXCEPT ![p] = 0]
        BY <1>1 DEF CallRw
    <2>3. /\ call'[p].op = op /\ call'[p].buf = buf /\ call'[p].len = len
          /\ pc'[p] = FirstOf(op) /\ j'[p] = 0
        BY <2>1, <2>2, <1>s DEF Begin, Goto, Shape, NoCall
    <2>4. /\ lab \in PageLabs => pc'[p] = "array"
          /\ lab = "data" => pc'[p] = IF op = "none" THEN "return" ELSE "cells"
          /\ lab = "vardata" => pc'[p] = "kmalloc"
        BY <2>2, <2>3 DEF FirstOf, PageLabs, Ioctls
    <2>5. len <= RamdiskSize
        BY Sizes
    <2>6. lab \in Ioctls => len <= PageSize * BufferPages
        BY <2>1, Sizes DEF Ioctls
    <2>7. Where(p)' /\ Holds(p)' /\ Pins(p)'
        <3>1. /\ pc'[p] \in {"array", "return", "cells", "kmalloc"}
              /\ pc'[p] = "cells" => op \in {"read", "write"}
              /\ pc'[p] = "array" => op \in {"read", "write"}
            BY <2>1, <2>2, <2>4 DEF PageLabs, Ioctls
        <3>2. Where(p)'
            BY <1>0, <2>2, <2>3, <2>4, <3>1
               DEF Where, PageLabs, Ioctls, PagePcs
        <3>3. Holds(p)'
            BY <1>0, <3>1 DEF Holds
        <3>4. Pins(p)'
            BY <1>0, <2>3, <3>1 DEF Pins
        <3> QED
            BY <3>2, <3>3, <3>4
    <2>8. Arguments(p)'
        BY <1>0, <2>1, <2>2, <2>3, <2>5, <2>6
           DEF Arguments, PageLabs, Ioctls, Aligned
    <2> QED
        BY <2>7, <2>8 DEF Own
<1>2. CASE CallMmap(p) \/ CallSignal(p)
    <2>1. \/ lab = "mmap" /\ pc'[p] = "mmap" /\ call'[p].op = "mmap"
          \/ lab = "signal" /\ pc'[p] = "setpid"
        <3>1. CASE CallMmap(p)
            <4>1. lab = "mmap" /\ \E b, n : Begin(p, "mmap",
                      [NoCall EXCEPT !.op = "mmap", !.buf = b, !.len = n])
                BY <3>1 DEF CallMmap
            <4> QED
                BY <4>1, <1>s DEF Begin, Goto, Shape, NoCall
        <3>2. CASE CallSignal(p)
            BY <3>2, <1>s DEF CallSignal, Begin, Goto, Shape
        <3> QED
            BY <1>2, <3>1, <3>2
    <2> QED
        BY <1>0, <2>1
           DEF Own, Where, Arguments, Holds, Pins, PageLabs, Ioctls, PagePcs,
               Aligned
<1>3. CASE CallSysfs(p)
    <2>1. PICK op \in {"read", "write"}, attr \in {Foo, Baz, Bar} :
              Begin(p, IF op = "read" THEN "show" ELSE "store",
                    [NoCall EXCEPT !.op = op, !.buf = attr, !.len = 1])
        BY <1>3 DEF CallSysfs
    <2>2. /\ call'[p].op = op /\ call'[p].buf = attr /\ lab = "sysfs"
          /\ pc'[p] = IF op = "read" THEN "show" ELSE "store"
        BY <2>1, <1>3, <1>s DEF CallSysfs, Begin, Goto, Shape, NoCall
    <2> QED
        BY <1>0, <2>2
           DEF Own, Where, Arguments, Holds, Pins, PageLabs, Ioctls, PagePcs,
               Aligned
<1> QED
    BY <1>1, <1>2, <1>3

LEMMA PagesOwn ==
    ASSUME IInv, NEW p \in Procs,
           KmallocArray(p) \/ GetUserPages(p) \/ CopyPage(p) \/ PutPage(p)
    PROVE  Own(p)'
<1>s. Shape /\ Own(p)
    BY DEF IInv
<1>0. lab' = lab /\ call' = call /\ First(p)' = First(p)
    BY DEF KmallocArray, GetUserPages, CopyPage, PutPage, callVars, First
<1>l. lab \in PageLabs /\ call[p].op \in {"read", "write"}
    BY <1>s DEF KmallocArray, GetUserPages, CopyPage, PutPage, Goto, Own,
       Where, PagePcs
<1>f. First(p) \in Nat /\ npages[p] \in Int /\ j[p] \in Int
      /\ BufferPages \in Nat
    BY <1>s, CallIsArgs, Sizes DEF Shape
<1>t. pc'[p] \in {"gup", "return", "kfree", "copy", "put"}
    BY <1>s DEF KmallocArray, GetUserPages, CopyPage, PutPage, Goto, Shape
<1>1. Where(p)'
    BY <1>0, <1>l, <1>t DEF Where, PagePcs
<1>2. Arguments(p)'
    BY <1>s, <1>0 DEF Own, Arguments, KmallocArray, GetUserPages, CopyPage,
       PutPage, Goto
<1>3. Holds(p)'
    <2>1. CASE KmallocArray(p)
        BY <2>1, <1>s DEF KmallocArray, Goto, Own, Holds, Shape
    <2>2. CASE GetUserPages(p) \/ CopyPage(p) \/ PutPage(p)
        BY <2>2, <1>s, <1>t DEF GetUserPages, CopyPage, PutPage, Goto, Own,
           Holds, Shape
    <2> QED
        BY <2>1, <2>2
<1>4. CASE KmallocArray(p)
    <2>1. /\ pc[p] = "array" /\ pc'[p] \in {"gup", "return"}
          /\ pinned' = pinned /\ j' = j
          /\ npages'[p] = IF lab \in Aligned THEN NpagesOf(call[p].len)
                          ELSE NpagesBetween(call[p].buf, call[p].len)
        BY <1>4, <1>s DEF KmallocArray, Goto, Shape
    <2>2. 0 <= npages'[p] /\ First(p) + npages'[p] <= BufferPages + 1
        <3> DEFINE b == call[p].buf
                   n == call[p].len
        <3>1. b \in Nat /\ n \in Nat
            BY <1>s, CallIsArgs
        <3>2. /\ b + n <= PageSize * BufferPages
              /\ lab \in Aligned => b % PageSize = 0
            BY <1>s, <1>l, <2>1 DEF Own, Arguments
        <3> HIDE DEF b, n
        <3>3. CASE lab \in Aligned
            <4>1. /\ NpagesOf(n) \in Nat
                  /\ b \div PageSize + NpagesOf(n) <= BufferPages + 1
                BY <3>1, <3>2, <3>3, PagesOf
            <4> QED
                BY <2>1, <3>3, <4>1 DEF First, b, n
        <3>4. CASE lab \notin Aligned
            <4>1. /\ NpagesBetween(b, n) \in Nat
                  /\ b \div PageSize + NpagesBetween(b, n) <= BufferPages + 1
                BY <3>1, <3>2, PagesBetween
            <4> QED
                BY <2>1, <3>4, <4>1 DEF First, b, n
        <3> QED
            BY <3>3, <3>4
    <2>3. Pins(p)'
        BY <1>0, <1>s, <2>1, <2>2 DEF Own, Pins
    <2> QED
        BY <1>1, <1>2, <1>3, <2>3 DEF Own
<1>5. CASE GetUserPages(p)
    <2>1. /\ pc[p] = "gup" /\ j' = j /\ npages' = npages
          /\ pc'[p] = IF npages[p] = 0 THEN "kfree" ELSE "copy"
          /\ \A g \in Pages : pinned'[p][g] =
                IF g \in First(p)..(First(p) + npages[p] - 1) THEN 1 ELSE 0
        BY <1>5, <1>s DEF GetUserPages, Goto, Shape, First
    <2>2. j[p] = 0 /\ 0 <= npages[p]
          /\ First(p) + npages[p] <= BufferPages + 1
        BY <2>1, <1>s DEF Own, Pins
    <2>3. Pins(p)'
        BY <1>0, <1>f, <2>1, <2>2 DEF Pins
    <2> QED
        BY <1>1, <1>2, <1>3, <2>3 DEF Own
<1>6. CASE CopyPage(p)
    <2>1. /\ pc[p] = "copy" /\ pc'[p] = "put" /\ j' = j /\ npages' = npages
          /\ pinned' = pinned
        BY <1>6, <1>s DEF CopyPage, Goto, Shape
    <2>2. Pins(p)'
        BY <1>0, <1>s, <2>1 DEF Own, Pins
    <2> QED
        BY <1>1, <1>2, <1>3, <2>2 DEF Own
<1>7. CASE PutPage(p)
    <2>1. /\ pc[p] = "put" /\ j'[p] = j[p] + 1 /\ npages' = npages
          /\ pc'[p] = IF j[p] + 1 = npages[p] THEN "kfree" ELSE "copy"
          /\ pinned' = [pinned EXCEPT ![p][First(p) + j[p]] = @ - 1]
        BY <1>7, <1>s DEF PutPage, Goto, Shape, First
    <2>2. /\ 0 <= j[p] /\ j[p] < npages[p]
          /\ First(p) + npages[p] <= BufferPages + 1
          /\ \A g \in Pages : pinned[p][g] =
                IF g \in (First(p) + j[p])..(First(p) + npages[p] - 1)
                THEN 1 ELSE 0
        BY <2>1, <1>s DEF Own, Pins
    <2>3. \A g \in Pages : pinned'[p][g] =
              IF g = First(p) + j[p] THEN pinned[p][g] - 1 ELSE pinned[p][g]
        <3> DEFINE h == First(p) + j[p]
        <3> HIDE DEF h
        <3>1. pinned' = [pinned EXCEPT ![p][h] = @ - 1]
            BY <2>1 DEF h
        <3>2. \A g \in Pages : pinned'[p][g] =
                  IF g = h THEN pinned[p][g] - 1 ELSE pinned[p][g]
            BY <3>1, <1>s DEF Shape
        <3> QED
            BY <3>2 DEF h
    <2>4. \A g \in Pages : pinned'[p][g] =
              IF g \in (First(p) + j'[p])..(First(p) + npages[p] - 1)
              THEN 1 ELSE 0
        <3> SUFFICES ASSUME NEW g \in Pages
                     PROVE  pinned'[p][g] =
                  IF g \in (First(p) + j'[p])..(First(p) + npages[p] - 1)
                  THEN 1 ELSE 0
            OBVIOUS
        <3>1. g \in Int
            BY DEF Pages
        <3>2. pinned'[p][g] =
                  IF g = First(p) + j[p] THEN pinned[p][g] - 1
                                         ELSE pinned[p][g]
            BY <2>3
        <3>3. pinned[p][g] =
                IF g \in (First(p) + j[p])..(First(p) + npages[p] - 1)
                THEN 1 ELSE 0
            BY <2>2
        <3> QED
            BY <1>f, <2>1, <2>2, <3>1, <3>2, <3>3
    <2>5. Pins(p)'
        BY <1>0, <1>f, <2>1, <2>2, <2>4 DEF Pins
    <2> QED
        BY <1>1, <1>2, <1>3, <2>5 DEF Own
<1> QED
    BY <1>4, <1>5, <1>6, <1>7

LEMMA RestOwn ==
    ASSUME IInv, NEW p \in Procs,
           \/ Kfree(p) \/ KmallocBuffer(p) \/ CopyVar(p) \/ CopyCell(p)
           \/ CellFault(p) \/ MycdrvMmap(p) \/ Store(p)
           \/ SetPid(p) \/ SetSig(p) \/ SendSig(p)
           \/ Show(p) \/ Sprintf(p) \/ StoreAttribute(p)
           \/ NoInteger(p) \/ Return(p)
    PROVE  Own(p)'
<1>s. Shape /\ Own(p)
    BY DEF IInv
<1>0. lab' = lab /\ pinned' = pinned
    BY DEF Kfree, KmallocBuffer, CopyVar, CopyCell, CellFault, MycdrvMmap,
       Store, SetPid, SetSig, SendSig, Show, Sprintf, StoreAttribute,
       NoInteger, Return, rwVars
<1>1. CASE Kfree(p) \/ KmallocBuffer(p) \/ CopyVar(p) \/ CopyCell(p)
           \/ CellFault(p)
    <2>1. call' = call
        BY <1>1 DEF Kfree, KmallocBuffer, CopyVar, CopyCell, CellFault,
           callVars
    <2>2. /\ pc[p] \in {"kfree", "kmalloc", "copyvar", "cells"}
          /\ pc'[p] \in {"return", "copyvar", "kfree", "cells"}
          /\ pc'[p] = "copyvar" => pc[p] = "kmalloc" /\ call[p].op # "none"
          /\ pc'[p] = "kfree" <=> pc[p] = "copyvar"
          /\ pc'[p] = "cells" => pc[p] = "cells"
        BY <1>1, <1>s DEF Kfree, KmallocBuffer, CopyVar, CopyCell, CellFault,
           Goto, Shape
    <2>3. /\ pc[p] = "kfree" => ~held'[p]
          /\ pc[p] = "kmalloc" /\ pc'[p] = "return" /\ held'[p]
                => call[p].op = "none"
          /\ pc[p] = "cells" => held' = held
        BY <1>1, <1>s DEF Kfree, KmallocBuffer, CopyVar, CopyCell, CellFault,
           Goto, Shape, Own, Holds
    <2>4. Holds(p)'
        BY <1>0, <1>s, <2>1, <2>2, <2>3 DEF Own, Where, Holds
    <2>5. Where(p)' /\ Arguments(p)'
        BY <1>0, <1>s, <2>1, <2>2 DEF Own, Where, Arguments, PagePcs
    <2>6. Pins(p)'
        BY <1>0, <1>s, <2>2 DEF Own, Pins
    <2> QED
        BY <2>4, <2>5, <2>6 DEF Own
<1>2. CASE MycdrvMmap(p) \/ Store(p)
    <2>1. /\ UNCHANGED <<call, held>>
          /\ \/ pc[p] = "mmap" /\ pc'[p] = "return"
             \/ pc[p] = "idle" /\ pc'[p] = "idle"
        BY <1>2, <1>s DEF MycdrvMmap, Store, Goto, Shape, callVars
    <2> QED
        BY <1>0, <1>s, <2>1 DEF Own, Where, Arguments, Holds, Pins, PagePcs
<1>3. CASE SetPid(p) \/ SetSig(p) \/ SendSig(p)
    <2>1. /\ UNCHANGED <<call, held>>
          /\ pc[p] \in {"setpid", "setsig", "sendsig"}
          /\ pc'[p] \in {"setsig", "sendsig", "return", "dead"}
        <3>1. CASE SetPid(p) \/ SetSig(p)
            BY <3>1, <1>s DEF SetPid, SetSig, Goto, Shape, callVars
        <3>2. CASE SendSig(p)
            BY <3>2, <1>s DEF SendSig, Shape, callVars
        <3> QED
            BY <1>3, <3>1, <3>2
    <2> QED
        BY <1>0, <1>s, <2>1 DEF Own, Where, Arguments, Holds, Pins, PagePcs
<1>4. CASE Show(p) \/ Sprintf(p) \/ StoreAttribute(p) \/ NoInteger(p)
    <2>1. /\ UNCHANGED <<call, held>>
          /\ \/ pc[p] = "show" /\ pc'[p] = "sprintf"
             \/ pc[p] \in {"sprintf", "store", "assign"} /\ pc'[p] = "return"
             \/ pc[p] = "store" /\ pc'[p] = "assign"
        BY <1>4, <1>s DEF Show, FooShow, BShow, Sprintf, StoreAttribute,
           FooStore, BStore, BAssign, NoInteger, Goto, Shape, callVars
    <2> QED
        BY <1>0, <1>s, <2>1 DEF Own, Where, Arguments, Holds, Pins, PagePcs
<1>5. CASE Return(p)
    <2>1. pc[p] = "return" /\ pc'[p] = "idle" /\ ~held'[p]
        BY <1>5, <1>s DEF Return, Goto, Shape
    <2> QED
        BY <1>0, <1>s, <2>1 DEF Own, Where, Arguments, Holds, Pins, PagePcs
<1> QED
    BY <1>1, <1>2, <1>3, <1>4, <1>5

LEMMA InitIInv == Init => IInv
<1> SUFFICES ASSUME Init PROVE IInv
    OBVIOUS
<1>1. \A p \in Procs : /\ pc[p] = "idle" /\ ~held[p]
                       /\ \A g \in Pages : pinned[p][g] = 0
    BY DEF Init
<1> QED
    BY <1>1, InitShape
       DEF IInv, Own, Where, Arguments, Holds, Pins, PagePcs

LEMMA NextIInv == IInv /\ [Next]_vars => IInv'
<1>1. CASE UNCHANGED vars
    BY <1>1 DEF vars, callVars, rwVars, sigVars, IInv, Shape, Own, Where,
       Arguments, Holds, Pins, First
<1>2. ASSUME IInv, NEW p \in Procs, Step(p) PROVE IInv'
    <2>1. Shape'
        BY <1>2, ShapeStep DEF IInv
    <2>2. Own(p)'
        BY <1>2, CallsOwn, PagesOwn, RestOwn DEF Step
    <2>3. ASSUME NEW q \in Procs, q # p PROVE Own(q)'
        BY <1>2, <2>3, OthersSame, SameOwn DEF IInv, Own
    <2> QED
        BY <2>1, <2>2, <2>3 DEF IInv
<1> QED
    BY <1>1, <1>2 DEF Next, Step

THEOREM Invariance == Spec => []IInv
BY InitIInv, NextIInv, PTL DEF Spec

\* Whatever has failed, a call that returns holds no pages and no memory, but
\* for the buffer that lab_ioctl_vardata.c forgets; and the page it copies is
\* pinned.
THEOREM NothingIsKept == Spec => []CallReleases
<1>1. IInv => CallReleases
    <2> SUFFICES ASSUME IInv, NEW p \in Procs
                 PROVE
            /\ pc[p] \in {"return", "idle"} =>
                  /\ pinned[p] = [g \in Pages |-> 0]
                  /\ held[p] => lab = "vardata" /\ call[p].op = "none"
            /\ pc[p] = "copy" =>
                  /\ held[p]
                  /\ pinned[p][(call[p].buf \div PageSize) + j[p]] = 1
        BY DEF CallReleases
    <2>1. /\ Own(p) /\ pinned[p] \in [Pages -> Int] /\ First(p) \in Nat
          /\ j[p] \in Int /\ npages[p] \in Int /\ BufferPages \in Nat
        BY CallIsArgs, Sizes DEF IInv, Shape
    <2>2. CASE pc[p] \in {"return", "idle"}
        BY <2>1, <2>2 DEF Own, Holds, Pins
    <2>3. CASE pc[p] = "copy"
        <3>0. /\ 0 <= j[p] /\ j[p] < npages[p]
              /\ First(p) + npages[p] <= BufferPages + 1
            BY <2>1, <2>3 DEF Own, Pins
        <3>1. First(p) + j[p] \in Pages
              /\ First(p) + j[p]
                    \in (First(p) + j[p])..(First(p) + npages[p] - 1)
            <4>1. /\ First(p) \in Nat /\ j[p] \in Int /\ npages[p] \in Int
                  /\ BufferPages \in Nat
                BY <2>1
            <4> QED
                BY <3>0, <4>1 DEF Pages
        <3>2. pinned[p][First(p) + j[p]] = 1
            BY <2>1, <2>3, <3>1 DEF Own, Pins
        <3> QED
            BY <2>1, <2>3, <3>2 DEF Own, Holds, First
    <2> QED
        BY <2>2, <2>3
<1> QED
    BY <1>1, Invariance, PTL

-----------------------------------------------------------------------------
(* The piece of a buffer in a page. *)

\* Page i of a buffer that begins anywhere, in page f, and ends in page e.
Anywhere(m, b, n, i, f, e, k, off, nb) ==
    /\ f = b \div m /\ e = (b + n) \div m /\ i <= e - f
    /\ k = IF i = 0 THEN 0 ELSE m * (f + i) - b
    /\ off = IF i = 0 THEN b % m ELSE 0
    /\ nb = IF m - off < n - k THEN m - off ELSE n - k

LEMMA PieceAnywhere ==
    ASSUME NEW m \in Nat \ {0}, NEW b \in Nat, NEW n \in Nat, NEW i \in Nat,
           NEW f, NEW e, NEW k, NEW off, NEW nb,
           Anywhere(m, b, n, i, f, e, k, off, nb)
    PROVE  /\ (f + i) * m + off = b + k
           /\ 0 <= k /\ k <= k + nb /\ k + nb <= n /\ nb \in Int
           /\ k + nb = IF i = e - f THEN n ELSE m * (f + i + 1) - b
<1>1. f \in Int /\ b % m \in 0..(m - 1) /\ b = m * f + (b % m)
    BY DivMod DEF Anywhere
<1>2. e \in Int /\ (b + n) % m \in 0..(m - 1) /\ b + n = m * e + ((b + n) % m)
    <2>1. b + n \in Int
        OBVIOUS
    <2> QED
        BY <2>1, DivMod DEF Anywhere
<1>3. PICK here \in Int : here = m * (f + i)
    BY <1>1
<1>4. PICK mf \in Int : mf = m * f
    BY <1>1
<1>5. PICK me \in Int : me = m * e
    BY <1>2
<1>6. PICK r \in 0..(m - 1) : r = b % m
    BY <1>1
<1>7. PICK s \in 0..(m - 1) : s = (b + n) % m
    BY <1>2
<1>8. b = mf + r /\ b + n = me + s
    BY <1>1, <1>2, <1>4, <1>5, <1>6, <1>7
<1>9. /\ (f + i) * m = here /\ m * (f + i + 1) = here + m
      /\ i = 0 => here = mf
    BY <1>1, <1>3, <1>4
<1>10. i > 0 => mf + m <= here
    <2>1. i > 0 => f < f + i /\ f + i \in Int
        BY <1>1
    <2> QED
        BY <1>1, <1>3, <1>4, <2>1, TimesStep
<1>11. i = e - f => here = me
    <2>1. i = e - f => f + i = e
        BY <1>1, <1>2
    <2> QED
        BY <1>3, <1>5, <2>1
<1>12. i # e - f => here + m <= me
    <2>1. i <= e - f
        BY DEF Anywhere
    <2>2. f + i \in Int /\ (i # e - f => f + i < e)
        BY <1>1, <1>2, <2>1
    <2> QED
        BY <1>2, <1>3, <1>5, <2>2, TimesStep
<1>13. k = (IF i = 0 THEN 0 ELSE here - b) /\ off = (IF i = 0 THEN r ELSE 0)
    BY <1>3, <1>6 DEF Anywhere
<1>14. /\ here + off = b + k
       /\ 0 <= k /\ k <= k + nb /\ k + nb <= n /\ nb \in Int
       /\ k + nb = IF i = e - f THEN n ELSE here + m - b
    <2>0. /\ nb = (IF m - off < n - k THEN m - off ELSE n - k)
          /\ i = e - f \/ i # e - f
        BY DEF Anywhere
    <2>1. CASE i = e - f
        BY <1>8, <1>9, <1>10, <1>11, <1>13, <2>0, <2>1
    <2>2. CASE i # e - f /\ i = 0
        BY <1>8, <1>9, <1>12, <1>13, <2>0, <2>2
    <2>3. CASE i # e - f /\ i > 0
        BY <1>8, <1>10, <1>12, <1>13, <2>0, <2>3
    <2> QED
        BY <2>1, <2>2, <2>3
<1> QED
    BY <1>9, <1>14

\* Page i of c + 1 of a buffer that begins with page f.
WithPage(m, b, n, i, f, c, k, nb) ==
    /\ b % m = 0 /\ f = b \div m /\ c = (n - 1) \div m /\ i <= c
    /\ k = IF i = 0 THEN 0 ELSE m * (f + i) - b
    /\ nb = IF i = c THEN ((n - 1) % m) + 1 ELSE m

LEMMA PieceAligned ==
    ASSUME NEW m \in Nat \ {0}, NEW b \in Nat, NEW n \in Nat \ {0},
           NEW i \in Nat, NEW f, NEW c, NEW k, NEW nb,
           WithPage(m, b, n, i, f, c, k, nb)
    PROVE  /\ (f + i) * m = b + k
           /\ 0 <= k /\ k <= k + nb /\ k + nb <= n /\ nb \in Int
           /\ k + nb = IF i = c THEN n ELSE m * (f + i + 1) - b
<1>1. f \in Int /\ b = m * f
    <2>1. f \in Int /\ b = m * f + (b % m) /\ b % m = 0
        BY DivMod DEF WithPage
    <2>2. m * f \in Int
        BY <2>1
    <2> QED
        BY <2>1, <2>2
<1>2. /\ c \in Int /\ (n - 1) % m \in 0..(m - 1)
      /\ n - 1 = m * c + ((n - 1) % m)
    <2>1. n - 1 \in Int
        OBVIOUS
    <2> QED
        BY <2>1, DivMod DEF WithPage
<1>3. PICK mi \in Int : mi = m * i
    OBVIOUS
<1>4. PICK mc \in Int : mc = m * c
    BY <1>2
<1>5. PICK r \in 0..(m - 1) : r = (n - 1) % m
    BY <1>2
<1>6. n - 1 = mc + r /\ nb = (IF i = c THEN r + 1 ELSE m)
    BY <1>2, <1>4, <1>5 DEF WithPage
<1>7. /\ m * (f + i) = b + mi /\ (f + i) * m = b + mi
      /\ m * (f + i + 1) = b + mi + m
    BY <1>1, <1>3
<1>8. mi >= 0 /\ (i = 0 => mi = 0)
    BY <1>3
<1>9. (i = c => mi = mc) /\ (i # c => mi + m <= mc)
    <2>1. i <= c
        BY DEF WithPage
    <2> QED
        BY <1>2, <1>3, <1>4, <2>1, TimesStep
<1>10. k = mi
    BY <1>7, <1>8 DEF WithPage
<1> QED
    BY <1>6, <1>7, <1>8, <1>9, <1>10

LEMMA NextPiece ==
    ASSUME IInv, NEW p \in Procs, Pieces(p), pc[p] = "copy"
    PROVE  LET n == call[p].len
               b == call[p].buf
               k == ktmp[p]
               to == k + Nb(p)
           IN /\ (First(p) + j[p]) * PageSize + Offset(p) = b + k
              /\ 0 <= k /\ k <= to /\ to <= n /\ Nb(p) \in Int
              /\ to = IF j[p] + 1 = npages[p] THEN n
                      ELSE PageSize * (First(p) + j[p] + 1) - b
<1> DEFINE n == call[p].len
           b == call[p].buf
           k == ktmp[p]
           f == First(p)
           i == j[p]
           m == PageSize
           e == (b + n) \div m
           c == (n - 1) \div m
<1>1. /\ n \in Nat /\ b \in Nat /\ m \in Nat \ {0} /\ f = b \div m /\ f \in Nat
      /\ npages[p] \in Int /\ i \in Nat /\ i < npages[p]
    <2>1. n \in Nat /\ b \in Nat /\ f \in Nat
        BY CallIsArgs DEF IInv
    <2> QED
        BY <2>1, Sizes DEF IInv, Shape, Own, Pins, First
<1>2. lab \in PageLabs
    BY DEF IInv, Own, Where, PagePcs
<1>3. k = (IF i = 0 THEN 0 ELSE m * (f + i) - b) /\ curlen[p] = n - k
    BY <1>2 DEF Pieces
<1>4. CASE lab = "align"
    <2>1. e \in Int
        <3>1. b + n \in Int
            BY <1>1
        <3> QED
            BY <1>1, <3>1, DivMod
    <2>2. npages[p] = e - f + 1
        BY <1>2, <1>4 DEF Pieces
    <2>3. Offset(p) = IF i = 0 THEN b % m ELSE 0
        BY <1>4 DEF Offset
    <2>4. Nb(p) = IF m - Offset(p) < n - k THEN m - Offset(p) ELSE n - k
        <3>1. Nb(p) = Min2(m - Offset(p), curlen[p])
            BY <1>4 DEF Nb
        <3> QED
            BY <1>3, <3>1 DEF Min2
    <2>e. e = (b + n) \div m
        OBVIOUS
    <2> HIDE DEF n, b, k, f, i, m, e
    <2>5. i <= e - f /\ (i + 1 = npages[p] <=> i = e - f)
        BY <1>1, <2>1, <2>2
    <2>6. /\ (f + i) * m + Offset(p) = b + k
          /\ 0 <= k /\ k <= k + Nb(p) /\ k + Nb(p) <= n /\ Nb(p) \in Int
          /\ k + Nb(p) = IF i = e - f THEN n ELSE m * (f + i + 1) - b
        <3>1. Anywhere(m, b, n, i, f, e, k, Offset(p), Nb(p))
            BY <1>1, <1>3, <2>3, <2>4, <2>5, <2>e DEF Anywhere
        <3>2. m \in Nat \ {0} /\ b \in Nat /\ n \in Nat /\ i \in Nat
            BY <1>1
        <3> QED
            BY <3>1, <3>2, PieceAnywhere
    <2> QED
        BY <2>5, <2>6 DEF n, b, k, f, i, m
<1>5. CASE lab # "align"
    <2>0. lab = "usermap"
        BY <1>2, <1>5 DEF PageLabs
    <2>1. b % m = 0 /\ n > 0 /\ npages[p] = c + 1
        BY <1>1, <1>2, <2>0 DEF IInv, Own, Arguments, Aligned, Pieces
    <2>2. c \in Int
        <3>1. n - 1 \in Int
            BY <1>1
        <3> QED
            BY <1>1, <3>1, DivMod
    <2>3. Offset(p) = 0
        BY <1>5 DEF Offset
    <2>4. Nb(p) = IF i = npages[p] - 1 THEN ((n - 1) % m) + 1 ELSE m
        BY <1>5 DEF Nb
    <2>c. c = (n - 1) \div m
        OBVIOUS
    <2> HIDE DEF n, b, k, f, i, m, c
    <2>5. /\ i <= c /\ (i + 1 = npages[p] <=> i = c) /\ n \in Nat \ {0}
          /\ Nb(p) = IF i = c THEN ((n - 1) % m) + 1 ELSE m
        BY <1>1, <2>1, <2>2, <2>4
    <2>6. /\ (f + i) * m = b + k
          /\ 0 <= k /\ k <= k + Nb(p) /\ k + Nb(p) <= n /\ Nb(p) \in Int
          /\ k + Nb(p) = IF i = c THEN n ELSE m * (f + i + 1) - b
        <3>1. WithPage(m, b, n, i, f, c, k, Nb(p))
            BY <1>1, <1>3, <2>1, <2>5, <2>c DEF WithPage
        <3>2. m \in Nat \ {0} /\ b \in Nat /\ n \in Nat \ {0} /\ i \in Nat
            BY <1>1, <2>5
        <3> QED
            BY <3>1, <3>2, PieceAligned
    <2>7. (f + i) * m + Offset(p) = b + k
        <3>1. b + k \in Int
            BY <1>1, <2>6
        <3> QED
            BY <2>3, <2>6, <3>1
    <2> QED
        BY <2>5, <2>6, <2>7 DEF n, b, k, f, i, m
<1> QED
    BY <1>4, <1>5

-----------------------------------------------------------------------------
(* Who is alone, and what a step does to the ramdisk. *)

Begins(p) == CallRw(p) \/ CallMmap(p) \/ CallSignal(p) \/ CallSysfs(p)

LEMMA Beginning ==
    ASSUME Shape, NEW p \in Procs, Begins(p)
    PROVE  /\ pc[p] = "idle" /\ mem' = mem /\ mapping' = mapping
           /\ \A q \in Procs : q # p => pc'[q] = pc[q] /\ ~alone'[q]
           /\ alone'[p] <=> InCall = {}
<1>1. \E first, c : Begin(p, first, c)
    BY DEF Begins, CallRw, CallMmap, CallSignal, CallSysfs
<1>2. mem' = mem /\ mapping' = mapping
    BY DEF Begins, CallRw, CallMmap, CallSignal, CallSysfs
<1> QED
    BY <1>1, <1>2 DEF Begin, Goto, Shape

LEMMA NotBeginning ==
    ASSUME Shape, NEW p \in Procs, Step(p), ~Begins(p)
    PROVE  alone' = alone /\ (pc[p] \notin {"idle", "dead"} \/ Store(p))
BY DEF Step, Begins, KmallocArray, GetUserPages, CopyPage, PutPage, Kfree,
   KmallocBuffer, CopyVar, CopyCell, CellFault, MycdrvMmap, Store, SetPid,
   SetSig, SendSig, Show, FooShow, BShow, Sprintf, StoreAttribute, FooStore,
   BStore, BAssign, NoInteger, Return, Goto, callVars

LEMMA SolitudeStep ==
    ASSUME IInv, Solitude, NEW p \in Procs, Step(p)
    PROVE  Solitude'
<1>s. Shape /\ \A q \in Procs : Where(q)
    BY DEF IInv, Own
<1>1. \A q \in Procs : q # p => pc'[q] = pc[q] \/ pc'[q] = "dead"
    BY <1>s, OthersSame DEF Same
<1>2. CASE Begins(p)
    <2>1. \A q \in Procs : q # p /\ q \in InCall' => q \in InCall
        BY <1>1 DEF InCall
    <2> QED
        BY <1>s, <1>2, <2>1, Beginning DEF Solitude
<1>3. CASE ~Begins(p)
    <2>1. alone' = alone /\ (pc[p] \notin {"idle", "dead"} \/ Store(p))
        BY <1>s, <1>3, NotBeginning
    <2>2. \A q \in Procs : q \in InCall' => q \in InCall
        BY <1>1, <2>1 DEF InCall, Store
    <2> QED
        BY <2>1, <2>2 DEF Solitude
<1> QED
    BY <1>2, <1>3

LEMMA UnmappedStep ==
    ASSUME IInv, Unmapped, NEW p \in Procs, Step(p)
    PROVE  Unmapped'
<1>s. Shape /\ Where(p)
    BY DEF IInv, Own
<1>1. CASE Begins(p)
    <2>1. lab' = lab
        BY <1>1 DEF Begins, CallRw, CallMmap, CallSignal, CallSysfs
    <2> QED
        BY <1>s, <1>1, <2>1, Beginning DEF Unmapped
<1>2. CASE MycdrvMmap(p)
    BY <1>s, <1>2 DEF Unmapped, MycdrvMmap, Goto, Where
<1>3. CASE ~Begins(p) /\ ~MycdrvMmap(p)
    <2>1. lab' = lab /\ mapping' = mapping
        BY <1>3 DEF Step, Begins, KmallocArray, GetUserPages, CopyPage,
           PutPage, Kfree, KmallocBuffer, CopyVar, CopyCell, CellFault, Store,
           SetPid, SetSig, SendSig, Show, Sprintf, StoreAttribute, NoInteger,
           Return
    <2> QED
        BY <2>1 DEF Unmapped
<1> QED
    BY <1>1, <1>2, <1>3

\* Whom a step of p leaves alone it leaves the ramdisk.
LEMMA AloneMem ==
    ASSUME IInv, Solitude, Unmapped, NEW p \in Procs, Step(p),
           NEW q \in Procs, q # p, q \in InCall, alone'[q], lab # "mmap"
    PROVE  mem' = mem
<1>s. Shape
    BY DEF IInv
<1>1. CASE Begins(p)
    BY <1>s, <1>1, Beginning
<1>2. CASE ~Begins(p)
    <2>1. alone[q] /\ (pc[p] \notin {"idle", "dead"} \/ Store(p))
        BY <1>s, <1>2, NotBeginning
    <2>2. ~Store(p)
        BY DEF Unmapped, Store
    <2>3. p \in InCall
        BY <2>1, <2>2 DEF InCall
    <2> QED
        BY <2>1, <2>3 DEF Solitude
<1> QED
    BY <1>1, <1>2

LEMMA SameData ==
    ASSUME IInv, DataInv, NEW p \in Procs, Step(p), NEW q \in Procs, q # p,
           Same(q)
    PROVE  Data(q)'
<1>1. Data(q) /\ Where(q)
    BY DEF DataInv, IInv, Own
<1>2. First(q)' = First(q)
    BY DEF First, Same
<1>3. CASE pc'[q] # pc[q]
    <2>1. pc'[q] = "dead" /\ lab' = "signal"
        BY <1>3 DEF Same
    <2> QED
        BY <2>1 DEF Data, Pieces, Amount, ReadRight, WriteRight, VarBuffer,
           Values, PageLabs, Ioctls, Transfers
<1>4. CASE pc'[q] = pc[q]
    <2>1. /\ Sofar(q)' = Sofar(q) /\ Failed(q)' = Failed(q)
          /\ Transfers' = Transfers
        BY <1>4 DEF Sofar, Failed, Moved, Transfers, Same
    <2>2. pc[q] \notin {"idle", "dead"} /\ alone'[q] /\ lab # "mmap"
            => mem' = mem
        BY AloneMem DEF DataInv, InCall
    <2>3. Pieces(q)' /\ VarBuffer(q)'
        BY <1>1, <1>2, <1>4 DEF Data, Pieces, VarBuffer, Same
    <2>4. Amount(q)'
        BY <1>1, <1>4, <2>1 DEF Data, Amount, Same
    <2>5. ReadRight(q)'
        <3>1. Transfers => lab # "mmap" /\ lab # "signal"
            BY DEF Transfers, PageLabs, Ioctls
        <3>2. pc[q] = "dead" => lab = "signal"
            BY <1>1 DEF Where
        <3> QED
            BY <1>1, <1>4, <2>1, <2>2, <3>1, <3>2 DEF Data, ReadRight, Same
    <2>6. WriteRight(q)'
        <3>1. Transfers => lab # "mmap" /\ lab # "signal"
            BY DEF Transfers, PageLabs, Ioctls
        <3>2. pc[q] = "dead" => lab = "signal"
            BY <1>1 DEF Where
        <3> QED
            BY <1>1, <1>4, <2>1, <2>2, <3>1, <3>2 DEF Data, WriteRight, Same
    <2>7. Values(q)'
        BY <1>1, <1>4, <2>1, <2>2 DEF Data, Values, Same
    <2> QED
        BY <2>3, <2>4, <2>5, <2>6, <2>7 DEF Data
<1> QED
    BY <1>3, <1>4

-----------------------------------------------------------------------------
(* What a step of p does to the data of its own call. *)

\* Labs without a buffer, and labs with one.
LEMMA FreeData ==
    ASSUME NEW p \in Procs, lab' = lab, Where(p)',
           lab \notin PageLabs \cup Ioctls \cup {"sysfs"}
    PROVE  Data(p)'
BY DEF Data, Pieces, Amount, ReadRight, WriteRight, VarBuffer, Values,
   Transfers, Where, PageLabs, Ioctls

LEMMA SysfsData ==
    ASSUME NEW p \in Procs, lab' = lab, Where(p)', lab = "sysfs", Values(p)'
    PROVE  Data(p)'
BY DEF Data, Pieces, Amount, ReadRight, WriteRight, VarBuffer,
   Transfers, Where, PageLabs, Ioctls

LEMMA PageData ==
    ASSUME NEW p \in Procs, lab' = lab, Where(p)', lab \in PageLabs,
           Pieces(p)', Amount(p)', ReadRight(p)', WriteRight(p)'
    PROVE  Data(p)'
BY DEF Data, VarBuffer, Values, Where, PageLabs

LEMMA IoctlData ==
    ASSUME NEW p \in Procs, lab' = lab, lab \in Ioctls,
           Amount(p)', ReadRight(p)', WriteRight(p)', VarBuffer(p)'
    PROVE  Data(p)'
BY DEF Data, Pieces, Values, PageLabs, Ioctls

\* The next piece of a page, from the buffer to the ramdisk or back.
LEMMA CopyPageData ==
    ASSUME IInv, DataInv, NEW p \in Procs, CopyPage(p), Own(p)'
    PROVE  Data(p)' /\ \A i \in Ramdisk : mem'[i] \in {mem[i], <<p, i>>}
<1> DEFINE n == call[p].len
           b == call[p].buf
           k == ktmp[p]
           nb == Nb(p)
           to == k + nb
           uaddr == (First(p) + j[p]) * PageSize + Offset(p)
<1>s. Shape /\ Own(p) /\ Data(p) /\ InPlace
    BY DEF IInv, DataInv
<1>p. /\ pc[p] = "copy" /\ pc'[p] = "put" /\ lab' = lab /\ call' = call
      /\ npages' = npages /\ j' = j /\ rc' = rc /\ alone' = alone
      /\ ktmp'[p] = k + nb /\ curlen'[p] = curlen[p] - nb
      /\ First(p)' = First(p)
    BY <1>s DEF CopyPage, Goto, callVars, Shape, First
<1>l. lab \in PageLabs /\ call[p].op \in {"read", "write"}
    BY <1>s, <1>p DEF Own, Where, PagePcs
<1>n. /\ n \in Nat /\ b \in Nat /\ n <= RamdiskSize
      /\ b + n <= PageSize * BufferPages
    BY <1>s, <1>p, <1>l, CallIsArgs DEF Own, Arguments
<1>1. /\ uaddr = b + k
      /\ 0 <= k /\ k <= to /\ to <= n /\ nb \in Int
      /\ to = IF j[p] + 1 = npages[p] THEN n
              ELSE PageSize * (First(p) + j[p] + 1) - b
    BY <1>s, <1>p, NextPiece DEF Data
<1>k. k \in Int /\ curlen[p] = n - k
    BY <1>s, <1>l, <1>p DEF Shape, Data, Pieces
<1>2. Pieces(p)'
    <2>1. curlen'[p] = n - to
        <3> HIDE DEF n, nb, k
        <3> QED
            BY <1>p, <1>n, <1>k, <1>1
    <2>2. npages[p] = IF lab = "align"
                  THEN ((b + n) \div PageSize) - First(p) + 1
                  ELSE IF n > 0 THEN ((n - 1) \div PageSize) + 1 ELSE 0
        <3>1. n > 0 \/ n = 0
            BY <1>n
        <3> QED
            BY <1>s, <1>p, <1>l, <3>1 DEF Data, Pieces
    <2>3. rc[p] = 0
        BY <1>s, <1>p, <1>l DEF Data, Pieces, PagePcs
    <2> HIDE DEF nb
    <2> QED
        BY <1>p, <1>l, <1>1, <2>1, <2>2, <2>3 DEF Pieces
<1>m. \A i \in 0..(n - 1) : i \in Ramdisk
    BY <1>n, Sizes DEF Ramdisk
<1>3. CASE call[p].op = "read"
    <2>1. /\ mem' = mem
          /\ user' = [user EXCEPT ![p] = [a \in Memory |->
                IF a \in uaddr..(uaddr + nb - 1)
                THEN mem[ktmp[p] + a - uaddr] ELSE @[a]]]
        BY <1>3 DEF CopyPage, First
    <2> HIDE DEF uaddr, nb
    <2>2. \A a \in Memory : user'[p][a] = IF a \in uaddr..(uaddr + nb - 1)
                                     THEN mem[ktmp[p] + a - uaddr]
                                     ELSE user[p][a]
        BY <2>1, <1>s DEF Shape
    <2> HIDE DEF n, b, k, to
    <2>3. \A a \in Memory : user'[p][a] = IF a \in (b + k)..(b + to - 1)
                                     THEN mem[a - b] ELSE user[p][a]
        <3> SUFFICES ASSUME NEW a \in Memory
                     PROVE  user'[p][a] = IF a \in (b + k)..(b + to - 1)
                                     THEN mem[a - b] ELSE user[p][a]
            OBVIOUS
        <3>1. a \in Int
            BY DEF Memory
        <3>2. k + a - uaddr = a - b /\ uaddr + nb - 1 = b + to - 1
            BY <1>n, <1>k, <1>1, <3>1 DEF to
        <3> QED
            BY <1>1, <2>2, <3>2 DEF k
    <2>4. \A a \in Memory : IF a \in b..(b + k - 1)
                     THEN user[p][a][2] = a - b
                          /\ (alone[p] => user[p][a] = mem[a - b])
                     ELSE user[p][a] = Old
        BY <1>s, <1>p, <1>l, <1>3
           DEF Data, ReadRight, Transfers, Sofar, Failed, PageLabs, n, b, k
    <2>5. \A a \in Memory : IF a \in b..(b + to - 1)
                     THEN user'[p][a][2] = a - b
                          /\ (alone[p] => user'[p][a] = mem[a - b])
                     ELSE user'[p][a] = Old
        <3> SUFFICES ASSUME NEW a \in Memory
                     PROVE  IF a \in b..(b + to - 1)
                     THEN user'[p][a][2] = a - b
                          /\ (alone[p] => user'[p][a] = mem[a - b])
                     ELSE user'[p][a] = Old
            OBVIOUS
        <3>1. a \in Int /\ to \in Int
            BY <1>k, <1>1 DEF Memory, to
        <3>2. CASE a \in (b + k)..(b + to - 1)
            <4>1. a - b \in 0..(n - 1)
                BY <1>n, <1>k, <1>1, <3>1, <3>2
            <4>2. mem[a - b][2] = a - b
                BY <1>s, <1>m, <4>1 DEF InPlace
            <4>3. a \in b..(b + to - 1)
                BY <1>n, <1>k, <1>1, <3>1, <3>2
            <4> QED
                BY <2>3, <3>2, <4>2, <4>3
        <3>3. CASE a \notin (b + k)..(b + to - 1)
            <4>1. a \in b..(b + to - 1) <=> a \in b..(b + k - 1)
                BY <1>n, <1>k, <1>1, <3>1, <3>3
            <4> QED
                BY <2>3, <2>4, <3>3, <4>1
        <3> QED
            BY <3>2, <3>3
    <2>6. Sofar(p)' = to
        BY <1>p DEF Sofar, to, k, nb
    <2>7. ReadRight(p)'
        BY <1>p, <2>1, <2>5, <2>6 DEF ReadRight, b
    <2>8. WriteRight(p)'
        BY <1>p, <1>3 DEF WriteRight
    <2>9. Amount(p)'
        <3>1. to \in Int
            BY <1>k, <1>1 DEF to
        <3>2. 0 <= to
            BY <1>1, <1>k, <3>1
        <3> QED
            BY <1>p, <1>1, <2>6, <3>2 DEF Amount, n
    <2> QED
        BY <1>p, <1>l, <1>2, <2>1, <2>7, <2>8, <2>9, PageData DEF Own
<1>4. CASE call[p].op = "write"
    <2>1. /\ user' = user
          /\ \A i \in Ramdisk : mem'[i] =
                IF i \in ktmp[p]..(ktmp[p] + nb - 1)
                THEN user[p][uaddr + i - ktmp[p]] ELSE mem[i]
        BY <1>4 DEF CopyPage, First
    <2> HIDE DEF uaddr, nb, n, b, k, to
    <2>2. \A a \in b..(b + n - 1) : user[p][a] = <<p, a - b>>
        BY <1>s, <1>p, <1>l, <1>4 DEF Data, WriteRight, Transfers, n, b
    <2>3. \A i \in Ramdisk : mem'[i] = IF i \in k..(to - 1) THEN <<p, i>>
                                                          ELSE mem[i]
        <3> SUFFICES ASSUME NEW i \in Ramdisk
                     PROVE  mem'[i] = IF i \in k..(to - 1) THEN <<p, i>>
                                                         ELSE mem[i]
            OBVIOUS
        <3>1. i \in Int /\ to \in Int
            BY <1>k, <1>1 DEF Ramdisk, to
        <3>2. uaddr + i - k = b + i
            BY <1>1, <1>n, <1>k, <3>1
        <3>5. mem'[i] = IF i \in k..(k + nb - 1) THEN user[p][uaddr + i - k]
                                                ELSE mem[i]
            BY <2>1 DEF k
        <3>3. mem'[i] = IF i \in k..(to - 1) THEN user[p][b + i] ELSE mem[i]
            <4>1. k..(k + nb - 1) = k..(to - 1)
                BY <1>k, <1>1 DEF to
            <4> QED
                BY <3>2, <3>5, <4>1, Zenon
        <3>4. CASE i \in k..(to - 1)
            <4>1. b + i \in b..(b + n - 1) /\ (b + i) - b = i
                BY <1>1, <1>n, <1>k, <3>1, <3>4
            <4> QED
                BY <2>2, <3>3, <3>4, <4>1
        <3> QED
            BY <3>3, <3>4
    <2>4. Sofar(p)' = to
        BY <1>p DEF Sofar, to, k, nb
    <2>5. WriteRight(p)'
        <3>1. ASSUME alone[p], NEW i \in 0..(to - 1)
              PROVE  mem'[i] = <<p, i>>
            <4>1. i \in Ramdisk
                BY <1>m, <1>n, <1>k, <1>1 DEF to
            <4>2. CASE i \in 0..(k - 1)
                <5>1. mem[i] = <<p, i>>
                    BY <1>s, <1>p, <1>l, <1>4, <3>1, <4>2
                       DEF Data, WriteRight, Transfers, Sofar, Failed,
                           PageLabs, k
                <5> QED
                    BY <2>3, <4>1, <5>1
            <4>3. CASE i \notin 0..(k - 1)
                <5>1. i \in k..(to - 1)
                    BY <1>k, <1>1, <4>3 DEF to
                <5> QED
                    BY <2>3, <4>1, <5>1
            <4> QED
                BY <4>2, <4>3
        <3> QED
            BY <1>p, <2>1, <2>2, <2>4, <3>1 DEF WriteRight, n, b
    <2>6. ReadRight(p)'
        BY <1>p, <1>4 DEF ReadRight
    <2>7. Amount(p)'
        <3>1. to \in Int
            BY <1>k, <1>1 DEF to
        <3>2. 0 <= to
            BY <1>1, <1>k, <3>1
        <3> QED
            BY <1>p, <1>1, <2>4, <3>2 DEF Amount, n
    <2> QED
        BY <1>p, <1>l, <1>2, <2>3, <2>5, <2>6, <2>7, PageData DEF Own
<1> QED
    BY <1>l, <1>3, <1>4

LEMMA KmallocArrayData ==
    ASSUME Fits, IInv, DataInv, NEW p \in Procs, KmallocArray(p), Own(p)'
    PROVE  Data(p)'
<1>s. Shape /\ Own(p) /\ Data(p)
    BY DEF IInv, DataInv
<1>p. /\ pc[p] = "array" /\ pc'[p] \in {"gup", "return"} /\ lab' = lab
      /\ call' = call /\ user' = user /\ mem' = mem /\ alone' = alone
      /\ First(p)' = First(p)
      /\ npages'[p] = IF lab \in Aligned THEN NpagesOf(call[p].len)
                      ELSE NpagesBetween(call[p].buf, call[p].len)
      /\ IF pc'[p] = "gup" THEN rc' = rc ELSE rc'[p] = Error
    BY <1>s DEF KmallocArray, Goto, callVars, Shape, First
<1>l. lab \in PageLabs
    BY <1>s, <1>p DEF Own, Where, PagePcs
<1>n. call[p].len \in Nat /\ call[p].len <= RamdiskSize
    BY <1>s, <1>p, <1>l, CallIsArgs DEF Own, Arguments
<1>0. Sofar(p) = 0 /\ ~Failed(p) /\ (pc'[p] = "gup" => Sofar(p)' = 0)
      /\ (pc'[p] = "return" => Failed(p)')
    BY <1>p DEF Sofar, Failed
<1>1. Pieces(p)'
    <2>1. rc[p] = 0
        BY <1>s, <1>p, <1>l DEF Data, Pieces, PagePcs
    <2>2. CASE lab = "align"
        BY <1>p, <2>1, <2>2
           DEF Pieces, NpagesBetween, First, Aligned, PagePcs
    <2>3. CASE lab = "usermap"
        <3>1. call[p].len > 0 =>
                  npages'[p] = ((call[p].len - 1) \div PageSize) + 1
            <4>1. call[p].len > 0 => call[p].len \in Nat \ {0}
                BY <1>n
            <4> QED
                BY <1>p, <1>n, <2>3, <4>1, PagesOfSome DEF Aligned
        <3>2. call[p].len = 0 => npages'[p] = 0
            BY <1>p, <2>3, PagesOfNone DEF Aligned
        <3> QED
            BY <1>p, <2>1, <2>3, <3>1, <3>2 DEF Pieces, PagePcs
    <2> QED
        BY <1>l, <2>2, <2>3 DEF PageLabs
<1>2. Amount(p)'
    BY <1>p, <1>n, <1>0 DEF Amount
<1>3. ReadRight(p)'
    BY <1>s, <1>p, <1>0 DEF Data, ReadRight, Transfers
<1>4. WriteRight(p)'
    BY <1>s, <1>p, <1>0 DEF Data, WriteRight, Transfers
<1> QED
    BY <1>p, <1>l, <1>1, <1>2, <1>3, <1>4, PageData DEF Own

\* Of no pages there is nothing to copy.
LEMMA GetUserPagesData ==
    ASSUME IInv, DataInv, NEW p \in Procs, GetUserPages(p), Own(p)'
    PROVE  Data(p)'
<1>s. Shape /\ Own(p) /\ Data(p)
    BY DEF IInv, DataInv
<1>p. /\ pc[p] = "gup"
      /\ pc'[p] = IF npages[p] = 0 THEN "kfree" ELSE "copy"
      /\ lab' = lab /\ call' = call /\ user' = user /\ mem' = mem
      /\ alone' = alone /\ npages' = npages /\ j' = j /\ rc' = rc
      /\ ktmp'[p] = 0 /\ curlen'[p] = call[p].len /\ First(p)' = First(p)
    BY <1>s DEF GetUserPages, Goto, callVars, Shape, First
<1>l. lab \in PageLabs
    BY <1>s, <1>p DEF Own, Where, PagePcs
<1>n. /\ call[p].len \in Nat /\ call[p].buf \in Nat
      /\ call[p].buf + call[p].len <= PageSize * BufferPages
    BY <1>s, <1>p, <1>l, CallIsArgs DEF Own, Arguments
<1>j. j[p] = 0
    BY <1>s, <1>p DEF Own, Pins
<1>e. npages[p] = 0 => call[p].len = 0
    <2>1. CASE lab = "align"
        <3>1. npages[p] = NpagesBetween(call[p].buf, call[p].len)
            BY <1>s, <1>p, <1>l, <2>1
               DEF Data, Pieces, NpagesBetween, First
        <3> DEFINE b == call[p].buf
                   n == call[p].len
        <3> HIDE DEF b, n
        <3>2. NpagesBetween(b, n) \in Nat \ {0}
            BY <1>n, PagesBetween DEF b, n
        <3> QED
            BY <3>1, <3>2 DEF b, n
    <2>2. CASE lab # "align"
        <3> DEFINE n == call[p].len
                   d == (n - 1) \div PageSize
        <3>1. n > 0 => npages[p] = d + 1
            BY <1>s, <1>p, <1>l, <2>2 DEF Data, Pieces
        <3>2. n > 0 => d \in Nat
            <4>1. n > 0 => n - 1 \in Nat
                BY <1>n
            <4> QED
                BY <4>1, Sizes, DivNat
        <3> HIDE DEF d
        <3> QED
            BY <1>n, <3>1, <3>2
    <2> QED
        BY <2>1, <2>2
<1>0. Sofar(p) = 0 /\ Sofar(p)' = 0 /\ ~Failed(p) /\ ~Failed(p)'
    BY <1>p, <1>l, <1>e DEF Sofar, Failed
<1>1. Pieces(p)'
    <2>1. rc[p] = 0
        BY <1>s, <1>p, <1>l DEF Data, Pieces, PagePcs
    <2>2. npages[p] = IF lab = "align"
                  THEN ((call[p].buf + call[p].len) \div PageSize)
                          - First(p) + 1
                  ELSE IF call[p].len > 0
                       THEN ((call[p].len - 1) \div PageSize) + 1 ELSE 0
        <3>1. call[p].len > 0 \/ call[p].len = 0
            BY <1>n
        <3> QED
            BY <1>s, <1>p, <1>l, <3>1 DEF Data, Pieces
    <2>3. call[p].len = call[p].len - 0
        BY <1>n
    <2> QED
        BY <1>p, <1>j, <2>1, <2>2, <2>3 DEF Pieces
<1>2. Amount(p)'
    BY <1>p, <1>l, <1>n, <1>0 DEF Amount
<1>3. ReadRight(p)'
    BY <1>s, <1>p, <1>0 DEF Data, ReadRight, Transfers
<1>4. WriteRight(p)'
    BY <1>s, <1>p, <1>0 DEF Data, WriteRight, Transfers
<1> QED
    BY <1>p, <1>l, <1>1, <1>2, <1>3, <1>4, PageData DEF Own

\* The next page begins where the bytes copied end.
LEMMA PutPageData ==
    ASSUME IInv, DataInv, NEW p \in Procs, PutPage(p), Own(p)'
    PROVE  Data(p)'
<1>s. Shape /\ Own(p) /\ Data(p)
    BY DEF IInv, DataInv
<1>p. /\ pc[p] = "put"
      /\ pc'[p] = IF j[p] + 1 = npages[p] THEN "kfree" ELSE "copy"
      /\ lab' = lab /\ call' = call /\ user' = user /\ mem' = mem
      /\ alone' = alone /\ npages' = npages /\ j'[p] = j[p] + 1 /\ rc' = rc
      /\ ktmp' = ktmp /\ curlen' = curlen /\ First(p)' = First(p)
    BY <1>s DEF PutPage, Goto, callVars, Shape, First
<1>l. lab \in PageLabs
    BY <1>s, <1>p DEF Own, Where, PagePcs
<1>n. call[p].len \in Nat
    BY <1>s, CallIsArgs
<1>j. j[p] \in Nat /\ First(p) \in Nat
    <2>1. First(p) \in Nat
        BY <1>s, CallIsArgs
    <2>2. j[p] \in Int /\ 0 <= j[p]
        BY <1>s, <1>p DEF Own, Pins, Shape
    <2> QED
        BY <2>1, <2>2
<1>k. ktmp[p] = IF j[p] + 1 = npages[p] THEN call[p].len
                ELSE PageSize * (First(p) + j[p] + 1) - call[p].buf
    BY <1>s, <1>p, <1>l DEF Data, Pieces
<1>0. Sofar(p)' = Sofar(p) /\ ~Failed(p) /\ ~Failed(p)'
    BY <1>p, <1>l, <1>k DEF Sofar, Failed
<1>1. Pieces(p)'
    <2>1. rc[p] = 0
        BY <1>s, <1>p, <1>l DEF Data, Pieces, PagePcs
    <2>2. npages[p] = IF lab = "align"
                  THEN ((call[p].buf + call[p].len) \div PageSize)
                          - First(p) + 1
                  ELSE IF call[p].len > 0
                       THEN ((call[p].len - 1) \div PageSize) + 1 ELSE 0
        <3>1. call[p].len > 0 \/ call[p].len = 0
            BY <1>n
        <3> QED
            BY <1>s, <1>p, <1>l, <3>1 DEF Data, Pieces
    <2>3. /\ j'[p] # 0 /\ First(p) + j[p] + 1 = First(p) + j'[p]
        BY <1>p, <1>j
    <2>4. curlen[p] = call[p].len - ktmp[p]
        BY <1>s, <1>p, <1>l DEF Data, Pieces
    <2> QED
        BY <1>p, <1>k, <2>1, <2>2, <2>3, <2>4 DEF Pieces
<1>2. Amount(p)'
    BY <1>s, <1>p, <1>l, <1>0 DEF Data, Amount
<1>3. ReadRight(p)'
    BY <1>s, <1>p, <1>0 DEF Data, ReadRight, Transfers
<1>4. WriteRight(p)'
    BY <1>s, <1>p, <1>0 DEF Data, WriteRight, Transfers
<1> QED
    BY <1>p, <1>l, <1>1, <1>2, <1>3, <1>4, PageData DEF Own

LEMMA CallRwData ==
    ASSUME IInv, DataInv, NEW p \in Procs, CallRw(p), Own(p)'
    PROVE  Data(p)'
<1>s. Shape /\ Own(p)
    BY DEF IInv
<1>1. PICK op \in {"read", "write", "none"},
           buf \in 0..(PageSize * BufferPages - 1), len \in 0..RamdiskSize :
          /\ op = "none" => lab \in Ioctls
          /\ buf + len <= PageSize * BufferPages
          /\ Begin(p, FirstOf(op),
                   [NoCall EXCEPT !.op = op, !.buf = buf, !.len = len])
          /\ Prepare(p, op, buf, len)
          /\ rc' = [rc EXCEPT ![p] = IF op = "none" THEN Error ELSE 0]
    BY DEF CallRw
<1>2. lab \in PageLabs \cup Ioctls /\ lab' = lab /\ j' = [j EXCEPT ![p] = 0]
    BY DEF CallRw
<1>3. /\ call'[p].op = op /\ call'[p].buf = buf /\ call'[p].len = len
      /\ pc'[p] = FirstOf(op) /\ j'[p] = 0
      /\ rc'[p] = IF op = "none" THEN Error ELSE 0
      /\ \A a \in Memory : user'[p][a] =
            IF op = "write" /\ a \in buf..(buf + len - 1)
            THEN <<p, a - buf>> ELSE Old
    BY <1>1, <1>2, <1>s DEF Begin, Goto, Prepare, Shape, NoCall
<1>4. /\ lab \in PageLabs => pc'[p] = "array" /\ op # "none"
      /\ lab = "data" => pc'[p] = IF op = "none" THEN "return" ELSE "cells"
      /\ lab = "vardata" => pc'[p] = "kmalloc"
    BY <1>1, <1>2, <1>3 DEF FirstOf, PageLabs, Ioctls
<1>n. buf \in Nat /\ len \in Nat
    BY Sizes
<1>5. ~Failed(p)' => Sofar(p)' = 0
    BY <1>2, <1>3, <1>4 DEF Sofar, Failed, PageLabs, Ioctls
<1>6. Amount(p)'
    BY <1>2, <1>3, <1>4, <1>5, <1>n DEF Amount, PageLabs, Ioctls
<1>7. ReadRight(p)'
    BY <1>3, <1>5, <1>n DEF ReadRight
<1>8. WriteRight(p)'
    <2>1. ASSUME op = "write", NEW a \in buf..(buf + len - 1)
          PROVE  user'[p][a] = <<p, a - buf>>
        <3>1. a \in Memory
            BY <1>n, <1>1, Sizes DEF Memory
        <3> QED
            BY <1>3, <2>1, <3>1
    <2> QED
        BY <1>3, <1>5, <2>1 DEF WriteRight
<1>9. CASE lab \in PageLabs
    <2>1. Pieces(p)'
        BY <1>2, <1>3, <1>4, <1>9 DEF Pieces
    <2> QED
        BY <1>2, <1>6, <1>7, <1>8, <1>9, <2>1, PageData DEF Own
<1>10. CASE lab \in Ioctls
    <2>1. VarBuffer(p)'
        BY <1>4, <1>10 DEF VarBuffer, Ioctls
    <2> QED
        BY <1>2, <1>6, <1>7, <1>8, <1>10, <2>1, IoctlData
<1> QED
    BY <1>2, <1>9, <1>10

LEMMA KfreeData ==
    ASSUME IInv, DataInv, NEW p \in Procs, Kfree(p), Own(p)'
    PROVE  Data(p)'
<1>s. Shape /\ Own(p) /\ Data(p)
    BY DEF IInv, DataInv
<1>p. /\ pc[p] = "kfree" /\ pc'[p] = "return"
      /\ lab' = lab /\ call' = call /\ user' = user /\ mem' = mem
      /\ alone' = alone
      /\ rc'[p] = IF lab \in PageLabs THEN call[p].len ELSE rc[p]
    BY <1>s DEF Kfree, Goto, callVars, Shape
<1>l. lab \in PageLabs \cup {"vardata"}
    BY <1>s, <1>p DEF Own, Where
<1>0. Sofar(p)' = Sofar(p) /\ ~Failed(p)
    BY <1>p DEF Sofar, Failed, Moved
<1>2. Amount(p)'
    BY <1>s, <1>p, <1>0 DEF Data, Amount
<1>3. ReadRight(p)'
    BY <1>s, <1>p, <1>0 DEF Data, ReadRight, Transfers
<1>4. WriteRight(p)'
    BY <1>s, <1>p, <1>0 DEF Data, WriteRight, Transfers
<1>5. Pieces(p)' /\ VarBuffer(p)'
    BY <1>p DEF Pieces, VarBuffer, PagePcs
<1> QED
    BY <1>p, <1>l, <1>2, <1>3, <1>4, <1>5, PageData, IoctlData DEF Own, Ioctls

LEMMA KmallocBufferData ==
    ASSUME IInv, DataInv, NEW p \in Procs, KmallocBuffer(p)
    PROVE  Data(p)'
<1>s. Shape /\ Own(p) /\ Data(p)
    BY DEF IInv, DataInv
<1>p. /\ pc[p] = "kmalloc" /\ pc'[p] \in {"return", "copyvar"}
      /\ lab' = lab /\ call' = call /\ user' = user /\ mem' = mem
      /\ alone' = alone
      /\ pc'[p] = "return" => rc'[p] = Error
      /\ kbuf'[p] = [i \in 0..(call[p].len - 1) |-> <<None, i>>]
    BY <1>s DEF KmallocBuffer, callVars, Shape
<1>l. lab = "vardata"
    BY <1>s, <1>p DEF Own, Where
<1>n. call[p].len \in Nat
    BY <1>s, CallIsArgs
<1>0. Sofar(p) = 0 /\ ~Failed(p) /\ (~Failed(p)' => Sofar(p)' = 0)
    BY <1>p DEF Sofar, Failed
<1>2. Amount(p)'
    BY <1>p, <1>n, <1>0 DEF Amount
<1>3. ReadRight(p)'
    BY <1>s, <1>p, <1>0 DEF Data, ReadRight, Transfers
<1>4. WriteRight(p)'
    BY <1>s, <1>p, <1>0, <1>l DEF Data, WriteRight, Transfers
<1>5. VarBuffer(p)'
    BY <1>p DEF VarBuffer
<1> QED
    BY <1>p, <1>l, <1>2, <1>3, <1>4, <1>5, IoctlData DEF Ioctls

LEMMA CopyVarData ==
    ASSUME IInv, DataInv, NEW p \in Procs, CopyVar(p)
    PROVE  Data(p)'
<1>s. Shape /\ Own(p) /\ Data(p)
    BY DEF IInv, DataInv
<1>p. /\ pc[p] = "copyvar" /\ pc'[p] = "kfree"
      /\ lab' = lab /\ call' = call /\ mem' = mem /\ alone' = alone
    BY <1>s DEF CopyVar, Goto, callVars, Shape
<1>l. lab = "vardata" /\ call[p].op \in {"read", "write"}
    BY <1>s, <1>p DEF Own, Where
<1>n. call[p].len \in Nat /\ call[p].buf \in Nat
    BY <1>s, CallIsArgs
<1>b. call[p].buf = 0
    BY <1>s, <1>p, <1>l DEF Own, Arguments, Ioctls
<1>1. PICK n \in 0..call[p].len :
          /\ rc' = [rc EXCEPT ![p] = call[p].len - n]
          /\ IF call[p].op = "write" THEN user' = user
             ELSE user' = [user EXCEPT ![p] = [a \in Memory |->
                        IF a - call[p].buf \in 0..(n - 1)
                        THEN kbuf[p][a - call[p].buf] ELSE @[a]]]
    BY DEF CopyVar
<1>2. n \in Int /\ 0 <= n /\ n <= call[p].len /\ rc'[p] = call[p].len - n
    BY <1>1, <1>n, <1>s DEF Shape
<1>0. Sofar(p) = 0 /\ ~Failed(p) /\ ~Failed(p)' /\ Sofar(p)' = n
    <2>1. call[p].len - (call[p].len - n) = n
        BY <1>2, <1>n
    <2> QED
        BY <1>p, <1>l, <1>2, <2>1 DEF Sofar, Failed, PageLabs
<1>3. Amount(p)'
    BY <1>p, <1>n, <1>2, <1>0 DEF Amount, Error
<1>4. ReadRight(p)'
    <2>1. CASE call[p].op = "read"
        <3>1. \A a \in Memory : user'[p][a] =
                    IF a - call[p].buf \in 0..(n - 1)
                    THEN kbuf[p][a - call[p].buf] ELSE user[p][a]
            BY <1>1, <1>s, <2>1 DEF Shape
        <3>2. kbuf[p] = [i \in 0..(call[p].len - 1) |-> <<None, i>>]
            BY <1>s, <1>p DEF Data, VarBuffer
        <3>3. \A a \in Memory : user[p][a] = Old
            <4>1. \A a \in Memory : a \notin call[p].buf..(call[p].buf + 0 - 1)
                BY <1>n
            <4> QED
                BY <1>s, <1>p, <1>l, <1>0, <2>1, <4>1
                   DEF Data, ReadRight, Transfers, Ioctls
        <3>4. \A a \in Memory :
                  IF a \in call[p].buf..(call[p].buf + n - 1)
                  THEN user'[p][a][2] = a - call[p].buf
                  ELSE user'[p][a] = Old
            <4> SUFFICES ASSUME NEW a \in Memory
                         PROVE  IF a \in call[p].buf..(call[p].buf + n - 1)
                                THEN user'[p][a][2] = a - call[p].buf
                                ELSE user'[p][a] = Old
                OBVIOUS
            <4>1. a \in Int /\ a - call[p].buf = a
                BY <1>b DEF Memory
            <4>2. a \in call[p].buf..(call[p].buf + n - 1)
                    <=> a - call[p].buf \in 0..(n - 1)
                BY <1>b, <1>2, <4>1
            <4>3. CASE a - call[p].buf \in 0..(n - 1)
                <5>1. kbuf[p][a - call[p].buf] = <<None, a - call[p].buf>>
                    BY <1>2, <1>n, <3>2, <4>3
                <5> QED
                    BY <3>1, <4>2, <4>3, <5>1
            <4>4. CASE a - call[p].buf \notin 0..(n - 1)
                BY <3>1, <3>3, <4>2, <4>4
            <4> QED
                BY <4>3, <4>4
        <3> QED
            BY <1>p, <1>l, <1>0, <3>4 DEF ReadRight
    <2>2. CASE call[p].op # "read"
        BY <1>p, <2>2 DEF ReadRight
    <2> QED
        BY <2>1, <2>2
<1>5. WriteRight(p)'
    <2>1. call[p].op = "write" => user' = user
        BY <1>1
    <2> QED
        BY <1>s, <1>p, <1>l, <2>1 DEF Data, WriteRight, Transfers
<1>6. VarBuffer(p)'
    BY <1>p DEF VarBuffer
<1> QED
    BY <1>p, <1>l, <1>3, <1>4, <1>5, <1>6, IoctlData DEF Ioctls

LEMMA CopyCellData ==
    ASSUME IInv, DataInv, NEW p \in Procs, CopyCell(p) \/ CellFault(p)
    PROVE  Data(p)' /\ \A i \in Ramdisk : mem'[i] \in {mem[i], <<p, i>>}
<1>s. Shape /\ Own(p) /\ Data(p) /\ InPlace
    BY DEF IInv, DataInv
<1>p. /\ pc[p] = "cells" /\ pc'[p] \in {"cells", "return"}
      /\ lab' = lab /\ call' = call /\ alone' = alone
      /\ rc'[p] = RamdiskSize - j[p]
    BY <1>s DEF CopyCell, CellFault, Goto, callVars, Shape
<1>l. lab = "data" /\ call[p].op \in {"read", "write"}
    BY <1>s, <1>p DEF Own, Where
<1>a. /\ call[p].buf = 0 /\ call[p].len = RamdiskSize
      /\ RamdiskSize <= PageSize * BufferPages
    BY <1>s, <1>p, <1>l DEF Own, Arguments, Ioctls
<1>j. /\ j[p] \in Int /\ 0 <= j[p] /\ j[p] <= RamdiskSize
      /\ Sofar(p) = j[p] /\ ~Failed(p)
    <2>1. Sofar(p) = j[p] /\ ~Failed(p)
        BY <1>p DEF Sofar, Failed
    <2>2. 0 <= Sofar(p) /\ Sofar(p) <= call[p].len
        BY <1>s, <1>l, <2>1 DEF Data, Amount, Ioctls
    <2> QED
        BY <1>s, <1>a, <2>1, <2>2 DEF Shape
<1>r. /\ \A i \in 0..(RamdiskSize - 1) : i \in Ramdisk /\ i \in Memory
      /\ RamdiskSize \in Nat
    BY <1>a, Sizes DEF Ramdisk, Memory
<1>d. /\ call[p].op = "read" => \A x \in Memory :
            IF x \in 0..(j[p] - 1)
            THEN user[p][x][2] = x /\ (alone[p] => user[p][x] = mem[x])
            ELSE user[p][x] = Old
      /\ call[p].op = "write" =>
            /\ \A x \in 0..(RamdiskSize - 1) : user[p][x] = <<p, x>>
            /\ alone[p] => \A x \in 0..(j[p] - 1) : mem[x] = <<p, x>>
    <2>1. \A x \in Memory : x \in Int /\ x - 0 = x
        BY DEF Memory
    <2>2. 0 + j[p] - 1 = j[p] - 1 /\ 0 + RamdiskSize - 1 = RamdiskSize - 1
        BY <1>j, <1>r
    <2>3. \A x \in 0..(RamdiskSize - 1) : x - 0 = x
        OBVIOUS
    <2>4. ReadRight(p) /\ WriteRight(p) /\ Transfers
        BY <1>s, <1>l DEF Data, Transfers, Ioctls
    <2>5. call[p].op = "read" => \A x \in Memory :
            IF x \in 0..(j[p] - 1)
            THEN user[p][x][2] = x /\ (alone[p] => user[p][x] = mem[x])
            ELSE user[p][x] = Old
        BY <1>p, <1>l, <1>a, <1>j, <2>1, <2>2, <2>4 DEF ReadRight
    <2>6. call[p].op = "write" =>
            /\ \A x \in 0..(RamdiskSize - 1) : user[p][x] = <<p, x>>
            /\ alone[p] => \A x \in 0..(j[p] - 1) : mem[x] = <<p, x>>
        BY <1>p, <1>l, <1>a, <1>j, <2>2, <2>3, <2>4 DEF WriteRight
    <2> QED
        BY <2>5, <2>6
\* It is enough to show what has been moved when k bytes have been.
<1> DEFINE Right(k) ==
        /\ call[p].op = "read" => \A x \in Memory :
              IF x \in 0..(k - 1)
              THEN user'[p][x][2] = x /\ (alone[p] => user'[p][x] = mem'[x])
              ELSE user'[p][x] = Old
        /\ call[p].op = "write" =>
              /\ \A x \in 0..(RamdiskSize - 1) : user'[p][x] = <<p, x>>
              /\ alone[p] => \A x \in 0..(k - 1) : mem'[x] = <<p, x>>
<1>1. ASSUME NEW k \in 0..RamdiskSize, Sofar(p)' = k, Right(k)
      PROVE  Data(p)'
    <2>1. \A x \in Memory : x \in Int /\ x - 0 = x
        BY DEF Memory
    <2>2. 0 + k - 1 = k - 1 /\ 0 + RamdiskSize - 1 = RamdiskSize - 1
        BY <1>r
    <2>3. \A x \in 0..(RamdiskSize - 1) : x - 0 = x
        OBVIOUS
    <2>4. ReadRight(p)'
        BY <1>1, <1>p, <1>l, <1>a, <2>1, <2>2 DEF ReadRight
    <2>5. WriteRight(p)'
        BY <1>1, <1>p, <1>l, <1>a, <2>2, <2>3 DEF WriteRight
    <2>6. Amount(p)'
        BY <1>1, <1>p, <1>a, <1>r DEF Amount
    <2>7. VarBuffer(p)'
        BY <1>p DEF VarBuffer
    <2> QED
        BY <1>p, <1>l, <2>4, <2>5, <2>6, <2>7, IoctlData DEF Ioctls
<1> HIDE DEF Right
<1>2. CASE CellFault(p) \/ j[p] = RamdiskSize
    <2>1. pc'[p] = "return" /\ user' = user /\ mem' = mem
        BY <1>2, <1>s DEF CellFault, CopyCell, Goto, Shape
    <2>2. Sofar(p)' = j[p]
        <3>1. RamdiskSize - (RamdiskSize - j[p]) = j[p]
            BY <1>j, <1>r
        <3> QED
            BY <1>p, <1>l, <1>a, <2>1, <3>1 DEF Sofar, Moved, PageLabs
    <2>3. Right(j[p])
        BY <1>d, <2>1 DEF Right
    <2>4. j[p] \in 0..RamdiskSize
        BY <1>j, <1>r
    <2> QED
        BY <1>1, <2>1, <2>2, <2>3, <2>4
<1>3. CASE CopyCell(p) /\ j[p] # RamdiskSize
    <2> DEFINE i == j[p]
    <2>1. /\ pc'[p] = "cells" /\ j'[p] = i + 1
          /\ IF call[p].op = "write"
             THEN mem' = [mem EXCEPT ![i] = user[p][i]] /\ user' = user
             ELSE user' = [user EXCEPT ![p][i] = mem[i]] /\ mem' = mem
        BY <1>3, <1>p, <1>s DEF CopyCell, Shape
    <2>2. i \in 0..(RamdiskSize - 1) /\ i + 1 \in 0..RamdiskSize
        BY <1>3, <1>j, <1>r
    <2>3. Sofar(p)' = i + 1
        BY <2>1 DEF Sofar
    <2>4. \A x : x \in 0..((i + 1) - 1) <=> x \in 0..(i - 1) \/ x = i
        BY <1>j
    <2>i. i \in Ramdisk /\ i \in Memory
        BY <1>r, <2>2
    <2> HIDE DEF i
    <2>5. CASE call[p].op = "write"
        <3>1. \A x \in Ramdisk : mem'[x] = IF x = i THEN <<p, i>> ELSE mem[x]
            <4>1. user[p][i] = <<p, i>>
                BY <1>d, <2>2, <2>5
            <4> QED
                BY <1>s, <2>1, <2>5, <4>1 DEF Shape
        <3>2. \A x \in 0..(i - 1) : x \in Ramdisk
            BY <1>r, <2>2
        <3>3. Right(i + 1)
            BY <1>d, <2>1, <2>4, <2>5, <2>i, <3>1, <3>2 DEF Right, i
        <3> QED
            BY <1>1, <2>2, <2>3, <3>1, <3>3
    <2>6. CASE call[p].op = "read"
        <3>1. /\ mem' = mem
              /\ \A x \in Memory :
                    user'[p][x] = IF x = i THEN mem[i] ELSE user[p][x]
            BY <1>s, <2>1, <2>6 DEF Shape
        <3>2. mem[i][2] = i
            BY <1>s, <2>i DEF InPlace
        <3>3. Right(i + 1)
            BY <1>d, <2>4, <2>6, <2>i, <3>1, <3>2 DEF Right, i
        <3> QED
            BY <1>1, <2>2, <2>3, <3>1, <3>3
    <2> QED
        BY <1>l, <2>5, <2>6
<1> QED
    BY <1>2, <1>3

LEMMA SysfsSteps ==
    ASSUME IInv, DataInv, NEW p \in Procs, Own(p)',
           CallSysfs(p) \/ Show(p) \/ Sprintf(p) \/ StoreAttribute(p)
              \/ NoInteger(p)
    PROVE  Data(p)' /\ \A i \in Ramdisk : mem'[i] \in {mem[i], <<p, i>>}
<1>s. Shape /\ Own(p) /\ Values(p) /\ InPlace
    BY DEF IInv, DataInv, Data
<1>l. lab' = lab /\ lab = "sysfs"
    BY <1>s DEF CallSysfs, Show, FooShow, BShow, Sprintf, StoreAttribute,
       FooStore, BStore, BAssign, NoInteger, Goto, Own, Where
<1>m. Foo \in Ramdisk /\ Baz \in Ramdisk /\ Bar \in Ramdisk
    BY Sizes DEF Foo, Baz, Bar
<1>0. Foo # Baz /\ Foo # Bar /\ Baz # Bar
    BY DEF Foo, Baz, Bar
<1>u. 0 \in Memory
    BY Sizes
<1>1. CASE CallSysfs(p)
    <2>1. PICK op \in {"read", "write"}, attr \in {Foo, Baz, Bar} :
              /\ Begin(p, IF op = "read" THEN "show" ELSE "store",
                       [NoCall EXCEPT !.op = op, !.buf = attr, !.len = 1])
              /\ user' = [user EXCEPT ![p] = [a \in Memory |->
                        IF a = 0 /\ op = "write" THEN <<p, attr>> ELSE Old]]
        BY <1>1 DEF CallSysfs
    <2>2. /\ call'[p].op = op /\ call'[p].buf = attr
          /\ pc'[p] = (IF op = "read" THEN "show" ELSE "store") /\ mem' = mem
        BY <2>1, <1>1, <1>s DEF CallSysfs, Begin, Goto, Shape, NoCall
    <2>3. pc'[p] = "store" => user'[p][0] = <<p, attr>>
        BY <2>1, <2>2, <1>s, <1>u DEF Shape
    <2>4. Values(p)'
        BY <2>2, <2>3 DEF Values
    <2> QED
        BY <1>l, <2>2, <2>4, SysfsData DEF Own
<1>p. /\ ~CallSysfs(p)
            => UNCHANGED <<call, alone>> /\ pc[p] # "idle"
      /\ pc[p] # "idle" => call[p].buf \in {Foo, Baz, Bar}
    BY <1>s, <1>l DEF Show, FooShow, BShow, Sprintf, StoreAttribute, FooStore,
       BStore, BAssign, NoInteger, Goto, callVars, Own, Arguments
<1>2. CASE ~CallSysfs(p) /\ Show(p)
    <2>1. /\ pc'[p] = "sprintf" /\ mem' = mem
          /\ kbuf'[p] = mem[call[p].buf]
        BY <1>2, <1>s, <1>l, <1>p, <1>0
           DEF Show, FooShow, BShow, Attribute, Goto, Shape
    <2>2. kbuf'[p][2] = call[p].buf
        BY <1>2, <1>s, <1>p, <1>m, <2>1 DEF InPlace
    <2>3. Values(p)'
        BY <1>2, <1>p, <2>1, <2>2 DEF Values
    <2> QED
        BY <1>l, <2>1, <2>3, SysfsData DEF Own
<1>3. CASE ~CallSysfs(p) /\ Sprintf(p)
    <2>1. /\ pc[p] = "sprintf" /\ pc'[p] = "return" /\ mem' = mem
          /\ user'[p][0] = kbuf[p]
        BY <1>3, <1>s, <1>u DEF Sprintf, Goto, Shape
    <2>2. call[p].op = "read"
        BY <1>s, <2>1 DEF Own, Where
    <2>3. Values(p)'
        BY <1>3, <1>s, <1>l, <1>p, <2>1, <2>2 DEF Values
    <2> QED
        BY <1>l, <2>1, <2>3, SysfsData DEF Own
<1>4. CASE ~CallSysfs(p) /\ StoreAttribute(p)
    <2>0. UNCHANGED <<user, rc>>
        BY <1>4 DEF StoreAttribute
    <2>1. CASE FooStore(p) \/ BAssign(p)
        <3>1. /\ pc[p] \in {"store", "assign"} /\ pc'[p] = "return"
              /\ mem' = [mem EXCEPT ![call[p].buf] = <<p, call[p].buf>>]
            <4>1. CASE FooStore(p)
                <5>1. /\ pc[p] = "store" /\ pc'[p] = "return"
                      /\ mem' = [mem EXCEPT ![Foo] = user[p][0]]
                      /\ call[p].buf = Foo
                    BY <4>1, <1>s DEF FooStore, Goto, Shape, Attribute
                <5>2. user[p][0] = <<p, call[p].buf>>
                    BY <1>s, <1>l, <5>1 DEF Values
                <5> QED
                    BY <5>1, <5>2
            <4>2. CASE BAssign(p)
                <5>1. /\ pc[p] = "assign" /\ pc'[p] = "return"
                      /\ mem' = [mem EXCEPT ![IF call[p].buf = Baz THEN Baz
                                              ELSE Bar] = kbuf[p]]
                    BY <4>2, <1>s, <1>l DEF BAssign, Goto, Shape, Attribute
                <5>2. kbuf[p] = <<p, call[p].buf>> /\ call[p].buf # Foo
                    BY <1>s, <1>l, <5>1 DEF Values
                <5>3. (IF call[p].buf = Baz THEN Baz ELSE Bar) = call[p].buf
                    BY <1>p, <5>1, <5>2
                <5> QED
                    BY <5>1, <5>2, <5>3
            <4> QED
                BY <2>1, <4>1, <4>2
        <3>2. call[p].buf \in Ramdisk /\ call[p].op = "write"
            BY <1>s, <1>p, <1>m, <3>1 DEF Own, Where
        <3>3. \A i \in Ramdisk : mem'[i] =
                  IF i = call[p].buf THEN <<p, call[p].buf>> ELSE mem[i]
            BY <1>s, <3>1 DEF Shape
        <3>4. Values(p)'
            BY <1>4, <1>p, <3>1, <3>2, <3>3 DEF Values
        <3> QED
            BY <1>l, <3>3, <3>4, SysfsData DEF Own
    <2>2. CASE BStore(p)
        <3>1. /\ pc[p] = "store" /\ pc'[p] = "assign" /\ mem' = mem
              /\ kbuf'[p] = user[p][0] /\ call[p].buf # Foo
            BY <2>2, <1>s, <1>l DEF BStore, Goto, Shape, Attribute
        <3>2. user[p][0] = <<p, call[p].buf>>
            BY <1>s, <1>l, <3>1 DEF Values
        <3>3. Values(p)'
            BY <1>4, <1>p, <3>1, <3>2 DEF Values
        <3> QED
            BY <1>l, <3>1, <3>3, SysfsData DEF Own
    <2> QED
        BY <1>4, <2>1, <2>2 DEF StoreAttribute
<1>5. CASE ~CallSysfs(p) /\ NoInteger(p)
    <2>1. pc'[p] = "return" /\ mem' = mem /\ rc'[p] = Error
        BY <1>5, <1>s DEF NoInteger, Goto, Shape
    <2>2. Values(p)'
        BY <2>1 DEF Values, Failed
    <2> QED
        BY <1>l, <2>1, <2>2, SysfsData DEF Own
<1> QED
    BY <1>1, <1>2, <1>3, <1>4, <1>5

LEMMA OtherSteps ==
    ASSUME IInv, DataInv, NEW p \in Procs, Own(p)',
           \/ CallMmap(p) \/ CallSignal(p) \/ MycdrvMmap(p) \/ Store(p)
           \/ SetPid(p) \/ SetSig(p) \/ SendSig(p)
    PROVE  Data(p)' /\ \A i \in Ramdisk : mem'[i] \in {mem[i], <<p, i>>}
<1>s. Shape /\ Own(p) /\ Unmapped
    BY DEF IInv, DataInv
<1>1. lab' = lab /\ lab \in {"mmap", "signal"}
    BY <1>s DEF CallMmap, CallSignal, MycdrvMmap, Store, SetPid, SetSig,
       SendSig, Goto, Own, Where, Unmapped
<1>2. Data(p)'
    BY <1>1, FreeData DEF Own, PageLabs, Ioctls
<1>3. \A i \in Ramdisk : mem'[i] \in {mem[i], <<p, i>>}
    BY <1>s DEF CallMmap, CallSignal, MycdrvMmap, Store, SetPid, SetSig,
       SendSig, Shape
<1> QED
    BY <1>2, <1>3

LEMMA ReturnData ==
    ASSUME IInv, DataInv, NEW p \in Procs, Return(p)
    PROVE  Data(p)'
<1>1. pc'[p] = "idle" /\ call'[p] = NoCall
    BY DEF Return, Goto, IInv, Shape
<1>2. Sofar(p)' = 0 /\ call'[p].len = 0
    BY <1>1 DEF Sofar, NoCall
<1> QED
    BY <1>1, <1>2 DEF Data, Pieces, Amount, ReadRight, WriteRight, VarBuffer,
       Values, PagePcs

LEMMA OwnData ==
    ASSUME Fits, IInv, DataInv, NEW p \in Procs, Step(p), Own(p)'
    PROVE  Data(p)' /\ \A i \in Ramdisk : mem'[i] \in {mem[i], <<p, i>>}
<1>1. CASE CallRw(p) \/ KmallocArray(p) \/ GetUserPages(p) \/ PutPage(p)
           \/ Kfree(p) \/ KmallocBuffer(p) \/ CopyVar(p) \/ Return(p)
    <2>1. mem' = mem
        BY <1>1 DEF CallRw, KmallocArray, GetUserPages, PutPage, Kfree,
           KmallocBuffer, CopyVar, Return
    <2>2. Data(p)'
        BY <1>1, CallRwData, KmallocArrayData, GetUserPagesData, PutPageData,
           KfreeData, KmallocBufferData, CopyVarData, ReturnData
    <2> QED
        BY <2>1, <2>2
<1> QED
    BY <1>1, CopyPageData, CopyCellData, SysfsSteps, OtherSteps DEF Step

LEMMA InitDataInv == Init => DataInv
<1> SUFFICES ASSUME Init PROVE DataInv
    OBVIOUS
<1>1. ASSUME NEW p \in Procs PROVE Data(p)
    <2>1. pc[p] = "idle" /\ call[p] = NoCall
        BY DEF Init
    <2>2. Sofar(p) = 0 /\ call[p].len = 0
        BY <2>1 DEF Sofar, NoCall
    <2> QED
        BY <2>1, <2>2 DEF Data, Pieces, Amount, ReadRight, WriteRight,
           VarBuffer, Values, PagePcs
<1>2. Solitude /\ Unmapped /\ InPlace
    BY DEF Init, Solitude, Unmapped, InPlace
<1> QED
    BY <1>1, <1>2 DEF DataInv

LEMMA NextDataInv ==
    Fits /\ IInv /\ IInv' /\ DataInv /\ [Next]_vars => DataInv'
<1>1. CASE IInv /\ DataInv /\ UNCHANGED vars
    <2>1. UNCHANGED <<lab, pc, call, alone, kbuf, npages, j, ktmp, curlen, rc,
                      user, mem, mapping>>
        BY <1>1 DEF vars, callVars, rwVars
    <2>2. Solitude' /\ Unmapped' /\ InPlace'
        BY <1>1, <2>1 DEF DataInv, Solitude, InCall, Unmapped, InPlace
    <2>3. ASSUME NEW p \in Procs PROVE Data(p)'
        <3>1. Data(p)
            BY <1>1 DEF DataInv
        <3>2. /\ Sofar(p)' = Sofar(p) /\ Failed(p)' = Failed(p)
              /\ Transfers' = Transfers
            BY <2>1 DEF Sofar, Failed, Moved, Transfers
        <3>3. Pieces(p)' /\ Amount(p)'
            BY <2>1, <3>1, <3>2 DEF Data, Pieces, Amount, First
        <3>4. ReadRight(p)' /\ WriteRight(p)'
            BY <2>1, <3>1, <3>2 DEF Data, ReadRight, WriteRight
        <3>5. VarBuffer(p)' /\ Values(p)'
            BY <2>1, <3>1, <3>2 DEF Data, VarBuffer, Values
        <3> QED
            BY <3>3, <3>4, <3>5 DEF Data
    <2> QED
        BY <2>2, <2>3 DEF DataInv
<1>2. ASSUME Fits, IInv, IInv', DataInv, NEW p \in Procs, Step(p)
      PROVE  DataInv'
    <2>0. Solitude /\ Unmapped /\ InPlace
        BY <1>2 DEF DataInv
    <2>1. Solitude' /\ Unmapped'
        BY <1>2, <2>0, SolitudeStep, UnmappedStep
    <2>2. Data(p)' /\ \A i \in Ramdisk : mem'[i] \in {mem[i], <<p, i>>}
        <3>1. Own(p)'
            BY <1>2 DEF IInv
        <3> QED
            BY <1>2, <3>1, OwnData
    <2>3. InPlace'
        BY <2>0, <2>2 DEF InPlace
    <2>4. ASSUME NEW q \in Procs, q # p PROVE Data(q)'
        BY <1>2, <2>4, OthersSame, SameData DEF IInv, Own
    <2> QED
        BY <2>1, <2>2, <2>3, <2>4 DEF DataInv
<1> QED
    BY <1>1, <1>2 DEF Next, Step

LEMMA RightAtReturn == IInv /\ DataInv => TransferRight
<1> SUFFICES ASSUME IInv, DataInv PROVE TransferRight
    OBVIOUS
<1>1. /\ \A i \in Ramdisk : mem[i][2] = i
      /\ \A p \in Procs : mapping[p] \subseteq Ramdisk
    BY DEF IInv, DataInv, InPlace, Shape
<1>2. ASSUME NEW p \in Procs, pc[p] = "return", rc[p] # Error, lab # "signal"
      PROVE
          LET c == call[p]
              buffer == c.buf..(c.buf + Moved(p) - 1)
          IN IF lab = "sysfs"
             THEN /\ alone[p] /\ c.op = "write" => mem[c.buf] = <<p, c.buf>>
                  /\ c.op = "read" =>
                        /\ user[p][0][2] = c.buf
                        /\ alone[p] => user[p][0] = mem[c.buf]
             ELSE /\ alone[p] /\ c.op = "write" /\ lab # "vardata" =>
                        \A i \in 0..(Moved(p) - 1) : mem[i] = <<p, i>>
                  /\ c.op = "read" =>
                        \A a \in Memory :
                            IF a \in buffer
                            THEN /\ user[p][a][2] = a - c.buf
                                 /\ alone[p] /\ lab # "vardata" =>
                                        user[p][a] = mem[a - c.buf]
                            ELSE user[p][a] = Old
    <2>1. Data(p) /\ Own(p)
        BY DEF IInv, DataInv
    <2>2. ~Failed(p) /\ Sofar(p) = Moved(p)
        BY <1>2 DEF Failed, Sofar
    <2>3. CASE lab = "sysfs"
        BY <1>2, <2>1, <2>2, <2>3 DEF Data, Values
    <2>4. CASE Transfers
        <3>1. lab # "sysfs"
            BY <2>4 DEF Transfers, PageLabs, Ioctls
        <3> QED
            BY <1>2, <2>1, <2>2, <2>4, <3>1 DEF Data, ReadRight, WriteRight
    <2>5. CASE lab = "mmap"
        <3>1. call[p].op = "mmap"
            BY <1>2, <2>1, <2>5 DEF Own, Arguments
        <3> QED
            BY <2>5, <3>1
    <2>6. \/ lab = "sysfs" \/ lab = "mmap" \/ Transfers
        BY <1>2, ConstantsAssumption DEF IInv, Shape, Transfers
    <2> QED
        BY <2>3, <2>4, <2>5, <2>6
<1> QED
    BY <1>1, <1>2 DEF TransferRight

LEMMA DataInvariance == ASSUME Fits PROVE Spec => []DataInv
<1>1. IInv /\ IInv' /\ DataInv /\ [Next]_vars => DataInv'
    BY Fits, NextDataInv
<1> QED
    BY <1>1, Invariance, InitDataInv, PTL DEF Spec

\* If an int can count the pages, each byte that a call says it has moved is at
\* its place and no byte around them has changed, whatever other calls do; and
\* a call that no other came between has moved them all.  An attribute's file
\* reads and writes that attribute.
THEOREM BytesAreInPlace == ASSUME Fits PROVE Spec => []TransferRight
<1>1. Spec => []DataInv
    BY Fits, DataInvariance
<1> QED
    BY <1>1, Invariance, RightAtReturn, PTL
=============================================================================
