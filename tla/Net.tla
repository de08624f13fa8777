-------------------------------- MODULE Net --------------------------------
(***************************************************************************)
(* The network drivers: who owns a packet, what the statistics say, and    *)
(* the life of the net_device around the calls into the driver.            *)
(*                                                                         *)
(*   "stub"      chapter_27, basic_network_driver.c   frees what it is sent *)
(*   "simple"    chapter_29, lab_transmit_simple.c    prints it first       *)
(*   "transmit"  chapter_29, lab_transmit.c           and counts it         *)
(*   "receive"   chapter_29, lab_receive.c            and receives it back  *)
(*                                                                         *)
(* A packet (skb) is named by its length.  The network core is external:   *)
(* it calls ndo_start_xmit with the transmit lock, one packet at a time    *)
(* and only while the device is up and its queue started; it closes the    *)
(* device before it unregisters it.  alloc_netdev succeeds (the code does  *)
(* not check).                                                             *)
(***************************************************************************)
EXTENDS Integers, FiniteSets

CONSTANTS
    Labs,     \* the drivers a run is about
    Packets,  \* the packets that can be sent, named by their lengths
    None,     \* no packet
    MaxUps    \* bound: how often the device is brought up

ASSUME ConstantsAssumption ==
    /\ Labs \subseteq {"stub", "simple", "transmit", "receive"}
    /\ Packets \subseteq Nat \ {0} /\ IsFiniteSet(Packets)
    /\ None \notin Packets /\ MaxUps \in Nat

VARIABLES
    lab,      \* the driver that is loaded
    module,   \* next step of loading and unloading: "out", "register", ...
    dev,      \* "none", "allocated", "registered", "freed"
    link,     \* "down", "up", or "closing": ndo_stop is still to be called
    stopped,  \* netif_stop_queue was called last
    skb,      \* for each packet, where it is
    kfrees,   \* not in the code: how often each packet was freed
    xmit,     \* next operation of my_start_xmit
    cur,      \* its packet
    txBytes, txPackets, rxBytes, rxPackets,  \* dev->stats
    ups,      \* not in the code: how often the device was brought up
    reader,   \* a process that copies the statistics: its next field
    seenRx, seenTx                           \* what it has copied

devVars == <<lab, module, dev>>
linkVars == <<link, stopped, ups>>
skbVars == <<skb, kfrees>>
statVars == <<txBytes, txPackets, rxBytes, rxPackets>>
readVars == <<reader, seenRx, seenTx>>
vars == <<devVars, linkVars, skbVars, xmit, cur, statVars, readVars>>

Counting == lab \in {"transmit", "receive"}

TypeOK ==
    /\ lab \in Labs
    /\ module \in {"out", "register", "live", "unregister", "free", "gone",
                   "failed"}
    /\ dev \in {"none", "allocated", "registered", "freed"}
    /\ link \in {"down", "up", "closing"} /\ stopped \in BOOLEAN
    /\ skb \in [Packets -> {"unsent", "queued", "driver", "backlog", "through",
                        "dropped"}]
    /\ kfrees \in [Packets -> Nat]
    /\ xmit \in {"idle", "print", "kfree", "bytes", "packets", "rx_bytes",
                 "rx_packets", "netif_rx", "return"}
    /\ cur \in Packets \cup {None}
    /\ {txBytes, txPackets, rxBytes, rxPackets, ups} \subseteq Nat
    /\ reader \in {"idle", "rx", "tx", "done"}
    /\ seenRx \in Nat /\ seenTx \in Nat

Init ==
    /\ lab \in Labs /\ module = "out" /\ dev = "none"
    /\ link = "down" /\ stopped = FALSE /\ ups = 0
    /\ skb = [p \in Packets |-> "unsent"] /\ kfrees = [p \in Packets |-> 0]
    /\ xmit = "idle" /\ cur = None
    /\ txBytes = 0 /\ txPackets = 0 /\ rxBytes = 0 /\ rxPackets = 0
    /\ reader = "idle" /\ seenRx = 0 /\ seenTx = 0

-----------------------------------------------------------------------------
(* Loading and unloading *)

\* alloc_netdev calls my_setup: the operations and the statistics are set
\* before anybody knows of the device.
AllocNetdev ==
    /\ module = "out" /\ module' = "register"
    /\ dev' = "allocated"
    /\ UNCHANGED <<lab, linkVars, skbVars, xmit, cur, statVars, readVars>>

RegisterNetdev ==
    /\ module = "register"
    /\ \/ module' = "live" /\ dev' = "registered"
       \/ module' = "failed" /\ dev' = "freed"
    /\ UNCHANGED <<lab, linkVars, skbVars, xmit, cur, statVars, readVars>>

\* rmmod does not wait for the interface to be brought down.
MyExit ==
    /\ module = "live" /\ module' = "unregister"
    /\ UNCHANGED <<lab, dev, linkVars, skbVars, xmit, cur, statVars, readVars>>

\* Closed, with nobody reading it and nothing of it in the backlog.
UnregisterNetdev ==
    /\ module = "unregister" /\ module' = "free"
    /\ link = "down" /\ reader \in {"idle", "done"}
    /\ \A p \in Packets : skb[p] # "backlog"
    /\ dev' = "allocated"
    /\ UNCHANGED <<lab, linkVars, skbVars, xmit, cur, statVars, readVars>>

FreeNetdev ==
    /\ module = "free" /\ module' = "gone"
    /\ dev' = "freed"
    /\ UNCHANGED <<lab, linkVars, skbVars, xmit, cur, statVars, readVars>>

-----------------------------------------------------------------------------
(* The link *)

\* Mutant: open() leaves the queue as it is.
OpenNoStart ==
    /\ dev = "registered" /\ module = "live" /\ link = "down" /\ ups < MaxUps
    /\ link' = "up" /\ ups' = ups + 1
    /\ UNCHANGED <<devVars, stopped, skbVars, xmit, cur, statVars, readVars>>

\* ifconfig up: ndo_open starts the queue.
MyOpen ==
    /\ dev = "registered" /\ module = "live" /\ link = "down" /\ ups < MaxUps
    /\ link' = "up" /\ ups' = ups + 1
    /\ stopped' = FALSE
    /\ UNCHANGED <<devVars, skbVars, xmit, cur, statVars, readVars>>

\* ifconfig down, or rmmod: dev_deactivate waits for the transmission under
\* way and drops what is queued.
Deactivate ==
    /\ dev = "registered" /\ link = "up" /\ xmit = "idle"
    /\ link' = "closing"
    /\ skb' = [p \in Packets |->
                IF skb[p] = "queued" THEN "dropped" ELSE skb[p]]
    /\ kfrees' = [p \in Packets |->
                    kfrees[p] + (IF skb[p] = "queued" THEN 1 ELSE 0)]
    /\ UNCHANGED <<devVars, stopped, ups, xmit, cur, statVars, readVars>>

MyClose ==
    /\ link = "closing" /\ link' = "down"
    /\ stopped' = TRUE
    /\ UNCHANGED <<devVars, ups, skbVars, xmit, cur, statVars, readVars>>

-----------------------------------------------------------------------------
(* Transmission *)

\* ping
Send(p) ==
    /\ link = "up" /\ skb[p] = "unsent"
    /\ skb' = [skb EXCEPT ![p] = "queued"]
    /\ UNCHANGED <<devVars, linkVars, kfrees, xmit, cur, statVars, readVars>>

\* The core calls ndo_start_xmit.
StartXmit(p) ==
    /\ link = "up" /\ ~stopped /\ xmit = "idle" /\ skb[p] = "queued"
    /\ xmit' = "print" /\ cur' = p
    /\ skb' = [skb EXCEPT ![p] = "driver"]
    /\ UNCHANGED <<devVars, linkVars, kfrees, statVars, readVars>>

XmitTo(from, to) == xmit = from /\ xmit' = to

\* netif_trans_update, and the packet's bytes on the console.
PrintPacket ==
    /\ XmitTo("print", IF lab = "receive" THEN "bytes" ELSE "kfree")
    /\ UNCHANGED <<devVars, linkVars, skbVars, cur, statVars, readVars>>

\* Mutant: the stub as its comment describes it, it keeps the packet.
KeepSkb ==
    /\ XmitTo("kfree", IF lab = "transmit" THEN "bytes" ELSE "return")
    /\ UNCHANGED <<devVars, linkVars, skbVars, cur, statVars, readVars>>

DevKfreeSkb ==
    /\ XmitTo("kfree", IF lab = "transmit" THEN "bytes" ELSE "return")
    /\ skb' = [skb EXCEPT ![cur] = "through"]
    /\ kfrees' = [kfrees EXCEPT ![cur] = @ + 1]
    /\ UNCHANGED <<devVars, linkVars, cur, statVars, readVars>>

\* skb->len: of a packet that is through, whatever has become of its memory.
LengthRead ==
    IF skb[cur] = "through" THEN Packets \cup {0} ELSE {cur}

TxBytes ==
    /\ XmitTo("bytes", "packets")
    /\ \E n \in LengthRead : txBytes' = txBytes + n
    /\ UNCHANGED <<devVars, linkVars, skbVars, cur, txPackets, rxBytes>>
    /\ UNCHANGED <<rxPackets, readVars>>

\* Mutant: received before it is counted as sent.
TxPacketsLate ==
    /\ XmitTo("packets", IF lab = "receive" THEN "rx_bytes" ELSE "return")
    /\ txPackets' = txPackets + (IF lab = "receive" THEN 0 ELSE 1)
    /\ rxPackets' = rxPackets + (IF lab = "receive" THEN 1 ELSE 0)
    /\ UNCHANGED <<devVars, linkVars, skbVars, cur, txBytes, rxBytes>>
    /\ UNCHANGED readVars

TxPackets ==
    /\ XmitTo("packets", IF lab = "receive" THEN "rx_bytes" ELSE "return")
    /\ txPackets' = txPackets + 1
    /\ UNCHANGED <<devVars, linkVars, skbVars, cur, txBytes, rxBytes>>
    /\ UNCHANGED <<rxPackets, readVars>>

\* my_rx
RxBytes ==
    /\ XmitTo("rx_bytes", "rx_packets")
    /\ \E n \in LengthRead : rxBytes' = rxBytes + n
    /\ UNCHANGED <<devVars, linkVars, skbVars, cur, txBytes, txPackets>>
    /\ UNCHANGED <<rxPackets, readVars>>

RxPackets ==
    /\ XmitTo("rx_packets", "netif_rx")
    /\ rxPackets' = rxPackets + 1
    /\ UNCHANGED <<devVars, linkVars, skbVars, cur, txBytes, txPackets>>
    /\ UNCHANGED <<rxBytes, readVars>>

\* Into the backlog, or dropped there when it is full.
NetifRx ==
    /\ XmitTo("netif_rx", "return")
    /\ \/ /\ skb' = [skb EXCEPT ![cur] = "backlog"] /\ UNCHANGED kfrees
       \/ /\ skb' = [skb EXCEPT ![cur] = "through"]
          /\ kfrees' = [kfrees EXCEPT ![cur] = @ + 1]
    /\ UNCHANGED <<devVars, linkVars, cur, statVars, readVars>>

XmitReturn ==
    /\ XmitTo("return", "idle") /\ cur' = None
    /\ UNCHANGED <<devVars, linkVars, skbVars, statVars, readVars>>

MyStartXmit ==
    \/ PrintPacket \/ DevKfreeSkb \/ TxBytes \/ TxPackets
    \/ RxBytes \/ RxPackets \/ NetifRx \/ XmitReturn

\* The protocols receive the packet and free it.
Deliver(p) ==
    /\ skb[p] = "backlog"
    /\ skb' = [skb EXCEPT ![p] = "through"]
    /\ kfrees' = [kfrees EXCEPT ![p] = @ + 1]
    /\ UNCHANGED <<devVars, linkVars, xmit, cur, statVars, readVars>>

-----------------------------------------------------------------------------
(* ifconfig: dev_get_stats calls ndo_get_stats and copies the fields it     *)
(* points to, rx_packets first and tx_packets second.                      *)

MyGetStats ==
    /\ Counting /\ dev = "registered" /\ reader \in {"idle", "done"}
    /\ reader' = "rx"
    /\ UNCHANGED <<devVars, linkVars, skbVars, xmit, cur, statVars>>
    /\ UNCHANGED <<seenRx, seenTx>>

CopyRx ==
    /\ reader = "rx" /\ reader' = "tx" /\ seenRx' = rxPackets
    /\ UNCHANGED <<devVars, linkVars, skbVars, xmit, cur, statVars, seenTx>>

CopyTx ==
    /\ reader = "tx" /\ reader' = "done" /\ seenTx' = txPackets
    /\ UNCHANGED <<devVars, linkVars, skbVars, xmit, cur, statVars, seenRx>>

-----------------------------------------------------------------------------

Next ==
    \/ AllocNetdev \/ RegisterNetdev \/ MyExit \/ UnregisterNetdev
    \/ FreeNetdev
    \/ MyOpen \/ Deactivate \/ MyClose
    \/ MyStartXmit \/ MyGetStats \/ CopyRx \/ CopyTx
    \/ \E p \in Packets : Send(p) \/ StartXmit(p) \/ Deliver(p)

\* The core sends what is queued, one packet after the other; calls return.
Fairness ==
    /\ WF_vars(MyStartXmit) /\ WF_vars(MyClose)
    /\ WF_vars(CopyRx) /\ WF_vars(CopyTx)
    /\ \A p \in Packets : SF_vars(StartXmit(p)) /\ WF_vars(Deliver(p))

Spec == Init /\ [][Next]_vars /\ Fairness

-----------------------------------------------------------------------------
(* Properties *)

\* "Be careful not to create memory leaks!" (lab_receive.c): a packet is freed
\* once when it is through and never before, by the driver or by those it was
\* handed to, and the driver keeps none after its call.
SkbFreedOnce ==
    \A p \in Packets :
        /\ kfrees[p] = IF skb[p] \in {"through", "dropped"} THEN 1 ELSE 0
        /\ skb[p] = "driver" => xmit # "idle" /\ cur = p

Transmitted == {p \in Packets : skb[p] \in {"backlog", "through"}}

\* Of a set of packets, which are named by their lengths.
Bytes(ps) == UNION {{p} \X (1..p) : p \in ps}

\* Between two transmissions the counts are those of the packets sent, and the
\* loopback has received what it has sent, packet for packet and byte for
\* byte; in the middle of one reception lags behind, and so it does for
\* whoever copies the two counts without a lock.
StatsAgree ==
    /\ Counting /\ xmit = "idle" => txPackets = Cardinality(Transmitted)
    /\ lab = "receive" /\ xmit = "idle" =>
          /\ txBytes = Cardinality(Bytes(Transmitted))
          /\ rxPackets = txPackets /\ rxBytes = txBytes
    /\ reader = "done" => seenRx <= seenTx

\* What is queued for the device goes out and is freed, or is dropped when the
\* device is brought down, however often it was down before.
QueuedGoesOn ==
    \A p \in Packets : skb[p] = "queued" ~> skb[p] \in {"through", "dropped"}

\* lab_transmit.c counts the bytes of the packets sent, it means to: it reads
\* the length of a packet it has freed.  (Net_BytesAreThoseSent.cfg)
BytesAreThoseSent ==
    lab = "transmit" /\ xmit = "idle" =>
        txBytes = Cardinality(Bytes(Transmitted))
=============================================================================
