----------------------------- MODULE LoadOrders -----------------------------
(***************************************************************************)
(* What each driver's init does, stage by stage, what it undoes when a     *)
(* stage fails, and what its exit does.                                    *)
(*                                                                         *)
(*   "plain"     lab_char.c, improve_char_driver.c  a number of its own    *)
(*   "dynamic"   lab_dynamic.c        the number is allocated              *)
(*   "udev"      lab_dynamic_udev.c and the headers lab_char.h and         *)
(*               generic_char_driver.h, in five chapters                   *)
(*   "misc"      lab_misc.c and the headers lab_miscdev.h, misc_dev.h and  *)
(*               generic_misc_dev.h, in seven chapters                     *)
(*   "samplemisc" sample_misc_driver.c                                     *)
(*   "memory"    memory_allocation.c  a buffer for each open file          *)
(*   "cache"     lab_cache.c          the buffer comes from a slab cache   *)
(*   "sample"    sample_char_driver.c nothing is checked while loading     *)
(*   "fwchar"    lab_firmware_chardev.c, on top of "udev"                  *)
(*   "queue"     lab_workqueue_private.c, lab_workqueue_newapi.c           *)
(*   "dma"       basic_dma.c                                               *)
(*   "firmware"  lab_firmware.c                                            *)
(*   "uio"       lab_uio_api.c                                             *)
(*   "kprobes", "hrkprobes"  lab_kprobes.c, lab_kprobes_hrtimer.c          *)
(*   "kset", "kobject"       kset_example.c, kobject_example.c             *)
(*   "platform", "usb"       lab_platform.c, lab_usb.c                     *)
(***************************************************************************)
EXTENDS Sequences

Stage(thing, fails, undo) == [thing |-> thing, fails |-> fails, undo |-> undo]

\* The driver does not look whether it fails, and cannot do without it.
Get(thing) == Stage(thing, "never", <<>>)

\* It looks, undoes what is listed, in this order, and the load has failed.
Try(thing, undo) == Stage(thing, "stop", undo)

\* It does not look, and goes on without it.
Hope(thing) == Stage(thing, "ignored", <<>>)

\* The stage releases a thing that an earlier one got.
Put(thing) == Stage(thing, "put", <<>>)

\* Mutant: the undoing of a failed cdev_add forgets the region.
CdevInitKeepRegion ==
    << Try("region", <<>>), Try("cdev", <<"region">>), Get("ramdisk"),
       Try("map", <<"cdev", "ramdisk">>) >>

\* "cdev" is the cdev that cdev_alloc returns, as a thing that is registered.
\* cdev_init makes it one whose release does not kfree it: the object's own
\* few bytes are not in the model.
CdevInit ==
    << Try("region", <<>>), Try("cdev", <<"region">>), Get("ramdisk"),
       Try("map", <<"cdev", "region", "ramdisk">>) >>

\* Mutant: the ramdisk first.
CdevExitRamdiskFirst == <<"ramdisk", "cdev", "region">>

CdevExit == <<"cdev", "region", "ramdisk">>

UdevInit == CdevInit \o <<Get("class"), Get("device")>>
UdevExit == <<"device", "class">> \o CdevExit

MiscInit == <<Get("ramdisk"), Try("misc", <<"ramdisk">>)>>
MiscExit == <<"misc", "ramdisk">>

MemoryInit ==
    << Try("region", <<>>), Try("cdev", <<"region">>),
       Try("map", <<"cdev", "region">>) >>
MemoryExit == <<"cdev", "region">>

CacheInit ==
    << Try("cache", <<>>), Try("region", <<"cache">>),
       Try("cdev", <<"region", "cache">>),
       Try("map", <<"cdev", "region", "cache">>),
       Get("class"), Get("device") >>
CacheExit == <<"device", "class", "cdev", "region", "cache">>

SampleInit == <<Get("ramdisk"), Hope("region"), Get("cdev"), Hope("map")>>
SampleExit == <<"cdev", "region", "ramdisk">>

FwcharInit == UdevInit \o <<Try("firmware", <<>>)>>
FwcharExit == <<"firmware">> \o UdevExit

QueueInit == <<Get("queue")>> \o MiscInit
QueueExit == <<"queue">> \o MiscExit

\* setup_dma_mask allocates the device's mask and sets its width, and undoes
\* nothing when it fails to.  Then three ways to get memory for DMA are tried
\* out, one after the other; the pool's buffer is given back even if there was
\* none.
DmaInit ==
    MiscInit \o
    << Try("mask", <<>>), Try("width", <<>>),
       Get("coherent"), Put("coherent"),
       Get("kbuf"), Get("mapping"), Put("mapping"), Put("kbuf"),
       Get("pool"), Hope("poolbuf"), Put("poolbuf"), Put("pool") >>
DmaExit == MiscExit

FirmwareInit == <<Try("fwdev", <<>>), Try("firmware", <<"fwdev">>)>>
FirmwareExit == <<"firmware", "fwdev">>

\* The device (its memory and its registration), the uio_info, the UIO device.
UioInit ==
    << Get("devmem"), Try("uiodev", <<"devmem">>), Get("info"),
       Try("uio", <<"uiodev", "devmem", "info">>) >>
UioExit == <<"uio", "uiodev", "info", "devmem">>

KprobesInit ==
    << Try("add", <<>>), Try("mod", <<"add">>), Try("del", <<"add", "mod">>),
       Try("del_sync", <<"add", "mod", "del">>) >>
KprobesExit == <<"mod", "add", "del", "del_sync">>

HrkprobesInit ==
    << Try("start", <<>>), Try("forward", <<"start">>),
       Try("cancel", <<"start", "forward">>) >>
HrkprobesExit == <<"forward", "start", "cancel">>

KsetInit ==
    << Try("kset", <<>>), Try("foo", <<"kset">>),
       Try("bar", <<"foo", "kset">>),
       Try("baz", <<"bar", "foo", "kset">>) >>
KsetExit == <<"baz", "bar", "foo", "kset">>

KobjectInit == <<Try("kobject", <<>>), Try("group", <<"kobject">>)>>
KobjectExit == <<"kobject">>

PlatformInit == <<Try("platform", <<>>)>>
PlatformExit == <<"platform">>

UsbInit == <<Try("usb", <<>>)>>
UsbExit == <<"usb">>

InitOrder ==
    [plain |-> CdevInit, dynamic |-> CdevInit, udev |-> UdevInit,
     misc |-> MiscInit, samplemisc |-> MiscInit,
     memory |-> MemoryInit, cache |-> CacheInit, sample |-> SampleInit,
     fwchar |-> FwcharInit, queue |-> QueueInit, dma |-> DmaInit,
     firmware |-> FirmwareInit, uio |-> UioInit, kprobes |-> KprobesInit,
     hrkprobes |-> HrkprobesInit, kset |-> KsetInit, kobject |-> KobjectInit,
     platform |-> PlatformInit, usb |-> UsbInit]

ExitOrder ==
    [plain |-> CdevExit, dynamic |-> CdevExit, udev |-> UdevExit,
     misc |-> MiscExit, samplemisc |-> MiscExit,
     memory |-> MemoryExit, cache |-> CacheExit, sample |-> SampleExit,
     fwchar |-> FwcharExit, queue |-> QueueExit, dma |-> DmaExit,
     firmware |-> FirmwareExit, uio |-> UioExit, kprobes |-> KprobesExit,
     hrkprobes |-> HrkprobesExit, kset |-> KsetExit, kobject |-> KobjectExit,
     platform |-> PlatformExit, usb |-> UsbExit]

Drivers == DOMAIN InitOrder

\* What the kernel releases along with a thing: cdev_del takes the device
\* number's map away, a kobject its files.
Parts(thing) ==
    CASE thing = "cdev" -> {"map"}
      [] thing = "kobject" -> {"group"}
      [] OTHER -> {}

\* What must be there as long as a thing is: what the kernel or a process
\* reaches through it.
Needs(lab, thing) ==
    CASE thing = "map" ->
            {"cdev", "region"} \cup
            (IF lab \in {"memory", "cache"} THEN {} ELSE {"ramdisk"})
      [] thing = "misc" -> {"ramdisk"}
      [] thing = "width" -> {"mask"}
      [] thing = "device" -> {"class", "map"}
      [] thing = "firmware" -> IF lab = "fwchar" THEN {"device"} ELSE {"fwdev"}
      [] thing = "uiodev" -> {"devmem"}
      [] thing = "uio" -> {"uiodev", "info"}
      [] thing \in {"coherent", "pool"} -> {"misc"}
      [] thing = "mapping" -> {"kbuf"}
      [] thing = "poolbuf" -> {"pool"}
      [] thing \in {"foo", "bar", "baz"} -> {"kset"}
      [] thing = "group" -> {"kobject"}
      [] OTHER -> {}
=============================================================================
