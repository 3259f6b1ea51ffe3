------------------------------ MODULE DriverLife ------------------------------
(***************************************************************************)
(* The life of a BPFHV device in the guest driver (driver/bpfhv.c): probe, *)
(* opening and closing the interface, the upgrade of the eBPF programs     *)
(* while traffic flows, and removal.                                       *)
(*                                                                         *)
(* Opening, closing and upgrading run under the rtnl lock, one at a time:  *)
(* "job" is the operation that holds it, "pc" the step it is at.  Against  *)
(* it run the transmit function and the transmit poll, the hypervisor, the *)
(* upgrade work, and the steps of probe and remove that hold no lock.      *)
(* What the programs do to a ring is the subject of the queue modules:     *)
(* here a program is loaded or not, and of some version.                   *)
(***************************************************************************)
EXTENDS Integers, FiniteSets

CONSTANTS
  NProgs,        \* programs of a device: 1 .. NProgs, read in this order
  Optional,      \* the programs that may be missing (prog_is_optional)
  Queues,        \* receive and transmit queues, each with a context
  HvFeatures,    \* sets of features a hypervisor may offer
  csum, gso,     \* parameters of the driver
  SetupFails,    \* how bpfhv_programs_setup may fail: a subset of
                 \* {"kmalloc", "first", "fixup", "late"}
  UserToggles,   \* features the user may switch on and off (ethtool)
  OpenFailsIn,   \* jobs whose bpfhv_open may fail: a subset of {"up", "upgrade"}
  UpgradeWhen,   \* phases in which the hypervisor asks for an upgrade: a
                 \* subset of {"early", "bound", "late"}
  LateWake,      \* may napi_disable return between the napi_complete of a poll
                 \* and the wake-up that follows?
  TxNapis,       \* values of the driver's parameter tx_napi
  LateIntr,      \* may an interrupt raised before the device was disabled be
                 \* handled when bpfhv_close has stopped the queues?
  MaxVersion     \* bound: upgrades the hypervisor asks for

Features == {"SG", "CSUM", "TSO", "LRO"}
Progs == 1 .. NProgs
Mandatory == Progs \ Optional

ASSUME LifeAssumption ==
  /\ NProgs \in Nat \ {0} /\ Optional \subseteq Progs /\ 1 \in Mandatory
  /\ Queues # {} /\ HvFeatures \subseteq SUBSET Features /\ HvFeatures # {}
  /\ {csum, gso, LateWake, LateIntr} \subseteq BOOLEAN
  /\ TxNapis \subseteq BOOLEAN
  /\ SetupFails \subseteq {"kmalloc", "first", "fixup", "late"}
  /\ OpenFailsIn \subseteq {"up", "upgrade"} /\ UserToggles \subseteq Features
  /\ UpgradeWhen \subseteq {"early", "bound", "late"}
  /\ MaxVersion \in Nat

VARIABLES
  drv,          \* how far probe or remove has come
  job, pc,      \* holder of the rtnl lock, and its next step
  failing,      \* bpfhv_close was called by a failing bpfhv_open
  progs,        \* version of each loaded program, 0 if NULL
  ctx,          \* version whose size each queue's context has, 0 if NULL
  ctx_size,     \* rx_ctx_size, tx_ctx_size: the version they were read from
  paddr,        \* queues whose context address the device was given
  nextp, ret,   \* bpfhv_programs_setup: next program; is ret 0?
  broken, running, active, \* bi->broken; netif_running; does the stack transmit?
  stopped,      \* are the transmit queues stopped?
  napi,         \* NAPI of the transmit and of the receive side
  waker,        \* a poll has yet to wake the queues, NAPI is completed
  irqs,         \* are the interrupt vectors set up?
  irq,          \* a transmit interrupt was raised and is not handled yet
  tx_napi,      \* parameter: does the transmit interrupt schedule NAPI?
  work,         \* upgrade_work
  netf, wanted, lro,  \* netdev->features, wanted_features, bi->lro
  layout,       \* values of bi->lro that the receive buffers were made with
  hw,           \* hypervisor: receive and transmit enabled
  ver, offer,   \* hypervisor: version and features of the device
  upgrade       \* hypervisor: BPFHV_STATUS_UPGRADE

setupVars == <<progs, ctx, ctx_size, paddr, nextp, ret>>
devVars   == <<broken, running, active, stopped, napi, waker>>
intrVars  == <<irqs, irq, tx_napi>>
featVars  == <<netf, wanted, lro, layout>>
hvVars    == <<hw, ver, offer, upgrade>>
vars == <<drv, job, pc, failing, setupVars, devVars, intrVars, work, featVars,
          hvVars>>

Versions == 0 .. MaxVersion + 1

TypeOK ==
  /\ drv \in {"unbound", "probe", "registered", "bound", "removing",
              "cancelled", "silenced", "unregistered"}
  /\ job \in {"none", "up", "down", "upgrade", "probe", "remove"}
  /\ pc \in {"-", "disable", "tx_off", "stop", "rx_off", "dealloc", "ready",
             "setup", "load", "done", "refill", "napi_on", "enable"}
  /\ progs \in [Progs -> Versions] /\ ctx \in [Queues -> Versions]
  /\ ctx_size \in Versions /\ paddr \subseteq Queues
  /\ nextp \in 1 .. NProgs + 1
  /\ napi \in [{"tx", "rx"} -> {"off", "idle", "sched"}]
  /\ {failing, ret, broken, running, active, stopped, waker, irqs, irq,
      tx_napi, lro, hw, upgrade} \subseteq BOOLEAN
  /\ work \in {"idle", "pending", "running", "rerun", "locked", "relock"}
  /\ netf \subseteq Features /\ wanted \subseteq Features
  /\ layout \subseteq BOOLEAN
  /\ ver \in Versions /\ offer \in HvFeatures

Init ==
  /\ drv = "unbound" /\ job = "none" /\ pc = "-" /\ failing = FALSE
  /\ progs = [p \in Progs |-> 0] /\ ctx = [q \in Queues |-> 0]
  /\ ctx_size = 0 /\ paddr = {} /\ nextp = 1 /\ ret = FALSE
  /\ broken = FALSE /\ running = FALSE /\ active = FALSE /\ stopped = TRUE
  /\ napi = [s \in {"tx", "rx"} |-> "off"] /\ waker = FALSE
  /\ irqs = FALSE /\ irq = FALSE /\ tx_napi \in TxNapis /\ work = "idle"
  /\ netf = {} /\ wanted = {} /\ lro = FALSE /\ layout = {}
  /\ hw = FALSE /\ ver = 1 /\ offer \in HvFeatures /\ upgrade = FALSE

-----------------------------------------------------------------------------
(***************************************************************************)
(* Features.                                                               *)
(***************************************************************************)
\* What driver and device support together.
bpfhv_hv_features ==
  offer \cap ({"SG"} \cup (IF csum THEN {"CSUM"} ELSE {})
                     \cup (IF csum /\ gso THEN {"TSO", "LRO"} ELSE {}))

\* TSO is only offered along with checksums.
bpfhv_features_init ==
  IF "CSUM" \in bpfhv_hv_features THEN bpfhv_hv_features
  ELSE bpfhv_hv_features \ {"TSO"}

bpfhv_fix_features(f) ==
  LET hv == bpfhv_hv_features
  IN  (f \cap hv) \ (IF "CSUM" \in hv THEN {} ELSE {"CSUM", "TSO"})

-----------------------------------------------------------------------------
(***************************************************************************)
(* bpfhv_programs_setup, run by probe and by the upgrade.                  *)
(***************************************************************************)
Unlocked == job = "none"
Step(j, p) == job' = j /\ pc' = p
Teardown ==
  /\ progs' = [p \in Progs |-> 0] /\ ctx' = [q \in Queues |-> 0]
  /\ paddr' = {}

\* No memory for the instructions: return -ENOMEM, nothing touched.
SetupNoMemory ==
  /\ pc = "setup" /\ "kmalloc" \in SetupFails
  /\ ret' = FALSE /\ pc' = "done"
  /\ UNCHANGED <<drv, job, failing, progs, ctx, ctx_size, paddr, nextp,
                 devVars, intrVars, work, featVars, hvVars>>

\* Free the old programs and contexts, read the new sizes; ret is -EIO.
SetupBegins ==
  /\ pc = "setup"
  /\ Teardown /\ ctx_size' = ver
  /\ ret' = FALSE /\ nextp' = 1 /\ pc' = "load"
  /\ UNCHANGED <<drv, job, failing, devVars, intrVars, work, featVars, hvVars>>

\* Read, fix up and load the next program; an optional one may be missing.
\* A successful fixup leaves ret at 0.
SetupLoads ==
  /\ pc = "load" /\ nextp <= NProgs
  /\ \/ /\ progs' = [progs EXCEPT ![nextp] = ver] /\ ret' = TRUE
     \/ /\ nextp \in Optional /\ UNCHANGED <<progs, ret>>
  /\ nextp' = nextp + 1
  /\ UNCHANGED <<drv, job, pc, failing, ctx, ctx_size, paddr, devVars,
                 intrVars, work, featVars, hvVars>>

\* One of the ways out: a bad length or a failing bpfhv_prog_alloc leave ret
\* as it is, -EIO before the first fixup ("first") and 0 after it ("late"); a
\* failing fixup sets it.
SetupFailsAt ==
  /\ pc = "load" /\ nextp <= NProgs
  /\ \E why \in SetupFails \ {"kmalloc"} :
       /\ why = "first" => ~ret
       /\ why = "late" => ret
       /\ ret' = (why = "late")
  /\ pc' = "done"
  /\ IF ret' THEN UNCHANGED <<progs, ctx, paddr>> ELSE Teardown
  /\ UNCHANGED <<drv, job, failing, ctx_size, nextp, devVars, intrVars, work,
                 featVars, hvVars>>

\* Allocate the contexts and tell the device; an allocation that fails
\* returns with ret at 0 as well.
SetupContexts ==
  /\ pc = "load" /\ nextp > NProgs
  /\ \E qs \in IF "late" \in SetupFails THEN SUBSET Queues ELSE {Queues} :
       /\ ctx' = [q \in Queues |-> IF q \in qs THEN ctx_size ELSE 0]
       /\ paddr' = qs
  /\ ret' = TRUE /\ pc' = "done"
  /\ UNCHANGED <<drv, job, failing, progs, ctx_size, nextp, devVars, intrVars,
                 work, featVars, hvVars>>

-----------------------------------------------------------------------------
(***************************************************************************)
(* bpfhv_open and bpfhv_close_carrier, steps of several jobs.              *)
(***************************************************************************)
\* bpfhv_resources_alloc posts receive buffers, laid out as bi->lro says, or
\* fails, which is undone at once.
OpenRefill ==
  /\ pc = "refill"
  /\ \/ pc' = "napi_on" /\ layout' = {lro} /\ UNCHANGED job
     \/ /\ job \in OpenFailsIn /\ Step("none", "-") /\ UNCHANGED layout
  /\ UNCHANGED <<drv, failing, setupVars, devVars, intrVars, work, netf,
                 wanted, lro, hvVars>>

OpenNapi ==
  /\ pc = "napi_on"
  /\ napi' = [s \in {"tx", "rx"} |-> "idle"] /\ pc' = "enable"
  /\ UNCHANGED <<drv, job, failing, setupVars, broken, running, active,
                 stopped, waker, intrVars, work, featVars, hvVars>>

\* Enable the device (it refuses if a context is missing) and look at the
\* status; start the queues or close again.
OpenEnable ==
  /\ pc = "enable"
  /\ \/ /\ paddr = Queues
        /\ hw' = TRUE /\ stopped' = FALSE
        /\ running' = TRUE /\ active' = TRUE
        /\ Step("none", "-") /\ UNCHANGED failing
     \/ /\ paddr # Queues \/ job \in OpenFailsIn
        /\ failing' = TRUE /\ pc' = "disable"
        /\ UNCHANGED <<job, hw, stopped, running, active>>
  /\ UNCHANGED <<drv, setupVars, broken, napi, waker, intrVars, work, featVars,
                 ver, offer, upgrade>>

\* "Disable transmit and receive in the hardware. From now on no interrupts
\* can be generated."
CloseDisable ==
  /\ pc = "disable"
  /\ hw' = FALSE /\ pc' = "tx_off"
  /\ UNCHANGED <<drv, job, failing, setupVars, devVars, intrVars, work,
                 featVars, ver, offer, upgrade>>

\* napi_disable waits for a poll, and for ever if NAPI is disabled.
NapiDisable(s) == napi[s] = "idle" /\ napi' = [napi EXCEPT ![s] = "off"]

CloseTxNapi ==
  /\ pc = "tx_off" /\ NapiDisable("tx") /\ pc' = "stop"
  /\ LateWake \/ ~waker
  /\ UNCHANGED <<drv, job, failing, setupVars, broken, running, active,
                 stopped, waker, intrVars, work, featVars, hvVars>>

\* netif_tx_disable.
CloseStop ==
  /\ pc = "stop" /\ stopped' = TRUE /\ pc' = "rx_off"
  /\ tx_napi \/ LateIntr \/ ~irq
  /\ UNCHANGED <<drv, job, failing, setupVars, broken, running, active, napi,
                 waker, intrVars, work, featVars, hvVars>>

CloseRxNapi ==
  /\ pc = "rx_off" /\ NapiDisable("rx") /\ pc' = "dealloc"
  /\ UNCHANGED <<drv, job, failing, setupVars, broken, running, active,
                 stopped, waker, intrVars, work, featVars, hvVars>>

\* bpfhv_resources_dealloc, and back to the caller: a failing bpfhv_open, the
\* upgrade, or the stack, which marks the interface as not running.
CloseReturns ==
  /\ pc = "dealloc"
  /\ CASE job = "upgrade" /\ failing -> Step("none", "-") /\ UNCHANGED running
       [] job = "upgrade" /\ ~failing -> Step(job, "ready") /\ UNCHANGED running
       [] job # "upgrade" -> Step("none", "-") /\ running' = FALSE
  /\ failing' = FALSE /\ layout' = {}
  /\ UNCHANGED <<drv, setupVars, broken, active, stopped, napi, waker,
                 intrVars, work, netf, wanted, lro, hvVars>>

-----------------------------------------------------------------------------
(***************************************************************************)
(* The user: ifconfig up, ifconfig down.                                   *)
(***************************************************************************)
Registered == drv \in {"registered", "bound", "removing", "cancelled",
                       "silenced"}

\* bpfhv_open of a broken device fails at once.
IfUp ==
  /\ Registered /\ Unlocked /\ ~running /\ ~broken
  /\ Step("up", "refill")
  /\ UNCHANGED <<drv, failing, setupVars, devVars, intrVars, work, featVars,
                 hvVars>>

\* Mutant of IfDown: bpfhv_close does not look at bi->broken.
IfDownAlways ==
  /\ Registered /\ Unlocked /\ running
  /\ active' = FALSE
  /\ Step("down", "disable")
  /\ UNCHANGED <<drv, failing, setupVars, broken, running, stopped, napi,
                 waker, intrVars, work, featVars, hvVars>>

\* dev_deactivate, then bpfhv_close; of a broken device only the former.
IfDown ==
  /\ Registered /\ Unlocked /\ running
  /\ active' = FALSE
  /\ IF broken THEN running' = FALSE /\ UNCHANGED <<job, pc>>
     ELSE Step("down", "disable") /\ UNCHANGED running
  /\ UNCHANGED <<drv, failing, setupVars, broken, stopped, napi, waker,
                 intrVars, work, featVars, hvVars>>

\* ethtool -K: netdev_update_features calls bpfhv_fix_features, which sets
\* bi->lro, and bpfhv_set_features, also while the interface is open.
bpfhv_set_features ==
  /\ Registered /\ Unlocked
  /\ \E f \in UserToggles :
       wanted' = IF f \in wanted THEN wanted \ {f} ELSE wanted \cup {f}
  /\ netf' = bpfhv_fix_features(wanted') /\ lro' = ("LRO" \in netf')
  /\ UNCHANGED <<drv, job, pc, failing, setupVars, devVars, intrVars, work,
                 layout, hvVars>>

-----------------------------------------------------------------------------
(***************************************************************************)
(* Transmit interrupt and poll.                                            *)
(***************************************************************************)
RaiseTxIntr ==
  /\ hw /\ irqs /\ ~irq /\ irq' = TRUE
  /\ UNCHANGED <<drv, job, pc, failing, setupVars, devVars, irqs, tx_napi,
                 work, featVars, hvVars>>

\* The handler schedules the poll (while one runs this waits for its end: it
\* is run again) or, without transmit NAPI, wakes the queue by itself.  It
\* may run when the device has already been disabled.
bpfhv_tx_intr ==
  /\ irq /\ irqs /\ irq' = FALSE
  /\ \/ /\ tx_napi /\ napi["tx"] # "sched"
        /\ napi' = [napi EXCEPT !["tx"] = IF @ = "idle" THEN "sched" ELSE @]
        /\ UNCHANGED stopped
     \/ ~tx_napi /\ stopped' = FALSE /\ UNCHANGED napi
  /\ UNCHANGED <<drv, job, pc, failing, setupVars, broken, running, active,
                 waker, irqs, tx_napi, work, featVars, hvVars>>

\* The poll runs to napi_complete ...
bpfhv_tx_poll ==
  /\ napi["tx"] = "sched" /\ napi' = [napi EXCEPT !["tx"] = "idle"]
  /\ waker' \in {waker, TRUE}
  /\ UNCHANGED <<drv, job, pc, failing, setupVars, broken, running, active,
                 stopped, intrVars, work, featVars, hvVars>>

\* ... and wakes the queue if there is room, when NAPI does not protect it any
\* more.
TxPollWake ==
  /\ waker /\ waker' = FALSE /\ stopped' = FALSE
  /\ UNCHANGED <<drv, job, pc, failing, setupVars, broken, running, active,
                 napi, intrVars, work, featVars, hvVars>>

\* bpfhv_start_xmit may find the ring full.
XmitStops ==
  /\ active /\ ~stopped /\ stopped' = TRUE
  /\ UNCHANGED <<drv, job, pc, failing, setupVars, broken, running, active,
                 napi, waker, intrVars, work, featVars, hvVars>>

-----------------------------------------------------------------------------
(***************************************************************************)
(* The upgrade.                                                            *)
(***************************************************************************)
Phase == CASE drv = "bound" -> "bound"
           [] drv = "cancelled" -> "late"
           [] OTHER -> "early"

\* Mutant of Scheduled: a work that runs is not queued again.
ScheduledOnce ==
  IF ~irqs THEN work ELSE IF work = "idle" THEN "pending" ELSE work

\* schedule_work, from the interrupt; without vectors the interrupt is lost.
Scheduled ==
  IF ~irqs THEN work
  ELSE CASE work = "idle" -> "pending"
         [] work = "running" -> "rerun"
         [] work = "locked" -> "relock"
         [] OTHER -> work

RequestUpgrade ==
  /\ drv \notin {"unbound", "unregistered"} /\ Phase \in UpgradeWhen
  /\ ~upgrade /\ ver <= MaxVersion
  /\ upgrade' = TRUE /\ work' = Scheduled
  /\ UNCHANGED <<drv, job, pc, failing, setupVars, devVars, intrVars, featVars,
                 hw, ver, offer>>

WorkDone == IF work \in {"rerun", "relock"} THEN "pending" ELSE "idle"

WorkStarts ==
  /\ work = "pending" /\ work' = IF upgrade THEN "running" ELSE "idle"
  /\ UNCHANGED <<drv, job, pc, failing, setupVars, devVars, intrVars, featVars,
                 hvVars>>

\* Mutant of UpgradeLocks: the interface is not closed.
UpgradeWhileOpen ==
  /\ work \in {"running", "rerun"} /\ Unlocked
  /\ work' = IF work = "running" THEN "locked" ELSE "relock"
  /\ Step("upgrade", "ready")
  /\ UNCHANGED <<drv, failing, setupVars, devVars, intrVars, featVars, hvVars>>

\* rtnl_lock; close what is open.  bpfhv_close of a broken device returns.
UpgradeLocks ==
  /\ work \in {"running", "rerun"} /\ Unlocked
  /\ work' = IF work = "running" THEN "locked" ELSE "relock"
  /\ Step("upgrade", IF running /\ ~broken THEN "disable" ELSE "ready")
  /\ UNCHANGED <<drv, failing, setupVars, devVars, intrVars, featVars, hvVars>>

\* BPFHV_CTRL_UPGRADE_READY: the hypervisor switches to the new programs.
UpgradeReady ==
  /\ pc = "ready" /\ pc' = "setup"
  /\ upgrade' = FALSE
  /\ ver' = IF upgrade THEN ver + 1 ELSE ver
  /\ IF upgrade THEN offer' \in HvFeatures ELSE UNCHANGED offer
  /\ UNCHANGED <<drv, job, failing, setupVars, devVars, intrVars, work,
                 featVars, hw>>

\* Mutant of UpgradeSetupDone: a failed upgrade goes on.
UpgradeIgnoresFailure ==
  /\ job = "upgrade" /\ pc = "done"
  /\ broken' = FALSE /\ netf' = bpfhv_fix_features(wanted)
  /\ lro' = ("LRO" \in netf')
  /\ Step(IF running THEN "upgrade" ELSE "none",
          IF running THEN "refill" ELSE "-")
  /\ UNCHANGED <<drv, failing, setupVars, running, active, stopped, napi,
                 waker, intrVars, work, wanted, layout, hvVars>>

UpgradeSetupDone ==
  /\ job = "upgrade" /\ pc = "done"
  /\ IF ret
     THEN /\ broken' = FALSE /\ netf' = bpfhv_fix_features(wanted)
          /\ lro' = ("LRO" \in netf')
          /\ Step(IF running THEN "upgrade" ELSE "none",
                  IF running THEN "refill" ELSE "-")
     ELSE broken' = TRUE /\ Step("none", "-") /\ UNCHANGED <<netf, lro>>
  /\ UNCHANGED <<drv, failing, setupVars, running, active, stopped, napi,
                 waker, intrVars, work, wanted, layout, hvVars>>

\* bpfhv_upgrade returns once it has dropped the lock.
UpgradeReturns ==
  /\ work \in {"locked", "relock"} /\ job # "upgrade"
  /\ work' = WorkDone
  /\ UNCHANGED <<drv, job, pc, failing, setupVars, devVars, intrVars, featVars,
                 hvVars>>

-----------------------------------------------------------------------------
(***************************************************************************)
(* Probe and remove.                                                       *)
(***************************************************************************)
\* PCI resources, features, then the programs; nothing is shared yet.
bpfhv_probe ==
  /\ drv = "unbound" /\ drv' = "probe"
  /\ broken' = FALSE
  /\ netf' = bpfhv_features_init /\ wanted' = netf' /\ lro' = ("LRO" \in netf')
  /\ Step("probe", "setup")
  /\ UNCHANGED <<failing, setupVars, running, active, stopped, napi, waker,
                 intrVars, work, layout, hvVars>>

\* register_netdev, which may fail, or the end of a probe that has failed.
ProbeSetupDone ==
  /\ job = "probe" /\ pc = "done"
  /\ Step("none", "-")
  /\ \/ ret /\ drv' = "registered" /\ UNCHANGED <<progs, ctx, paddr>>
     \/ ret /\ drv' = "unbound" /\ Teardown
     \/ ~ret /\ drv' = "unbound" /\ UNCHANGED <<progs, ctx, paddr>>
  /\ UNCHANGED <<failing, ctx_size, nextp, ret, devVars, intrVars, work,
                 featVars, hvVars>>

\* The interface can already be opened when the vectors are set up.
bpfhv_irqs_setup ==
  /\ drv = "registered"
  /\ \/ drv' = "bound" /\ irqs' = TRUE
     \/ drv' = "silenced" /\ UNCHANGED irqs
  /\ UNCHANGED <<job, pc, failing, setupVars, devVars, irq, tx_napi, work,
                 featVars, hvVars>>

bpfhv_remove ==
  /\ drv = "bound" /\ drv' = "removing"
  /\ UNCHANGED <<job, pc, failing, setupVars, devVars, intrVars, work,
                 featVars, hvVars>>

\* Mutant of RemoveCancels: the work is only taken off the queue.
CancelNoSync ==
  /\ drv = "removing" /\ drv' = "cancelled"
  /\ work' = IF work = "pending" THEN "idle" ELSE work
  /\ UNCHANGED <<job, pc, failing, setupVars, devVars, intrVars, featVars,
                 hvVars>>

\* cancel_work_sync.
RemoveCancels ==
  /\ drv = "removing" /\ work \in {"idle", "pending"}
  /\ drv' = "cancelled" /\ work' = "idle"
  /\ UNCHANGED <<job, pc, failing, setupVars, devVars, intrVars, featVars,
                 hvVars>>

\* free_irq waits for a handler that runs; none runs after it.
bpfhv_irqs_teardown ==
  /\ drv = "cancelled" /\ drv' = "silenced" /\ irqs' = FALSE /\ irq' = FALSE
  /\ UNCHANGED <<job, pc, failing, setupVars, devVars, tx_napi, work, featVars,
                 hvVars>>

\* unregister_netdev: close the interface first.
Unregister ==
  /\ drv = "silenced" /\ Unlocked
  /\ active' = FALSE
  /\ IF running /\ ~broken
     THEN Step("remove", "disable") /\ UNCHANGED <<drv, running>>
     ELSE drv' = "unregistered" /\ running' = FALSE /\ UNCHANGED <<job, pc>>
  /\ UNCHANGED <<failing, setupVars, broken, stopped, napi, waker, intrVars,
                 work, featVars, hvVars>>

\* bpfhv_programs_teardown, the mappings and the netdev.
RemoveFrees ==
  /\ drv = "unregistered" /\ drv' = "unbound"
  /\ Teardown
  /\ UNCHANGED <<job, pc, failing, ctx_size, nextp, ret, devVars, intrVars,
                 work, featVars, hvVars>>

-----------------------------------------------------------------------------
JobStep ==
  \/ SetupNoMemory \/ SetupBegins \/ SetupLoads \/ SetupFailsAt
  \/ SetupContexts \/ OpenRefill \/ OpenNapi \/ OpenEnable \/ CloseDisable
  \/ CloseTxNapi \/ CloseStop \/ CloseRxNapi \/ CloseReturns \/ UpgradeReady
  \/ UpgradeSetupDone \/ ProbeSetupDone

ProbeOrRemove ==
  \/ bpfhv_probe \/ bpfhv_irqs_setup \/ bpfhv_remove \/ RemoveCancels
  \/ bpfhv_irqs_teardown \/ Unregister \/ RemoveFrees

Traffic ==
  \/ RaiseTxIntr \/ bpfhv_tx_intr \/ bpfhv_tx_poll \/ TxPollWake
  \/ XmitStops

Next ==
  \/ JobStep \/ ProbeOrRemove \/ Traffic \/ IfUp \/ IfDown
  \/ bpfhv_set_features
  \/ RequestUpgrade \/ WorkStarts \/ UpgradeLocks \/ UpgradeReturns

Spec == Init /\ [][Next]_vars

\* The kernel runs queued work, goes on with the holder of a lock, and lets
\* every waiter for the rtnl lock have it; interrupts are handled, polls run.
FairSpec ==
  /\ Spec /\ WF_vars(JobStep) /\ WF_vars(bpfhv_tx_intr)
  /\ WF_vars(bpfhv_tx_poll) /\ WF_vars(TxPollWake)
  /\ WF_vars(WorkStarts) /\ SF_vars(UpgradeLocks) /\ WF_vars(UpgradeReturns)

-----------------------------------------------------------------------------
(***************************************************************************)
(* Properties.                                                             *)
(***************************************************************************)
Loaded(v) == /\ \A p \in Progs : progs[p] = v \/ (p \in Optional /\ progs[p] = 0)
             /\ \A q \in Queues : ctx[q] = v
             /\ paddr = Queues

Whole == \E v \in Versions \ {0} : Loaded(v)

\* Steps that run eBPF programs: refill, completion and reclaim.
RunsPrograms ==
  \/ pc \in {"refill", "napi_on", "enable", "disable", "tx_off", "stop",
             "rx_off", "dealloc"}
  \/ napi["tx"] = "sched" \/ (active /\ ~stopped)

\* No program is run that is not loaded, with a context that is not there or
\* belongs to other programs: not by opening or closing, not by a poll, and
\* not by the stack, which between the close and the reopening of an upgrade
\* is only held off by the stopped queues.  While the device is enabled they
\* are the programs of the hypervisor's version, never those of before an
\* upgrade.
ProgramsWhole == (RunsPrograms => Whole) /\ (hw => Loaded(ver))

\* The stop of netif_tx_disable lasts until the device is opened again: "this
\* must be done after disabling transmit NAPI, because the latter can call
\* netif_tx_wake_queue(), and thus undo the stop".
StopLasts ==
  pc \in {"rx_off", "dealloc", "ready", "setup", "load", "done", "refill",
          "napi_on"} /\ active => stopped

\* napi_enable and napi_disable alternate, whatever fails in between: neither
\* the kernel's assertion in the one nor the endless wait in the other.
NapiBalanced ==
  /\ pc = "napi_on" => \A s \in {"tx", "rx"} : napi[s] = "off"
  /\ pc = "tx_off" => napi["tx"] # "off"
  /\ pc = "rx_off" => napi["rx"] # "off"

\* A buffer is taken apart the way it was put together: rx_pkt_alloc and
\* bpfhv_rx_refill both look at bi->lro, which must not change while there are
\* buffers in the ring.
LayoutAgrees == layout \subseteq {lro}

\* When the driver has let go of the device nothing of it is left: no program,
\* no context address in the device, no upgrade work under way.
NothingLeft ==
  drv = "unbound" =>
    /\ \A p \in Progs : progs[p] = 0
    /\ paddr = {} /\ work = "idle" /\ ~hw
    /\ napi = [s \in {"tx", "rx"} |-> "off"]

\* An upgrade whose interrupt reached the driver is carried out, also when it
\* comes in the middle of another, unless the driver is removed.
UpgradeServed == (upgrade /\ work # "idle") ~> (~upgrade \/ drv # "bound")
=============================================================================
