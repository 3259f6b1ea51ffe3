--------------------------- MODULE DriverLifeProofs ---------------------------
(***************************************************************************)
(* The safety of opening, closing, upgrading and removing a device, for    *)
(* every number of programs, queues, features and upgrades.                *)
(***************************************************************************)
EXTENDS DriverLife, TLAPS

(***************************************************************************)
(* No upgrade is announced between cancel_work_sync and the teardown of    *)
(* the vectors: it would run on a device that is gone.  The other ways out *)
(* of the code that break a property (README, section 4) are hypotheses of *)
(* the theorems they matter to: bpfhv_programs_setup that fails with ret   *)
(* at 0 ("late"), the wake-up of a poll after napi_disable (LateWake), the *)
(* wake-up of an interrupt handled late (LateIntr) without transmit NAPI,  *)
(* and an upgrade whose bpfhv_open fails, which leaves a running interface *)
(* with NAPI disabled.                                                     *)
(***************************************************************************)
CancelIsFinal == "late" \notin UpgradeWhen

NoLateWakeUp == ~LateWake /\ (~LateIntr \/ FALSE \notin TxNapis)

ReopenMayFail == "upgrade" \in OpenFailsIn \/ "late" \in SetupFails

Opening == {"refill", "napi_on", "enable"}
Closing == {"disable", "tx_off", "stop", "rx_off", "dealloc"}
Setup   == {"setup", "load", "done"}

\* Which step belongs to which holder of the lock.
JobInv ==
  /\ job \in {"none", "up", "down", "upgrade", "probe", "remove"}
  /\ pc \in {"-", "ready"} \cup Opening \cup Closing \cup Setup
  /\ job = "none" <=> pc = "-"
  /\ job = "probe" <=> drv = "probe"
  /\ job = "probe" => pc \in Setup
  /\ job = "up" => pc \in Opening \/ (pc \in Closing /\ failing)
  /\ job \in {"down", "remove"} => pc \in Closing
  /\ failing => /\ job = "up" \/ (job = "upgrade" /\ ReopenMayFail)
                /\ pc \in Closing
  /\ job \in {"up", "down", "remove"} => Registered

\* The upgrade work runs only between the setup of the vectors and
\* cancel_work_sync, hence only on a registered device.
WorkInv ==
  /\ irqs <=> drv \in {"bound", "removing", "cancelled"}
  /\ work # "idle" => drv \in {"bound", "removing"}
  /\ job = "upgrade" => work \in {"locked", "relock"}

\* What running, broken and the enabled device say of the step.
RunInv ==
  /\ running => Registered
  /\ active => running
  /\ job = "up" => ~running
  /\ job \in {"down", "remove"} => running /\ ~active
  /\ pc \in Opening \cup Closing => ~broken
  /\ drv = "probe" => ~broken
  /\ hw => running /\ ~broken /\ pc \in {"-", "disable"}

NapiIs(tx, rx) == (tx <=> napi["tx"] # "off") /\ (rx <=> napi["rx"] # "off")

\* NAPI is on exactly while the interface is open, the transmit side a little
\* shorter (after a failed reopening it is off, and the next close waits for
\* ever); a wake-up is owed only under it, or by an interrupt that comes before
\* the stop; and while the stack may transmit through programs that are being
\* replaced, the queues are stopped.
NapiInv ==
  /\ napi \in [{"tx", "rx"} -> {"off", "idle", "sched"}]
  /\ pc = "enable" => NapiIs(TRUE, TRUE)
  /\ pc \in {"disable", "tx_off"} \/ (pc = "-" /\ running /\ ~broken)
       => NapiIs(TRUE, TRUE) \/ (ReopenMayFail /\ NapiIs(FALSE, FALSE))
  /\ pc \in {"stop", "rx_off"} => NapiIs(FALSE, TRUE)
  /\ pc \in {"dealloc", "ready", "refill", "napi_on"} \cup Setup
       => NapiIs(FALSE, FALSE)
  /\ pc = "-" /\ ~(running /\ ~broken) => NapiIs(FALSE, FALSE)
  /\ NoLateWakeUp =>
       /\ ~LateWake /\ (LateIntr => tx_napi)
       /\ waker => napi["tx"] # "off"
       /\ irq /\ ~tx_napi => hw \/ pc \in {"tx_off", "stop"}
       /\ active /\ (broken \/ pc \in {"rx_off", "dealloc", "ready", "refill",
                                       "napi_on"} \cup Setup) => stopped

NothingLoaded == (\A p \in Progs : progs[p] = 0) /\ paddr = {}

\* A device that is not broken has the programs and contexts of the
\* hypervisor's version, except while they are being set up.
LoadInv ==
  /\ progs \in [Progs -> Versions]
  /\ ver \in 1 .. MaxVersion + 1 /\ (upgrade => ver <= MaxVersion)
  /\ pc = "load" =>
       /\ ctx_size = ver /\ nextp \in 1 .. NProgs + 1 /\ paddr = {}
       /\ \A p \in Progs :
            IF p < nextp THEN progs[p] = ver \/ (p \in Optional /\ progs[p] = 0)
            ELSE progs[p] = 0
  /\ "late" \notin SetupFails =>
       /\ pc = "done" /\ ret => Loaded(ver)
       /\ Registered /\ ~broken /\ pc \notin Setup => Loaded(ver)
  /\ drv = "unbound" => NothingLoaded
  /\ drv = "probe" /\ (pc = "setup" \/ (pc = "done" /\ ~ret)) => NothingLoaded

LroOffered == "LRO" \in offer /\ csum /\ gso

\* The feature that the buffer layout depends on follows from what the user
\* wants and the hypervisor offers, which only an upgrade changes; there are
\* receive buffers only while the interface is open.
LayoutInv ==
  /\ drv = "probe" \/ (Registered /\ ~broken /\ pc \notin Setup)
       => lro = ("LRO" \in wanted /\ LroOffered)
  /\ layout # {} =>
       /\ layout = {lro}
       /\ \/ pc \in {"napi_on", "enable"} \cup Closing
          \/ pc = "-" /\ running /\ ~broken

LifeInv == JobInv /\ WorkInv /\ RunInv /\ NapiInv /\ LoadInv

USE DEF setupVars, devVars, intrVars, featVars, hvVars

\* Before the driver is bound nothing is loaded, open or scheduled.
LEMMA InitLife == Init => LifeInv /\ LayoutInv
<1> SUFFICES ASSUME Init PROVE LifeInv /\ LayoutInv
  OBVIOUS
<1>1. NoLateWakeUp => ~LateWake /\ (LateIntr => tx_napi)
  BY LifeAssumption, Zenon DEF Init, NoLateWakeUp
<1>2. NapiInv
  BY <1>1 DEF Init, NapiInv, NapiIs, Setup
<1>3. JobInv /\ WorkInv /\ RunInv /\ LayoutInv
  BY DEF Init, JobInv, WorkInv, RunInv, LayoutInv, Opening, Closing, Setup,
     Registered
<1>4. LoadInv
  BY LifeAssumption DEF Init, LoadInv, NothingLoaded, Progs, Versions, Setup,
     Registered
<1> QED BY <1>2, <1>3, <1>4 DEF LifeInv

\* Every step of the lock's holder, of probe and remove, of the user, of the
\* hypervisor and of the traffic keeps the invariant.
LEMMA KeepsLife == CancelIsFinal /\ LifeInv /\ [Next]_vars => LifeInv'
<1> SUFFICES ASSUME CancelIsFinal, LifeInv, [Next]_vars PROVE LifeInv'
  OBVIOUS
<1> USE DEF CancelIsFinal, LifeInv, JobInv, WorkInv, RunInv, NapiInv, NapiIs,
        ReopenMayFail, LoadInv, Loaded, NothingLoaded, Opening, Closing, Setup,
        Registered, Unlocked, Step, Progs, Versions
\* bpfhv_programs_setup: programs and contexts are replaced together, or the
\* device is broken.
<1>1. CASE SetupNoMemory
  BY <1>1 DEF SetupNoMemory
<1>2. CASE SetupBegins
  BY <1>2, LifeAssumption DEF SetupBegins, Teardown
<1>3. CASE SetupLoads
  BY <1>3, LifeAssumption, SMTT(30) DEF SetupLoads
<1>4. CASE SetupFailsAt
  <2>1. CASE ret'
    BY <1>4, <2>1, LifeAssumption DEF SetupFailsAt
  <2>2. CASE ~ret'
    BY <1>4, <2>2, LifeAssumption DEF SetupFailsAt, Teardown
  <2> QED BY <2>1, <2>2
<1>5. CASE SetupContexts
  BY <1>5, LifeAssumption DEF SetupContexts
\* bpfhv_open and bpfhv_close: a close leaves what the next open needs.
<1>6. CASE OpenRefill
  BY <1>6 DEF OpenRefill
<1>7. CASE OpenNapi
  BY <1>7 DEF OpenNapi
<1>8. CASE OpenEnable
  BY <1>8 DEF OpenEnable
<1>9. CASE CloseDisable
  BY <1>9 DEF CloseDisable
<1>10. CASE CloseTxNapi
  BY <1>10 DEF CloseTxNapi, NapiDisable
<1>11. CASE CloseStop
  BY <1>11 DEF CloseStop
<1>12. CASE CloseRxNapi
  BY <1>12 DEF CloseRxNapi, NapiDisable
<1>13. CASE CloseReturns
  <2>1. CASE job = "upgrade" /\ failing
    BY <1>13, <2>1 DEF CloseReturns
  <2>2. CASE job = "upgrade" /\ ~failing
    BY <1>13, <2>2 DEF CloseReturns
  <2>3. CASE job # "upgrade"
    BY <1>13, <2>3 DEF CloseReturns
  <2> QED BY <2>1, <2>2, <2>3
\* The upgrade.
<1>14. CASE RequestUpgrade
  BY <1>14, LifeAssumption DEF RequestUpgrade, Scheduled, Phase
<1>15. CASE WorkStarts
  BY <1>15 DEF WorkStarts
<1>16. CASE UpgradeLocks
  BY <1>16 DEF UpgradeLocks
<1>17. CASE UpgradeReady
  BY <1>17, LifeAssumption DEF UpgradeReady
<1>18. CASE UpgradeSetupDone
  BY <1>18 DEF UpgradeSetupDone
<1>19. CASE UpgradeReturns
  BY <1>19 DEF UpgradeReturns, WorkDone
\* Probe and remove.
<1>20. CASE bpfhv_probe
  BY <1>20 DEF bpfhv_probe
<1>21. CASE ProbeSetupDone
  BY <1>21, LifeAssumption DEF ProbeSetupDone, Teardown
<1>22. CASE bpfhv_irqs_setup
  BY <1>22 DEF bpfhv_irqs_setup
<1>23. CASE bpfhv_remove
  BY <1>23 DEF bpfhv_remove
<1>24. CASE RemoveCancels
  BY <1>24 DEF RemoveCancels
<1>25. CASE bpfhv_irqs_teardown
  BY <1>25 DEF bpfhv_irqs_teardown
<1>26. CASE Unregister
  BY <1>26 DEF Unregister
<1>27. CASE RemoveFrees
  BY <1>27, LifeAssumption DEF RemoveFrees, Teardown
\* The user and the traffic.
<1>28. CASE IfUp
  BY <1>28 DEF IfUp
<1>29. CASE IfDown
  BY <1>29 DEF IfDown
<1>30. CASE bpfhv_set_features
  BY <1>30 DEF bpfhv_set_features
<1>31. CASE bpfhv_tx_intr
  BY <1>31 DEF bpfhv_tx_intr
<1>32. CASE bpfhv_tx_poll
  BY <1>32 DEF bpfhv_tx_poll
<1>33. CASE TxPollWake
  BY <1>33 DEF TxPollWake
<1>34. CASE XmitStops
  BY <1>34 DEF XmitStops
<1>35. CASE RaiseTxIntr
  BY <1>35 DEF RaiseTxIntr
<1>36. CASE UNCHANGED vars
  BY <1>36 DEF vars
<1> QED BY <1>1, <1>2, <1>3, <1>4, <1>5, <1>6, <1>7, <1>8, <1>9, <1>10,
     <1>11, <1>12, <1>13, <1>14, <1>15, <1>16, <1>17, <1>18, <1>19, <1>20,
     <1>21, <1>22, <1>23, <1>24, <1>25, <1>26, <1>27, <1>28, <1>29, <1>30,
     <1>31, <1>32, <1>33, <1>34, <1>35, <1>36 DEF Next, JobStep, ProbeOrRemove,
     Traffic

\* The layout of the receive buffers changes only while there are none.
LEMMA KeepsLayout ==
  ASSUME CancelIsFinal, "LRO" \notin UserToggles,
         LifeInv, LayoutInv, [Next]_vars
  PROVE  LayoutInv'
<1> USE DEF CancelIsFinal, LifeInv, JobInv, WorkInv, RunInv, LayoutInv,
        LroOffered, Opening, Closing, Setup, Registered, Unlocked, Step
\* What the user wants and the hypervisor offers decides.
<1>1. CASE bpfhv_probe
  BY <1>1 DEF bpfhv_probe, bpfhv_features_init, bpfhv_hv_features
<1>2. CASE bpfhv_set_features
  BY <1>2 DEF bpfhv_set_features, bpfhv_fix_features, bpfhv_hv_features
<1>3. CASE UpgradeSetupDone
  BY <1>3 DEF UpgradeSetupDone, bpfhv_fix_features, bpfhv_hv_features
\* The offer changes while there is no receive buffer.
<1>4. CASE UpgradeReady
  BY <1>4 DEF UpgradeReady
\* Receive buffers come with the open and go with the close.
<1>5. CASE OpenRefill
  BY <1>5 DEF OpenRefill
<1>6. CASE CloseReturns
  BY <1>6 DEF CloseReturns
\* The others touch neither features nor buffers.
<1>7. CASE SetupNoMemory
  BY <1>7 DEF SetupNoMemory
<1>8. CASE SetupBegins
  BY <1>8 DEF SetupBegins, Teardown
<1>9. CASE SetupLoads
  BY <1>9 DEF SetupLoads
<1>10. CASE SetupFailsAt
  BY <1>10 DEF SetupFailsAt, Teardown
<1>11. CASE SetupContexts
  BY <1>11 DEF SetupContexts
<1>12. CASE OpenNapi
  BY <1>12 DEF OpenNapi
<1>13. CASE OpenEnable
  BY <1>13 DEF OpenEnable
<1>14. CASE CloseDisable
  BY <1>14 DEF CloseDisable
<1>15. CASE CloseTxNapi
  BY <1>15 DEF CloseTxNapi, NapiDisable
<1>16. CASE CloseStop
  BY <1>16 DEF CloseStop
<1>17. CASE CloseRxNapi
  BY <1>17 DEF CloseRxNapi, NapiDisable
<1>18. CASE RequestUpgrade
  BY <1>18 DEF RequestUpgrade, Scheduled, Phase
<1>19. CASE WorkStarts
  BY <1>19 DEF WorkStarts
<1>20. CASE UpgradeLocks
  BY <1>20 DEF UpgradeLocks
<1>21. CASE UpgradeReturns
  BY <1>21 DEF UpgradeReturns, WorkDone
<1>22. CASE ProbeSetupDone
  BY <1>22 DEF ProbeSetupDone, Teardown
<1>23. CASE bpfhv_irqs_setup
  BY <1>23 DEF bpfhv_irqs_setup
<1>24. CASE bpfhv_remove
  BY <1>24 DEF bpfhv_remove
<1>25. CASE RemoveCancels
  BY <1>25 DEF RemoveCancels
<1>26. CASE bpfhv_irqs_teardown
  BY <1>26 DEF bpfhv_irqs_teardown
<1>27. CASE Unregister
  BY <1>27 DEF Unregister
<1>28. CASE RemoveFrees
  BY <1>28 DEF RemoveFrees, Teardown
<1>29. CASE IfUp
  BY <1>29 DEF IfUp
<1>30. CASE IfDown
  BY <1>30 DEF IfDown
<1>31. CASE bpfhv_tx_intr
  BY <1>31 DEF bpfhv_tx_intr
<1>32. CASE bpfhv_tx_poll
  BY <1>32 DEF bpfhv_tx_poll
<1>33. CASE TxPollWake
  BY <1>33 DEF TxPollWake
<1>34. CASE XmitStops
  BY <1>34 DEF XmitStops
<1>35. CASE RaiseTxIntr
  BY <1>35 DEF RaiseTxIntr
<1>36. CASE UNCHANGED vars
  BY <1>36 DEF vars
<1> QED BY <1>1, <1>2, <1>3, <1>4, <1>5, <1>6, <1>7, <1>8, <1>9, <1>10,
     <1>11, <1>12, <1>13, <1>14, <1>15, <1>16, <1>17, <1>18, <1>19, <1>20,
     <1>21, <1>22, <1>23, <1>24, <1>25, <1>26, <1>27, <1>28, <1>29, <1>30,
     <1>31, <1>32, <1>33, <1>34, <1>35, <1>36 DEF Next, JobStep, ProbeOrRemove,
     Traffic

-----------------------------------------------------------------------------
\* The inductive invariant, for every behaviour.
LEMMA LifeInvHolds == ASSUME CancelIsFinal PROVE Spec => []LifeInv
<1>1. Init => LifeInv
  BY InitLife
<1>2. LifeInv /\ [Next]_vars => LifeInv'
  BY KeepsLife
<1> QED BY <1>1, <1>2, PTL DEF Spec

(***************************************************************************)
(* bpfhv_open, bpfhv_close, bpfhv_tx_poll and bpfhv_start_xmit run eBPF     *)
(* programs only when all of them are loaded, with contexts of the same    *)
(* version, also while bpfhv_upgrade replaces them under a running stack;  *)
(* an enabled device runs the hypervisor's version.                        *)
(***************************************************************************)
THEOREM ProgramsWholeHolds ==
  ASSUME CancelIsFinal, "late" \notin SetupFails, NoLateWakeUp
  PROVE  Spec => []ProgramsWhole
<1>1. LifeInv => ProgramsWhole
  <2> SUFFICES ASSUME LifeInv PROVE ProgramsWhole
    OBVIOUS
  <2> USE DEF LifeInv, JobInv, WorkInv, RunInv, Opening, Closing, Setup,
          Registered
  <2>1. ver \in Versions \ {0}
    BY LifeAssumption DEF LoadInv, Versions
  \* Whoever runs programs does so on a registered device that is not broken.
  <2>2. RunsPrograms => Registered /\ ~broken /\ pc \notin Setup
    BY DEF RunsPrograms, NapiInv, NapiIs
  <2>3. RunsPrograms => Loaded(ver)
    BY <2>2 DEF LoadInv
  <2>4. hw => Loaded(ver)
    BY DEF LoadInv
  <2> QED BY <2>1, <2>3, <2>4 DEF ProgramsWhole, Whole
<1> QED BY LifeInvHolds, <1>1, PTL

(***************************************************************************)
(* bpfhv_open never enables NAPI twice and bpfhv_close never waits for an  *)
(* instance that is already disabled, whatever has failed before.          *)
(***************************************************************************)
THEOREM NapiBalancedHolds ==
  ASSUME CancelIsFinal, ~ReopenMayFail
  PROVE  Spec => []NapiBalanced
<1>1. LifeInv => NapiBalanced
  BY DEF LifeInv, NapiInv, NapiIs, NapiBalanced, Setup
<1> QED BY LifeInvHolds, <1>1, PTL

(***************************************************************************)
(* bpfhv_remove, or a bpfhv_probe that fails, leaves no program, context   *)
(* address, NAPI instance or upgrade work behind.                          *)
(***************************************************************************)
THEOREM NothingLeftHolds == ASSUME CancelIsFinal PROVE Spec => []NothingLeft
<1>1. LifeInv => NothingLeft
  <2> SUFFICES ASSUME LifeInv, drv = "unbound" PROVE NothingLeft
    BY DEF NothingLeft
  <2>1. ~running /\ ~hw /\ job = "none" /\ pc = "-" /\ work = "idle"
    BY DEF LifeInv, JobInv, WorkInv, RunInv, Registered
  <2>2. napi = [s \in {"tx", "rx"} |-> "off"]
    BY <2>1 DEF LifeInv, NapiInv, NapiIs
  <2> QED BY <2>1, <2>2 DEF LifeInv, LoadInv, NothingLoaded, NothingLeft
<1> QED BY LifeInvHolds, <1>1, PTL

(***************************************************************************)
(* Unless the user switches LRO off or on, every receive buffer is taken   *)
(* apart (rx_pkt_alloc) the way bpfhv_rx_refill put it together, also when *)
(* an upgrade changes what the hypervisor offers.                          *)
(***************************************************************************)
THEOREM LayoutAgreesHolds ==
  ASSUME CancelIsFinal, "LRO" \notin UserToggles
  PROVE  Spec => []LayoutAgrees
<1>1. Init => LayoutInv
  BY InitLife
<1>2. LifeInv /\ LayoutInv /\ [Next]_vars => LayoutInv'
  BY KeepsLayout
<1>3. LayoutInv => LayoutAgrees
  BY DEF LayoutInv, LayoutAgrees
<1> QED BY LifeInvHolds, <1>1, <1>2, <1>3, PTL DEF Spec

=============================================================================
