------------------------------- MODULE SringRx -------------------------------
(***************************************************************************)
(* Reception over the "sring" device.                                      *)
(*                                                                         *)
(* Guest side: the driver's bpfhv_rx_poll, bpfhv_rx_clean, bpfhv_rx_refill *)
(* and bpfhv_rx_intr, the receive part of bpfhv_open and bpfhv_close, and  *)
(* the eBPF programs they run (sring_rxp, sring_rxc, sring_rxi,            *)
(* sring_rxr).  Host side: the backend's process_packets_poll /            *)
(* process_packets_spin loop running sring_rxq_push.                       *)
(*                                                                         *)
(* bpfhv_rx_poll goes on using the queue's context after napi_complete, so *)
(* the end of one poll may overlap the next poll, on another CPU.          *)
(***************************************************************************)
EXTENDS WrapArith

CONSTANTS
  N,           \* rx_bufs: number of descriptors in the ring (power of two)
  MaxBufs,     \* BPFHV_MAX_RX_BUFS: descriptors per rxp or rxr
  RefillAt,    \* 16: free buffers that make bpfhv_rx_clean refill
  PollBudget,  \* NAPI budget of a poll
  Budget,      \* BPFHV_BE_RX_BUDGET
  Overlap,     \* may a poll start on another CPU before the last one returned?
  Inbox,       \* packets the host interface queues (bound of the model)
  BusyWaits,   \* values of the backend's option busy_wait: spin, do not poll
  TxTraffic,   \* may transmit kicks wake the backend thread up?
  RefillFails, \* what may cut a refill short: a subset of {"oom", "dma"}
  AllocFails,  \* may rx_pkt_alloc fail?
  RecvFails,   \* may be->recv fail with packets waiting?
  BadBufs,     \* may a buffer have an address the backend cannot translate?
  MayClose,    \* may the interface be closed?
  MayReopen    \* may the interface be opened again after a close?

ASSUME RxAssumption ==
  /\ N \in Nat \ {0} /\ N < W /\ W % N = 0
  /\ MaxBufs \in Nat \ {0} /\ RefillAt \in 1 .. N
  /\ PollBudget \in Nat \ {0} /\ Budget \in Nat \ {0} /\ Inbox \in Nat \ {0}
  /\ Overlap \in BOOLEAN /\ TxTraffic \in BOOLEAN
  /\ BusyWaits \subseteq BOOLEAN
  /\ RefillFails \subseteq {"oom", "dma"} /\ AllocFails \in BOOLEAN
  /\ RecvFails \in BOOLEAN /\ BadBufs \in BOOLEAN
  /\ MayClose \in BOOLEAN /\ MayReopen \in BOOLEAN

VARIABLES
  busy_wait,       \* the backend's option, given when it starts
  \* struct sring_rx_context, in memory shared by guest and backend
  prod, cons, clear, intr_enabled, kick_enabled,
  slot,            \* what has become of the buffer in each descriptor
  kickfd, irq,     \* eventfds: doorbell of the queue, and its interrupt
  inbox,           \* packets waiting in the host interface
  \* guest: struct bpfhv_rxq, ctx->min_completed_bufs, NAPI state
  rx_free, min_completed, napi, missed, dev,
  \* guest: the context that runs bpfhv_rx_clean or bpfhv_rx_refill
  gpc, caller, polled, oom,
  ppc,             \* guest: the end of bpfhv_rx_poll, after rx_clean
  ipc, seen,       \* guest: the runs of sring_rxi, by the two of them
  \* backend thread
  bpc, bprod, bcons, count, can_receive, again, stopreq, stopping

options   == <<busy_wait>>
ringVars  == <<prod, cons, clear, slot>>
flagVars  == <<intr_enabled, kick_enabled>>
napiVars  == <<napi, missed>>
cleanVars == <<gpc, caller, polled, oom>>
rxiVars   == <<ipc, seen, min_completed>>
guestVars == <<rx_free, napiVars, dev, cleanVars, ppc, rxiVars>>
drainVars == <<bprod, bcons, count>>
beVars    == <<bpc, drainVars, can_receive, again, stopreq, stopping>>
vars == <<options, ringVars, flagVars, kickfd, irq, inbox, guestVars, beVars>>

Slots == 0 .. N - 1
Slot(c) == c % N

\* sring_rxi runs at the start of a poll and at the end of one.
Runs == {"head", "tail"}

CountersOK ==
  /\ prod \in Counter /\ cons \in Counter /\ clear \in Counter
  /\ bprod \in Counter /\ bcons \in Counter /\ seen \in [Runs -> Counter]
  /\ rx_free \in 0 .. N /\ count \in 0 .. Budget
  /\ inbox \in 0 .. Inbox /\ min_completed \in {0, 1}
  /\ polled \in 0 .. N \cup 0 .. PollBudget

PlacesOK ==
  /\ slot \in [Slots -> {"empty", "posted", "bad", "filled"}]
  /\ napi \in {"off", "idle", "sched"}
  /\ dev \in {"down", "opening", "up", "closing", "disabling"}
  /\ gpc \in {"idle", "mask", "clean", "cleaned", "refill", "kick", "enable",
              "reclaim"}
  /\ caller \in {"none", "open", "poll", "close"}
  /\ ppc \in {"idle", "complete", "unmask", "rearm", "resched"}
  /\ ipc \in [Runs -> {"idle", "load", "arm", "check", "mute"}]
  /\ bpc \in {"start", "top", "push", "mute", "loop", "unmute", "recheck",
              "publish", "notify", "halted"}

Flag == BOOLEAN

FlagsOK ==
  /\ intr_enabled \in Flag /\ kick_enabled \in Flag
  /\ kickfd \in Flag /\ irq \in Flag /\ missed \in Flag /\ oom \in Flag
  /\ can_receive \in Flag /\ again \in Flag
  /\ stopreq \in Flag /\ stopping \in Flag /\ busy_wait \in Flag

TypeOK == CountersOK /\ PlacesOK /\ FlagsOK

(***************************************************************************)
(* The device before it is first opened: sring_rx_ctx_init has run.        *)
(***************************************************************************)
sring_rx_ctx_init ==
  /\ prod = 0 /\ cons = 0 /\ clear = 0
  /\ kick_enabled = TRUE /\ intr_enabled = TRUE
  /\ slot = [i \in Slots |-> "empty"]

Init ==
  /\ busy_wait \in BusyWaits
  /\ sring_rx_ctx_init
  /\ kickfd = FALSE /\ irq = FALSE /\ inbox = 0
  /\ rx_free = N /\ min_completed = 0 /\ dev = "down"
  /\ napi = "off" /\ missed = FALSE
  /\ gpc = "idle" /\ caller = "none" /\ polled = 0 /\ oom = FALSE
  /\ ppc = "idle"
  /\ ipc = [r \in Runs |-> "idle"] /\ seen = [r \in Runs |-> 0]
  /\ bpc = "halted" /\ bprod = 0 /\ bcons = 0 /\ count = 0
  /\ can_receive = TRUE /\ again = FALSE /\ stopreq = FALSE /\ stopping = FALSE

(***************************************************************************)
(* The kernel's NAPI: scheduling an instance that is already scheduled is  *)
(* remembered (NAPIF_STATE_MISSED) and replayed by napi_complete; nothing  *)
(* is scheduled once napi_disable is under way.                            *)
(***************************************************************************)
napi_schedule ==
  /\ napi' = IF napi = "idle" /\ dev # "disabling" THEN "sched" ELSE napi
  /\ missed' = (missed \/ (napi = "sched" /\ dev # "disabling"))

napi_complete ==
  /\ napi' = IF missed THEN "sched" ELSE "idle"
  /\ missed' = FALSE

\* A packet reaches the host interface.
PacketArrives ==
  /\ inbox < Inbox /\ inbox' = inbox + 1
  /\ UNCHANGED <<options, ringVars, flagVars, kickfd, irq, guestVars, beVars>>

-----------------------------------------------------------------------------
(***************************************************************************)
(* bpfhv_rx_refill: while there are free buffers, publish up to MaxBufs of *)
(* them, or fewer when memory (and then the loop ends) or a DMA mapping    *)
(* fails.                                                                  *)
(***************************************************************************)
Kinds == {"posted"} \cup (IF BadBufs THEN {"bad"} ELSE {})

\* sring_rxp of k buffers, up to the store to priv->prod.
sring_rxp(k, kind) ==
  /\ slot' = [i \in Slots |-> IF Sub(i, prod) % N < k THEN kind ELSE slot[i]]
  /\ prod' = Add(prod, k)
  /\ rx_free' = rx_free - k
  /\ gpc' = "kick"
  /\ UNCHANGED <<options, cons, clear, flagVars, kickfd, irq, inbox, napiVars,
                 dev, caller, polled, ppc, rxiVars, beVars>>

RefillSize == IF rx_free > MaxBufs THEN MaxBufs ELSE rx_free

bpfhv_rx_refill ==
  /\ gpc = "refill"
  /\ \E kind \in Kinds : sring_rxp(RefillSize, kind)
  /\ oom' = FALSE

RefillCutShort(why) ==
  /\ gpc = "refill"
  /\ \E k \in 0 .. RefillSize - 1 : sring_rxp(k, "posted")
  /\ oom' = (why = "oom")

\* sring_rxp after the full barrier: load kick_enabled; ring the doorbell; the
\* loop goes on or bpfhv_rx_refill returns.
sring_rxp_kick ==
  /\ gpc = "kick"
  /\ kickfd' = (kickfd \/ kick_enabled)
  /\ gpc' = CASE rx_free > 0 /\ ~oom -> "refill"
              [] (rx_free = 0 \/ oom) /\ caller = "open" -> "enable"
              [] (rx_free = 0 \/ oom) /\ caller # "open" -> "clean"
  /\ oom' = FALSE
  /\ UNCHANGED <<options, ringVars, flagVars, irq, inbox, rx_free, napiVars,
                 dev, caller, polled, ppc, rxiVars, beVars>>

-----------------------------------------------------------------------------
(***************************************************************************)
(* sring_rxi, run r of it.  The context's min_completed_bufs is read when  *)
(* it is used, and the difference to clear is the one of the first load.   *)
(***************************************************************************)
RxiFrame == UNCHANGED <<options, ringVars, kick_enabled, kickfd, irq, inbox,
                        rx_free, napiVars, dev, caller, polled, oom,
                        min_completed, beVars>>

\* Run r of sring_rxi returns, with 1 (more) or 0, to its caller.
RxiReturn(r, ret) ==
  /\ ipc' = [ipc EXCEPT ![r] = "idle"]
  /\ seen' = [seen EXCEPT ![r] = 0]
  /\ IF r = "head"
     THEN gpc' = "clean" /\ UNCHANGED ppc
     ELSE ppc' = (IF ret = 1 THEN "resched" ELSE "idle") /\ UNCHANGED gpc

sring_rxi(r) ==
  /\ ipc[r] = "load"
  /\ seen' = [seen EXCEPT ![r] = clear]
  /\ ipc' = [ipc EXCEPT ![r] =
               IF Sub(cons, clear) >= min_completed THEN "mute" ELSE "arm"]
  /\ UNCHANGED <<intr_enabled, gpc, ppc>> /\ RxiFrame

sring_rxi_arm(r) ==
  /\ ipc[r] = "arm"
  /\ intr_enabled' = TRUE
  /\ ipc' = [ipc EXCEPT ![r] = "check"]
  /\ UNCHANGED <<seen, gpc, ppc>> /\ RxiFrame

\* Mutant of sring_rxi_check: no double check after interrupts were enabled.
RxiUnchecked(r) ==
  /\ ipc[r] = "check"
  /\ RxiReturn(r, 0)
  /\ UNCHANGED intr_enabled /\ RxiFrame

\* The double check of cons after the full barrier.
sring_rxi_check(r) ==
  /\ ipc[r] = "check"
  /\ IF Sub(cons, seen[r]) >= min_completed
     THEN ipc' = [ipc EXCEPT ![r] = "mute"] /\ UNCHANGED <<seen, gpc, ppc>>
     ELSE RxiReturn(r, 0)
  /\ UNCHANGED intr_enabled /\ RxiFrame

sring_rxi_mute(r) ==
  /\ ipc[r] = "mute"
  /\ intr_enabled' = FALSE
  /\ RxiReturn(r, 1)
  /\ RxiFrame

-----------------------------------------------------------------------------
bpfhv_rx_intr ==
  /\ irq /\ irq' = FALSE
  /\ napi_schedule
  /\ UNCHANGED <<options, ringVars, flagVars, kickfd, inbox, rx_free, dev,
                 cleanVars, ppc, rxiVars, beVars>>

\* bpfhv_rx_poll: ask sring_rxi to disable the interrupts.
bpfhv_rx_poll ==
  /\ napi = "sched" /\ gpc = "idle"
  /\ ppc = "idle" \/ (Overlap /\ ppc # "complete")
  /\ min_completed' = 0
  /\ gpc' = "mask" /\ caller' = "poll" /\ polled' = 0
  /\ ipc' = [ipc EXCEPT !["head"] = "load"]
  /\ UNCHANGED <<options, ringVars, flagVars, kickfd, irq, inbox, rx_free,
                 napiVars, dev, oom, ppc, seen, beVars>>

\* How many packets bpfhv_rx_clean may take.
CleanBudget == IF caller = "close" THEN N ELSE PollBudget

\* Mutant of sring_rxc: compares clear with prod instead of cons.
RxcUpToProd ==
  /\ gpc = "clean" /\ polled < CleanBudget /\ clear # prod
  /\ slot' = [slot EXCEPT ![Slot(clear)] = "empty"]
  /\ clear' = Add(clear, 1)
  /\ rx_free' = rx_free + 1
  /\ polled' = polled + 1
  /\ gpc' = IF rx_free' >= RefillAt THEN "refill" ELSE "clean"
  /\ UNCHANGED <<options, prod, cons, flagVars, kickfd, irq, inbox, napiVars,
                 dev, caller, oom, ppc, rxiVars, beVars>>

\* sring_rxc takes the oldest buffer; rx_pkt_alloc makes a packet of it.
sring_rxc ==
  /\ gpc = "clean" /\ polled < CleanBudget /\ clear # cons
  /\ slot' = [slot EXCEPT ![Slot(clear)] = "empty"]
  /\ clear' = Add(clear, 1)
  /\ rx_free' = rx_free + 1
  /\ polled' = polled + 1
  /\ gpc' = IF rx_free' >= RefillAt THEN "refill" ELSE "clean"
  /\ UNCHANGED <<options, prod, cons, flagVars, kickfd, irq, inbox, napiVars,
                 dev, caller, oom, ppc, rxiVars, beVars>>

\* rx_pkt_alloc fails: the buffer is gone, and bpfhv_rx_clean gives up.
RxcFails ==
  /\ AllocFails
  /\ gpc = "clean" /\ polled < CleanBudget /\ clear # cons
  /\ slot' = [slot EXCEPT ![Slot(clear)] = "empty"]
  /\ clear' = Add(clear, 1)
  /\ gpc' = "cleaned"
  /\ UNCHANGED <<options, prod, cons, flagVars, kickfd, irq, inbox, rx_free,
                 napiVars, dev, caller, polled, oom, ppc, rxiVars, beVars>>

\* Nothing more to complete, or no budget left.
RxCleanDone ==
  /\ gpc = "clean" /\ (clear = cons \/ polled >= CleanBudget)
  /\ gpc' = "cleaned"
  /\ UNCHANGED <<options, ringVars, flagVars, kickfd, irq, inbox, rx_free,
                 napiVars, dev, caller, polled, oom, ppc, rxiVars, beVars>>

Release == gpc' = "idle" /\ caller' = "none" /\ polled' = 0

\* bpfhv_rx_clean returns.  A poll that did not use its budget up completes
\* (the end of the previous poll is over by then); one that did is polled
\* again, unless napi_disable waits for it: NAPI then completes it.
RxCleanReturn ==
  /\ gpc = "cleaned"
  /\ \/ /\ caller = "close"
        /\ gpc' = "reclaim" /\ polled' = 0 /\ UNCHANGED <<caller, ppc, napiVars>>
     \/ /\ caller = "poll" /\ polled >= PollBudget
        /\ Release /\ UNCHANGED ppc
        /\ IF dev = "disabling" THEN napi_complete ELSE UNCHANGED napiVars
     \/ /\ caller = "poll" /\ polled < PollBudget /\ ppc = "idle"
        /\ Release /\ ppc' = "complete" /\ UNCHANGED napiVars
  /\ UNCHANGED <<options, ringVars, flagVars, kickfd, irq, inbox, rx_free,
                 dev, oom, rxiVars, beVars>>

\* The end of bpfhv_rx_poll: napi_complete_done; then ask sring_rxi for an
\* interrupt at the next packet; then schedule again if it found one.
RxPollComplete ==
  /\ ppc = "complete"
  /\ napi_complete
  /\ ppc' = "unmask"
  /\ UNCHANGED <<options, ringVars, flagVars, kickfd, irq, inbox, rx_free,
                 dev, cleanVars, rxiVars, beVars>>

RxPollUnmask ==
  /\ ppc = "unmask"
  /\ min_completed' = 1
  /\ ppc' = "rearm" /\ ipc' = [ipc EXCEPT !["tail"] = "load"]
  /\ UNCHANGED <<options, ringVars, flagVars, kickfd, irq, inbox, rx_free,
                 napiVars, dev, cleanVars, seen, beVars>>

\* Mutant of RxPollResched: what sring_rxi found is ignored.
RxPollForgets ==
  /\ ppc = "resched"
  /\ ppc' = "idle"
  /\ UNCHANGED <<options, ringVars, flagVars, kickfd, irq, inbox, rx_free,
                 napiVars, dev, cleanVars, rxiVars, beVars>>

RxPollResched ==
  /\ ppc = "resched"
  /\ napi_schedule
  /\ ppc' = "idle"
  /\ UNCHANGED <<options, ringVars, flagVars, kickfd, irq, inbox, rx_free,
                 dev, cleanVars, rxiVars, beVars>>

-----------------------------------------------------------------------------
\* bpfhv_open: bpfhv_resources_alloc fills the ring first.
bpfhv_open ==
  /\ dev = "down" /\ (stopreq => MayReopen)
  /\ dev' = "opening" /\ caller' = "open"
  /\ gpc' = IF rx_free > 0 THEN "refill" ELSE "enable"
  /\ UNCHANGED <<options, ringVars, flagVars, kickfd, irq, inbox, rx_free,
                 napiVars, polled, oom, ppc, rxiVars, beVars>>

\* bpfhv_open: NAPI on, and BPFHV_CTRL_RX_ENABLE starts a backend thread.
OpenEnable ==
  /\ gpc = "enable"
  /\ Release
  /\ dev' = "up" /\ napi' = "idle" /\ missed' = FALSE
  /\ bpc' = "start" /\ can_receive' = TRUE /\ again' = FALSE
  /\ stopreq' = FALSE /\ stopping' = FALSE
  /\ UNCHANGED <<options, ringVars, flagVars, kickfd, irq, inbox, rx_free, oom,
                 ppc, rxiVars, drainVars>>

bpfhv_close ==
  /\ MayClose /\ dev = "up"
  /\ dev' = "closing" /\ stopreq' = TRUE
  /\ UNCHANGED <<options, ringVars, flagVars, kickfd, irq, inbox, rx_free,
                 napiVars, cleanVars, ppc, rxiVars, bpc, drainVars,
                 can_receive, again, stopping>>

\* The device has stopped: BPFHV_CTRL_RX_DISABLE is done, napi_disable begins.
CloseStopped ==
  /\ dev = "closing" /\ bpc = "halted"
  /\ dev' = "disabling"
  /\ UNCHANGED <<options, ringVars, flagVars, kickfd, irq, inbox, rx_free,
                 napiVars, cleanVars, ppc, rxiVars, beVars>>

\* napi_disable returns; what was received meanwhile is still delivered.
CloseNapiDisable ==
  /\ dev = "disabling" /\ napi = "idle" /\ gpc = "idle"
  /\ napi' = "off"
  /\ gpc' = "clean" /\ caller' = "close"
  /\ UNCHANGED <<options, ringVars, flagVars, kickfd, irq, inbox, rx_free,
                 missed, dev, polled, oom, ppc, rxiVars, beVars>>

\* (uint32_t)(new_clear - cons - 1) < (uint32_t)(new_clear - old_clear)
clear_met_cons(old_clear, c, new_clear) ==
  Sub(new_clear, Add(c, 1)) < Sub(new_clear, old_clear)

\* bpfhv_resources_dealloc: one successful rxr.
sring_rxr ==
  /\ gpc = "reclaim" /\ clear # prod
  /\ LET k == IF Sub(prod, clear) > MaxBufs THEN MaxBufs ELSE Sub(prod, clear)
         new == Add(clear, k)
     IN  /\ slot' = [i \in Slots |-> IF Sub(i, clear) % N < k THEN "empty" ELSE slot[i]]
         /\ cons' = IF clear_met_cons(new, cons, clear) THEN new ELSE cons
         /\ clear' = new
         /\ rx_free' = rx_free + k
  /\ UNCHANGED <<options, prod, flagVars, kickfd, irq, inbox, napiVars, dev,
                 cleanVars, ppc, rxiVars, beVars>>

\* Mutant of CloseDone: rxr finds nothing to reclaim beyond cons.
CloseAtCons ==
  /\ gpc = "reclaim" /\ clear = cons
  /\ Release /\ dev' = "down"
  /\ UNCHANGED <<options, ringVars, flagVars, kickfd, irq, inbox, rx_free,
                 napiVars, oom, ppc, rxiVars, beVars>>

CloseDone ==
  /\ gpc = "reclaim" /\ clear = prod
  /\ Release /\ dev' = "down"
  /\ UNCHANGED <<options, ringVars, flagVars, kickfd, irq, inbox, rx_free,
                 napiVars, oom, ppc, rxiVars, beVars>>

-----------------------------------------------------------------------------
\* The new thread enables the kicks, or disables them if it is going to spin.
\* Until then they are as the previous one left them.
WorkerStarts ==
  /\ bpc = "start"
  /\ kick_enabled' = ~busy_wait
  /\ bpc' = "top"
  /\ UNCHANGED <<options, ringVars, intr_enabled, kickfd, irq, inbox,
                 guestVars, drainVars, can_receive, again, stopreq, stopping>>

(***************************************************************************)
(* The backend.  The polling thread blocks until a kick, an unfinished     *)
(* batch, the stop event, or a packet to receive while it can receive.     *)
(***************************************************************************)
WakeUp ==
  /\ bpc = "top" /\ ~busy_wait
  /\ kickfd' = FALSE /\ again' = FALSE
  /\ stopping' = stopreq
  /\ bpc' = "push"
  /\ UNCHANGED <<options, ringVars, flagVars, irq, inbox, guestVars,
                 drainVars, can_receive, stopreq>>

process_packets_poll ==
  (kickfd \/ again \/ stopreq \/ (can_receive /\ inbox > 0)) /\ WakeUp

\* A transmit kick wakes the thread up too; nobody promises one.
TxKick == TxTraffic /\ WakeUp

process_packets_spin ==
  /\ bpc = "top" /\ busy_wait
  /\ bpc' = IF stopreq THEN "halted" ELSE "push"
  /\ UNCHANGED <<options, ringVars, flagVars, kickfd, irq, inbox, guestVars,
                 drainVars, can_receive, again, stopreq, stopping>>

\* sring_rxq_push: load priv->prod.
sring_rxq_push ==
  /\ bpc = "push"
  /\ bprod' = prod /\ bcons' = cons /\ count' = 0
  /\ can_receive' = TRUE
  /\ bpc' = IF kick_enabled THEN "mute" ELSE "loop"
  /\ UNCHANGED <<options, ringVars, flagVars, kickfd, irq, inbox, guestVars,
                 again, stopreq, stopping>>

PushFrame == UNCHANGED <<options, prod, cons, clear, intr_enabled, kickfd, irq,
                         guestVars, again, stopreq, stopping>>

\* Disable the kicks, first of all or after the double check found buffers.
PushMute ==
  /\ bpc = "mute"
  /\ kick_enabled' = FALSE
  /\ bpc' = "loop"
  /\ UNCHANGED <<slot, inbox, drainVars, can_receive>> /\ PushFrame

\* No descriptor left: give up, or enable the kicks and check again.
PushOutOfBufs ==
  /\ bpc = "loop" /\ bcons = bprod
  /\ bpc' = IF busy_wait THEN "publish" ELSE "unmute"
  /\ UNCHANGED <<slot, inbox, kick_enabled, drainVars, can_receive>> /\ PushFrame

PushUnmute ==
  /\ bpc = "unmute"
  /\ kick_enabled' = TRUE
  /\ bpc' = "recheck"
  /\ UNCHANGED <<slot, inbox, drainVars, can_receive>> /\ PushFrame

\* Mutant of PushRecheck: no double check after the kicks were enabled.
PushUnchecked ==
  /\ bpc = "recheck"
  /\ can_receive' = FALSE
  /\ bpc' = "publish"
  /\ UNCHANGED <<slot, inbox, kick_enabled, drainVars>> /\ PushFrame

\* The double check, after the full barrier.
PushRecheck ==
  /\ bpc = "recheck"
  /\ bprod' = prod
  /\ can_receive' = (bcons # prod)
  /\ bpc' = IF bcons = prod THEN "publish" ELSE "mute"
  /\ UNCHANGED <<slot, inbox, kick_enabled, bcons, count>> /\ PushFrame

Receiving == bpc = "loop" /\ bcons # bprod /\ count < Budget

PushOutOfBudget ==
  /\ bpc = "loop" /\ bcons # bprod /\ count >= Budget
  /\ bpc' = "publish"
  /\ UNCHANGED <<slot, inbox, kick_enabled, drainVars, can_receive>> /\ PushFrame

\* translate_addr fails: the descriptor is skipped and not counted.
PushSkip ==
  /\ Receiving /\ slot[Slot(bcons)] = "bad"
  /\ bcons' = Add(bcons, 1)
  /\ UNCHANGED <<slot, inbox, kick_enabled, bpc, bprod, count,
                 can_receive>>
  /\ PushFrame

\* be->recv puts a packet into the buffer.
PushRecv ==
  /\ Receiving /\ slot[Slot(bcons)] # "bad" /\ inbox > 0
  /\ slot' = [slot EXCEPT ![Slot(bcons)] = "filled"]
  /\ inbox' = inbox - 1
  /\ bcons' = Add(bcons, 1) /\ count' = count + 1
  /\ UNCHANGED <<kick_enabled, bpc, bprod, can_receive>> /\ PushFrame

\* be->recv has nothing, or fails.
PushRecvFails ==
  /\ Receiving /\ slot[Slot(bcons)] # "bad" /\ (inbox = 0 \/ RecvFails)
  /\ bpc' = "publish"
  /\ UNCHANGED <<slot, inbox, kick_enabled, drainVars, can_receive>> /\ PushFrame

\* The end of an iteration: the locals of sring_rxq_push are gone.
PushReturn ==
  /\ bpc' = IF stopping THEN "halted" ELSE "top"
  /\ bprod' = 0 /\ bcons' = 0 /\ count' = 0

\* Publish the buffers used, if a packet was received.
PushPublish ==
  /\ bpc = "publish"
  /\ IF count > 0
     THEN cons' = bcons /\ bpc' = "notify" /\ UNCHANGED drainVars
     ELSE PushReturn /\ UNCHANGED cons
  /\ UNCHANGED <<options, prod, clear, slot, flagVars, kickfd, irq, inbox,
                 guestVars, can_receive, again, stopreq, stopping>>

\* Load intr_enabled, raise the interrupt, arrange for the next iteration.
PushNotify ==
  /\ bpc = "notify"
  /\ irq' = (irq \/ intr_enabled)
  /\ again' = (~busy_wait /\ count >= Budget)
  /\ PushReturn
  /\ UNCHANGED <<options, ringVars, flagVars, kickfd, inbox, guestVars,
                 can_receive, stopreq, stopping>>

-----------------------------------------------------------------------------
RxiStep(r) ==
  sring_rxi(r) \/ sring_rxi_arm(r) \/ sring_rxi_check(r) \/ sring_rxi_mute(r)

\* The context in bpfhv_rx_clean, bpfhv_rx_refill or the reclaim loop goes on.
CleanStep ==
  \/ bpfhv_rx_refill \/ sring_rxp_kick \/ RxiStep("head") \/ sring_rxc
  \/ RxCleanDone \/ RxCleanReturn \/ OpenEnable \/ sring_rxr \/ CloseDone

TailStep ==
  RxPollComplete \/ RxPollUnmask \/ RxiStep("tail") \/ RxPollResched

PushStep ==
  \/ WorkerStarts \/ process_packets_poll \/ process_packets_spin
  \/ sring_rxq_push \/ PushMute \/ PushOutOfBufs \/ PushUnmute \/ PushRecheck
  \/ PushOutOfBudget \/ PushSkip \/ PushRecv \/ PushRecvFails
  \/ PushPublish \/ PushNotify

Next ==
  \/ PacketArrives \/ bpfhv_rx_intr \/ bpfhv_rx_poll
  \/ CleanStep \/ RxcFails \/ TailStep
  \/ \E why \in RefillFails : RefillCutShort(why)
  \/ bpfhv_open \/ bpfhv_close \/ CloseStopped \/ CloseNapiDisable
  \/ PushStep \/ TxKick

Spec == Init /\ [][Next]_vars

(***************************************************************************)
(* Fairness.  Whoever is inside the driver goes on, interrupts are         *)
(* delivered, a scheduled NAPI instance is polled, the backend thread keeps*)
(* running and a receive that is tried again and again gets its packet.    *)
(* Nobody has to open or close the interface or to send packets.           *)
(***************************************************************************)
Fairness ==
  /\ WF_vars(CleanStep) /\ WF_vars(TailStep) /\ WF_vars(bpfhv_rx_intr)
  /\ SF_vars(bpfhv_rx_poll) /\ WF_vars(PushStep) /\ SF_vars(PushRecv)
  /\ WF_vars(CloseStopped) /\ SF_vars(CloseNapiDisable)

FairSpec == Spec /\ Fairness

-----------------------------------------------------------------------------
(***************************************************************************)
(* Properties.                                                             *)
(***************************************************************************)

\* The backend is inside sring_rxq_push, working on its copies of prod, cons.
Pushing == bpc \notin {"start", "top", "push", "halted"}

\* How many buffers the backend is done with, counting from clear.
Handled == Sub(IF Pushing THEN bcons ELSE cons, clear)

\* While the device is open, clear, cons, the backend's private cons and prod,
\* and the shared prod never overtake one another, whatever the wrap-around, and
\* the driver's rx_free_bufs is exactly the room left in the ring.
RingOrder ==
  /\ rx_free = N - Sub(prod, clear)
  /\ gpc # "reclaim" /\ dev # "down" => Sub(cons, clear) <= Sub(prod, clear)
  /\ Pushing => /\ Sub(cons, clear) <= Sub(bcons, clear)
                /\ Sub(bcons, clear) <= Sub(bprod, clear)
                /\ Sub(bprod, clear) <= Sub(prod, clear)

\* bpfhv.h: "The 'bufs' and 'num_bufs' argument contain the list of buffers that
\* were used to receive a packet": a buffer that rxc is about to complete has
\* been filled by sring_rxq_push (or refused by it).
CompletedWereUsed ==
  gpc = "clean" /\ clear # cons => slot[Slot(clear)] \in {"filled", "bad"}

\* Every descriptor is in the hands the counters say: what lies before the
\* backend's position is filled, what lies between it and prod is posted and
\* not yet touched, and the rest of the ring is the driver's.
Ownership ==
  gpc # "reclaim" /\ dev # "down" =>
    \A d \in 0 .. N - 1 :
      LET s == slot[Slot(Add(clear, d))]
      IN  /\ d < Handled => s \in {"filled", "bad"}
          /\ Handled <= d /\ d < N - rx_free => s \in {"posted", "bad"}
          /\ N - rx_free <= d => s = "empty"

\* The polling backend never waits for receive buffers that are there: when it
\* has stopped listening to the interface (can_receive = 0) and no kick is
\* pending, the ring is empty or the driver is about to look at kick_enabled.
NoLostKick ==
  bpc = "top" /\ ~busy_wait /\ ~can_receive /\ ~kickfd /\ ~again
    => \/ \A i \in Slots : slot[i] # "posted"
       \/ kick_enabled /\ gpc = "kick"

\* A received packet is always on its way up: if there are completed buffers
\* and the backend has done its part, an interrupt, a poll or the end of one
\* that will look again is under way, however two polls overlap.
NoLostPacket ==
  dev = "up" /\ clear # cons /\ bpc # "notify"
    => irq \/ napi = "sched" \/ ppc # "idle" \/ gpc # "idle"

\* An idle driver has its interrupts on: a poll never ends with interrupts
\* disabled unless another poll is sure to follow.
IdleIsArmed ==
  dev = "up" /\ napi = "idle" /\ gpc = "idle" /\ ppc = "idle" => intr_enabled \/ irq

\* "%d receive buffers not reclaimed" (bpfhv_resources_dealloc): a closed
\* device has all its buffers back, and none is left in the ring.
AllReclaimed ==
  dev = "down" => rx_free = N /\ \A i \in Slots : slot[i] = "empty"

\* A packet put into a buffer is handed to the network stack.
PacketsDelivered == \A i \in Slots : slot[i] = "filled" ~> slot[i] = "empty"

\* A full host interface is read again, as long as the device stays open: the
\* ring is refilled and the backend learns of it.
ReceiveGoesOn == inbox = Inbox ~> inbox < Inbox \/ dev # "up"

=============================================================================
