------------------------------- MODULE SringTx -------------------------------
(***************************************************************************)
(* Transmission over the "sring" device.                                   *)
(*                                                                         *)
(* Guest side: the driver's bpfhv_start_xmit, bpfhv_tx_poll, bpfhv_tx_intr *)
(* and the transmit part of bpfhv_open and bpfhv_close, together with the  *)
(* eBPF programs they run (sring_txp, sring_txc, sring_txi, sring_txr).    *)
(* Host side: the backend's process_packets_poll / process_packets_spin    *)
(* loop running sring_txq_drain.                                           *)
(*                                                                         *)
(* Guest and backend share the ring's counters and flags.  Every access of *)
(* one side that the other side can observe is a step of its own; the      *)
(* memory fences of the code are what makes the interleaving of these      *)
(* steps a faithful picture of the shared memory.                          *)
(***************************************************************************)
EXTENDS WrapArith

CONSTANTS
  N,          \* tx_bufs: number of descriptors in the ring (power of two)
  Thresh,     \* 2 + MAX_SKB_FRAGS: below it the driver stops the queue
  Budget,     \* BPFHV_BE_TX_BUDGET
  TxNapis,    \* values of the driver's module parameter tx_napi
  BusyWaits,  \* values of the backend's option busy_wait: spin, do not poll
  XmitMore,   \* may the network stack announce a further packet?
  Drops,      \* may start_xmit give up early (DMA mapping error)?
  MayClose,   \* may the interface be closed and opened again?
  RxTraffic,  \* may packets to receive wake the backend thread up?
  BadBufs,    \* may a buffer have an address the backend cannot translate?
  SendFails   \* failures of be->send: a subset of {"again", "error"}

ASSUME TxAssumption ==
  /\ N \in Nat \ {0} /\ N < W /\ W % N = 0
  /\ Thresh \in Nat /\ Budget \in Nat \ {0}
  /\ TxNapis \subseteq BOOLEAN /\ BusyWaits \subseteq BOOLEAN
  /\ XmitMore \in BOOLEAN /\ Drops \in BOOLEAN /\ MayClose \in BOOLEAN
  /\ RxTraffic \in BOOLEAN /\ BadBufs \in BOOLEAN
  /\ SendFails \subseteq {"again", "error"}

VARIABLES
  tx_napi, busy_wait,  \* the options, given when the two sides start
  \* struct sring_tx_context, in memory shared by guest and backend
  prod, cons, clear, intr_at, kick_enabled,
  slot,          \* what has become of the buffer in each descriptor
  \* eventfds: doorbell of the queue, and its interrupt
  kickfd, irq,
  \* guest: struct bpfhv_txq and the kernel's queue and NAPI state
  tx_free, kick_pending, stopped, napi, missed, dev,
  \* guest: the context that holds the transmit lock
  gpc, caller, xmit_more, enough,
  promised,      \* history: txi returned 0, and no interrupt has come since
  \* guest: the part of bpfhv_tx_poll that runs without the lock
  ppc, more, wakeup,
  \* backend thread
  bpc, bprod, bcons, old_cons, count, can_send, again, stopreq, stopping,
  unheard        \* history: since a drain last began, txp has found kicks off
                 \* because a new thread had not enabled them yet

options  == <<tx_napi, busy_wait>>
ringVars == <<prod, cons, clear, intr_at, kick_enabled, slot>>
devVars  == <<tx_free, kick_pending, stopped, napi, missed, dev>>
lockVars == <<gpc, caller, xmit_more, enough, promised>>
tailVars == <<ppc, more, wakeup>>
beVars   == <<bpc, bprod, bcons, old_cons, count, can_send, again, stopreq,
              stopping, unheard>>
guestVars == <<devVars, lockVars, tailVars>>
vars == <<options, ringVars, kickfd, irq, guestVars, beVars>>

Slots == 0 .. N - 1

\* counter & priv->qmask
Slot(c) == c % N

CountersOK ==
  /\ prod \in Counter /\ cons \in Counter /\ clear \in Counter
  /\ intr_at \in Counter
  /\ bprod \in Counter /\ bcons \in Counter /\ old_cons \in Counter
  /\ tx_free \in 0 .. N /\ count \in 0 .. Budget

PlacesOK ==
  /\ slot \in [Slots -> {"empty", "posted", "bad", "sent"}]
  /\ napi \in {"off", "idle", "sched"}
  /\ dev \in {"up", "closing", "down"}
  /\ gpc \in {"idle", "clean", "prep", "kick", "txi", "arm", "check", "stop",
              "bell", "unlock", "reclaim"}
  /\ caller \in {"xmit", "poll", "close"}
  /\ ppc \in {"idle", "complete", "resched", "wake"}
  /\ bpc \in {"start", "top", "drain", "mute", "loop", "unmute", "recheck",
              "remute", "publish", "notify", "halted"}

Flag == BOOLEAN

FlagsOK ==
  /\ kick_enabled \in Flag /\ kickfd \in Flag /\ irq \in Flag
  /\ kick_pending \in Flag /\ stopped \in Flag /\ missed \in Flag
  /\ xmit_more \in Flag /\ enough \in Flag /\ promised \in Flag
  /\ more \in Flag /\ wakeup \in Flag
  /\ can_send \in Flag /\ again \in Flag
  /\ stopreq \in Flag /\ stopping \in Flag /\ unheard \in Flag
  /\ tx_napi \in Flag /\ busy_wait \in Flag

TypeOK == CountersOK /\ PlacesOK /\ FlagsOK

(***************************************************************************)
(* A freshly opened device: sring_tx_ctx_init has zeroed the ring and      *)
(* enabled the kicks, and the backend thread was created.                  *)
(***************************************************************************)
sring_tx_ctx_init ==
  /\ prod = 0 /\ cons = 0 /\ clear = 0 /\ intr_at = 0 /\ kick_enabled = TRUE
  /\ slot = [i \in Slots |-> "empty"]

Init ==
  /\ tx_napi \in TxNapis /\ busy_wait \in BusyWaits
  /\ sring_tx_ctx_init
  /\ kickfd = FALSE /\ irq = FALSE
  /\ tx_free = N /\ kick_pending = FALSE /\ stopped = FALSE
  /\ napi = "idle" /\ missed = FALSE /\ dev = "up"
  /\ gpc = "idle" /\ caller = "xmit" /\ xmit_more = FALSE /\ enough = FALSE
  /\ promised = FALSE
  /\ ppc = "idle" /\ more = FALSE /\ wakeup = FALSE
  /\ bpc = "start" /\ bprod = 0 /\ bcons = 0 /\ old_cons = 0
  /\ count = 0 /\ can_send = TRUE /\ again = FALSE
  /\ stopreq = FALSE /\ stopping = FALSE /\ unheard = FALSE

(***************************************************************************)
(* The kernel's NAPI: scheduling an instance that is already scheduled is  *)
(* remembered (NAPIF_STATE_MISSED) and replayed by napi_complete; a        *)
(* disabled instance is not scheduled.                                     *)
(***************************************************************************)
napi_schedule ==
  /\ napi' = IF napi = "idle" THEN "sched" ELSE napi
  /\ missed' = (missed \/ napi = "sched")

napi_complete ==
  /\ napi' = IF missed THEN "sched" ELSE "idle"
  /\ missed' = FALSE

-----------------------------------------------------------------------------
\* The context that held the lock lets it go; its locals are gone.
Release == gpc' = "idle" /\ caller' = "xmit" /\ enough' = FALSE

(***************************************************************************)
(* bpfhv_start_xmit.  The stack calls it with the transmit lock held and   *)
(* the queue not stopped.                                                  *)
(***************************************************************************)
bpfhv_start_xmit(announced) ==
  /\ dev = "up" /\ gpc = "idle" /\ ~stopped
  /\ announced => XmitMore
  /\ gpc' = "clean" /\ caller' = "xmit" /\ xmit_more' = announced
  /\ UNCHANGED <<options, ringVars, kickfd, irq, devVars, enough, promised,
                 tailVars, beVars>>

\* sring_tx_get_one and bpfhv_tx_ctx_clean: take the oldest buffer back.
sring_tx_get_one ==
  /\ slot' = [slot EXCEPT ![Slot(clear)] = "empty"]
  /\ clear' = Add(clear, 1)
  /\ tx_free' = tx_free + 1

\* Mutant of sring_txc: compares clear with prod instead of cons.
TxcUpToProd ==
  /\ gpc = "clean" /\ clear # prod
  /\ sring_tx_get_one
  /\ UNCHANGED <<options, prod, cons, intr_at, kick_enabled, kickfd, irq,
                 kick_pending, stopped, napi, missed, dev, lockVars, tailVars,
                 beVars>>

\* One successful txc of the loop in bpfhv_tx_clean.
sring_txc ==
  /\ gpc = "clean" /\ clear # cons
  /\ sring_tx_get_one
  /\ UNCHANGED <<options, prod, cons, intr_at, kick_enabled, kickfd, irq,
                 kick_pending, stopped, napi, missed, dev, lockVars, tailVars,
                 beVars>>

\* 1 + half of the buffers the driver has not got back yet.
HALF_PENDING_BUFS == 1 + (N - tx_free) \div 2

\* txc finds nothing more: bpfhv_tx_clean returns to its caller.
TxCleanDone ==
  /\ gpc = "clean" /\ clear = cons
  /\ gpc' = CASE caller = "xmit"  -> "prep"
              [] caller = "poll"  -> "txi"
              [] caller = "close" -> "reclaim"
  /\ stopped' = (stopped \/ caller = "close")     \* netif_tx_disable
  /\ UNCHANGED <<options, ringVars, kickfd, irq, tx_free, kick_pending, napi,
                 missed, dev, caller, xmit_more, promised, enough, tailVars,
                 beVars>>

\* No free buffer (NETDEV_TX_BUSY), or the packet is dropped.
StartXmitGiveUp ==
  /\ gpc = "prep"
  /\ tx_free < 1 \/ Drops
  /\ Release
  /\ UNCHANGED <<options, ringVars, kickfd, irq, devVars, xmit_more, promised,
                 tailVars, beVars>>

\* Mutant of sring_txp: bpfhv_start_xmit does not check for a free buffer.
TxpWithoutRoom ==
  /\ gpc = "prep"
  /\ slot' = [slot EXCEPT ![Slot(prod)] = "posted"]
  /\ prod' = Add(prod, 1)
  /\ tx_free' = tx_free - 1
  /\ gpc' = "kick"
  /\ UNCHANGED <<options, cons, clear, intr_at, kick_enabled, kickfd, irq,
                 kick_pending, stopped, napi, missed, dev, caller, xmit_more,
                 promised, enough, tailVars, beVars>>

\* sring_txp up to the store to priv->prod.
sring_txp ==
  /\ gpc = "prep" /\ tx_free >= 1
  /\ \E s \in {"posted"} \cup (IF BadBufs THEN {"bad"} ELSE {}) :
       slot' = [slot EXCEPT ![Slot(prod)] = s]
  /\ prod' = Add(prod, 1)
  /\ tx_free' = tx_free - 1
  /\ gpc' = "kick"
  /\ UNCHANGED <<options, cons, clear, intr_at, kick_enabled, kickfd, irq,
                 kick_pending, stopped, napi, missed, dev, caller, xmit_more,
                 promised, enough, tailVars, beVars>>

\* sring_txp after the full barrier: load priv->kick_enabled.
sring_txp_kick ==
  /\ gpc = "kick"
  /\ kick_pending' = (kick_pending \/ kick_enabled)
  /\ unheard' = (unheard \/ (bpc = "start" /\ ~kick_enabled))
  /\ gpc' = IF tx_napi \/ tx_free < Thresh THEN "txi" ELSE "bell"
  /\ UNCHANGED <<options, ringVars, kickfd, irq, tx_free, stopped, napi,
                 missed, dev, caller, xmit_more, promised, enough, tailVars,
                 bpc, bprod, bcons, old_cons, count, can_send, again, stopreq,
                 stopping>>

\* Where the caller of sring_txi goes on.
AfterTxi == IF caller = "poll" THEN "unlock" ELSE "stop"

\* sring_txi with min_completed_bufs = HALF_PENDING_BUFS: first load of cons.
sring_txi ==
  /\ gpc = "txi"
  /\ enough' = (Sub(cons, clear) >= HALF_PENDING_BUFS)
  /\ gpc' = IF enough' THEN AfterTxi ELSE "arm"
  /\ UNCHANGED <<options, ringVars, kickfd, irq, devVars, caller, xmit_more,
                 promised, tailVars, beVars>>

\* sring_txi: store priv->intr_at.
sring_txi_arm ==
  /\ gpc = "arm"
  /\ intr_at' = Add(clear, HALF_PENDING_BUFS - 1)
  /\ promised' = FALSE
  /\ gpc' = "check"
  /\ UNCHANGED <<options, prod, cons, clear, kick_enabled, slot, kickfd, irq,
                 devVars, caller, xmit_more, enough, tailVars, beVars>>

\* Mutant of sring_txi_check: no double check after intr_at was stored.
TxiUnchecked ==
  /\ gpc = "check"
  /\ enough' = FALSE
  /\ promised' = TRUE
  /\ gpc' = AfterTxi
  /\ UNCHANGED <<options, ringVars, kickfd, irq, devVars, caller, xmit_more,
                 tailVars, beVars>>

\* sring_txi: the double check of cons after the full barrier.
sring_txi_check ==
  /\ gpc = "check"
  /\ enough' = (Sub(cons, clear) >= HALF_PENDING_BUFS)
  /\ promised' = ~enough'
  /\ gpc' = AfterTxi
  /\ UNCHANGED <<options, ringVars, kickfd, irq, devVars, caller, xmit_more,
                 tailVars, beVars>>

\* bpfhv_start_xmit: stop the queue when it runs out of buffers.
StartXmitStop ==
  /\ gpc = "stop"
  /\ stopped' = (stopped \/ (tx_free < Thresh /\ (tx_napi \/ ~enough)))
  /\ gpc' = "bell"
  /\ UNCHANGED <<options, ringVars, kickfd, irq, tx_free, kick_pending, napi,
                 missed, dev, caller, xmit_more, promised, enough, tailVars,
                 beVars>>

\* bpfhv_start_xmit: ring the doorbell unless the stack announced more.
StartXmitBell ==
  /\ gpc = "bell"
  /\ LET ring == ~xmit_more /\ kick_pending
     IN  /\ kick_pending' = (kick_pending /\ ~ring)
         /\ kickfd' = (kickfd \/ ring)
  /\ Release
  /\ UNCHANGED <<options, ringVars, irq, tx_free, stopped, napi, missed, dev,
                 xmit_more, promised, tailVars, beVars>>

-----------------------------------------------------------------------------
\* bpfhv_tx_intr, when the interrupt reaches the guest.
bpfhv_tx_intr ==
  /\ irq
  /\ irq' = FALSE /\ promised' = FALSE
  /\ IF tx_napi
     THEN napi_schedule /\ UNCHANGED stopped
     ELSE stopped' = FALSE /\ UNCHANGED <<napi, missed>>
  /\ UNCHANGED <<options, ringVars, kickfd, tx_free, kick_pending, dev, gpc,
                 caller, xmit_more, enough, tailVars, beVars>>

\* bpfhv_tx_poll: take the lock; txi with 0 changes nothing; then clean.
bpfhv_tx_poll ==
  /\ napi = "sched" /\ ppc # "complete" /\ gpc = "idle"
  /\ gpc' = "clean" /\ caller' = "poll"
  /\ UNCHANGED <<options, ringVars, kickfd, irq, devVars, xmit_more, promised,
                 enough, tailVars, beVars>>

\* Mutant of TxPollUnlock: wakes the queue up only above the threshold.
TxPollWakesLate ==
  /\ gpc = "unlock" /\ ppc = "idle"
  /\ Release
  /\ ppc' = "complete" /\ more' = enough /\ wakeup' = (tx_free > Thresh)
  /\ UNCHANGED <<options, ringVars, kickfd, irq, devVars, xmit_more, promised,
                 beVars>>

\* bpfhv_tx_poll: release the lock, keeping what was found out under it.
\* The tail of the previous poll is over by then.
TxPollUnlock ==
  /\ gpc = "unlock" /\ ppc = "idle"
  /\ Release
  /\ ppc' = "complete" /\ more' = enough /\ wakeup' = (tx_free >= Thresh)
  /\ UNCHANGED <<options, ringVars, kickfd, irq, devVars, xmit_more, promised,
                 beVars>>

TxPollComplete ==
  /\ ppc = "complete"
  /\ napi_complete
  /\ ppc' = "resched"
  /\ UNCHANGED <<options, ringVars, kickfd, irq, tx_free, kick_pending,
                 stopped, dev, lockVars, more, wakeup, beVars>>

TxPollResched ==
  /\ ppc = "resched"
  /\ IF more THEN napi_schedule ELSE UNCHANGED <<napi, missed>>
  /\ ppc' = "wake"
  /\ UNCHANGED <<options, ringVars, kickfd, irq, tx_free, kick_pending,
                 stopped, dev, lockVars, more, wakeup, beVars>>

TxPollWake ==
  /\ ppc = "wake"
  /\ stopped' = (stopped /\ ~wakeup)
  /\ ppc' = "idle" /\ more' = FALSE /\ wakeup' = FALSE
  /\ UNCHANGED <<options, ringVars, kickfd, irq, tx_free, kick_pending, napi,
                 missed, dev, lockVars, beVars>>

-----------------------------------------------------------------------------
(***************************************************************************)
(* bpfhv_close: the kernel has quiesced start_xmit (dev_deactivate), the   *)
(* backend thread is asked to stop.                                        *)
(***************************************************************************)
bpfhv_close ==
  /\ MayClose /\ dev = "up"
  /\ gpc = "idle" \/ caller = "poll"
  /\ dev' = "closing" /\ stopreq' = TRUE
  /\ UNCHANGED <<options, ringVars, kickfd, irq, tx_free, kick_pending,
                 stopped, napi, missed, lockVars, tailVars, bpc, bprod, bcons,
                 old_cons, count, can_send, again, stopping, unheard>>

\* napi_disable has waited for the scheduled poll to complete, though perhaps
\* not to return; collect completions.
CloseNapiDisable ==
  /\ dev = "closing" /\ bpc = "halted"
  /\ napi = "idle" /\ gpc = "idle"
  /\ napi' = "off" /\ gpc' = "clean" /\ caller' = "close"
  /\ UNCHANGED <<options, ringVars, kickfd, irq, tx_free, kick_pending,
                 stopped, missed, dev, xmit_more, promised, enough, tailVars,
                 beVars>>

\* Mutant of sring_txr: clear leaves cons behind.
TxrLeavesCons ==
  /\ gpc = "reclaim" /\ clear # prod
  /\ sring_tx_get_one
  /\ UNCHANGED <<options, prod, cons, intr_at, kick_enabled, kickfd, irq,
                 kick_pending, stopped, napi, missed, dev, lockVars, tailVars,
                 beVars>>

\* bpfhv_resources_dealloc: one successful txr.
sring_txr ==
  /\ gpc = "reclaim" /\ clear # prod
  /\ cons' = IF clear = cons THEN Add(clear, 1) ELSE cons
  /\ sring_tx_get_one
  /\ UNCHANGED <<options, prod, intr_at, kick_enabled, kickfd, irq,
                 kick_pending, stopped, napi, missed, dev, lockVars, tailVars,
                 beVars>>

CloseDone ==
  /\ gpc = "reclaim" /\ clear = prod
  /\ Release /\ dev' = "down"
  /\ UNCHANGED <<options, ringVars, kickfd, irq, tx_free, kick_pending,
                 stopped, napi, missed, xmit_more, promised, tailVars,
                 beVars>>

\* bpfhv_open: NAPI on, a new backend thread, queue started.  The ring is not
\* initialised again (only a program upgrade rewrites the context address), so
\* the kicks stay as the previous thread left them until the new one runs.
bpfhv_open ==
  /\ dev = "down"
  /\ dev' = "up" /\ napi' = "idle" /\ missed' = FALSE /\ stopped' = FALSE
  /\ bpc' = "start" /\ can_send' = TRUE /\ again' = FALSE
  /\ stopreq' = FALSE /\ stopping' = FALSE
  /\ UNCHANGED <<options, ringVars, kickfd, irq,
                 tx_free, kick_pending, lockVars, tailVars, bprod, bcons,
                 old_cons, count, unheard>>

-----------------------------------------------------------------------------
\* The new thread enables the kicks, or disables them if it is going to spin.
WorkerStarts ==
  /\ bpc = "start"
  /\ kick_enabled' = ~busy_wait
  /\ bpc' = "top"
  /\ UNCHANGED <<options, prod, cons, clear, intr_at, slot, kickfd, irq,
                 guestVars, bprod, bcons, old_cons, count, can_send, again,
                 stopreq, stopping, unheard>>

(***************************************************************************)
(* The backend.  At the top of its loop the polling thread blocks until an *)
(* event; a kick, an unfinished batch (poll_timeout = 0), room in the      *)
(* interface it ran out of, or the stop event wake it up for certain.      *)
(***************************************************************************)
WakeUp ==
  /\ bpc = "top" /\ ~busy_wait
  /\ kickfd' = FALSE /\ again' = FALSE
  /\ stopping' = stopreq
  /\ bpc' = "drain"
  /\ UNCHANGED <<options, ringVars, irq, guestVars, bprod, bcons, old_cons,
                 count, can_send, stopreq, unheard>>

process_packets_poll == (kickfd \/ again \/ stopreq) /\ WakeUp

\* The interface has room again: POLLOUT, requested when ~can_send.
PollOut == ~can_send /\ WakeUp

\* A packet to receive wakes the thread up too; nobody promises one.
PollIn == RxTraffic /\ WakeUp

process_packets_spin ==
  /\ bpc = "top" /\ busy_wait
  /\ bpc' = IF stopreq THEN "halted" ELSE "drain"
  /\ UNCHANGED <<options, ringVars, kickfd, irq, guestVars, bprod, bcons,
                 old_cons, count, can_send, again, stopreq, stopping, unheard>>

\* sring_txq_drain: load priv->prod.
sring_txq_drain ==
  /\ bpc = "drain"
  /\ bprod' = prod /\ bcons' = cons /\ count' = 0
  /\ can_send' = TRUE /\ unheard' = FALSE
  /\ bpc' = IF busy_wait THEN "loop" ELSE "mute"
  /\ UNCHANGED <<options, ringVars, kickfd, irq, guestVars, old_cons, again,
                 stopreq, stopping>>

\* Disable the kicks, first of all or after the double check found work.
DrainMute ==
  /\ bpc \in {"mute", "remute"}
  /\ kick_enabled' = FALSE
  /\ bpc' = "loop"
  /\ UNCHANGED <<options, prod, cons, clear, intr_at, slot, kickfd, irq,
                 guestVars, bprod, bcons, old_cons, count, can_send, again,
                 stopreq, stopping, unheard>>

\* The loop has met the copy of prod: load prod again.
DrainMeetsProd ==
  /\ bpc = "loop" /\ bcons = bprod
  /\ bprod' = prod
  /\ bpc' = CASE prod # bcons              -> "loop"
              [] prod = bcons /\ busy_wait  -> "publish"
              [] prod = bcons /\ ~busy_wait -> "unmute"
  /\ UNCHANGED <<options, ringVars, kickfd, irq, guestVars, bcons, old_cons,
                 count, can_send, again, stopreq, stopping, unheard>>

\* Re-enable the kicks before the double check.
DrainUnmute ==
  /\ bpc = "unmute"
  /\ kick_enabled' = TRUE
  /\ bpc' = "recheck"
  /\ UNCHANGED <<options, prod, cons, clear, intr_at, slot, kickfd, irq,
                 guestVars, bprod, bcons, old_cons, count, can_send, again,
                 stopreq, stopping, unheard>>

\* Mutant of DrainRecheck: no double check after the kicks were enabled.
DrainUnchecked ==
  /\ bpc = "recheck"
  /\ bpc' = "publish"
  /\ UNCHANGED <<options, ringVars, kickfd, irq, guestVars, bprod, bcons,
                 old_cons, count, can_send, again, stopreq, stopping, unheard>>

\* The double check, after the full barrier.
DrainRecheck ==
  /\ bpc = "recheck"
  /\ bprod' = prod
  /\ bpc' = IF prod = bcons THEN "publish" ELSE "remute"
  /\ UNCHANGED <<options, ringVars, kickfd, irq, guestVars, bcons, old_cons,
                 count, can_send, again, stopreq, stopping, unheard>>

DrainOutOfBudget ==
  /\ bpc = "loop" /\ bcons # bprod /\ count >= Budget
  /\ bpc' = "publish"
  /\ UNCHANGED <<options, ringVars, kickfd, irq, guestVars, bprod, bcons,
                 old_cons, count, can_send, again, stopreq, stopping, unheard>>

\* translate_addr fails: the descriptor is skipped and not counted.
DrainSkip ==
  /\ bpc = "loop" /\ bcons # bprod /\ count < Budget
  /\ slot[Slot(bcons)] = "bad"
  /\ bcons' = Add(bcons, 1)
  /\ UNCHANGED <<options, ringVars, kickfd, irq, guestVars, bpc, bprod,
                 old_cons, count, can_send, again, stopreq, stopping, unheard>>

\* be->send takes the packet.
DrainSend ==
  /\ bpc = "loop" /\ bcons # bprod /\ count < Budget
  /\ slot[Slot(bcons)] # "bad"
  /\ slot' = [slot EXCEPT ![Slot(bcons)] = "sent"]
  /\ bcons' = Add(bcons, 1) /\ count' = count + 1
  /\ UNCHANGED <<options, prod, cons, clear, intr_at, kick_enabled, kickfd,
                 irq, guestVars, bpc, bprod, old_cons, can_send, again,
                 stopreq, stopping, unheard>>

\* be->send fails; with EAGAIN the poll loop will wait for room.
DrainSendFails(e) ==
  /\ bpc = "loop" /\ bcons # bprod /\ count < Budget
  /\ slot[Slot(bcons)] # "bad"
  /\ can_send' = (can_send /\ (busy_wait \/ e # "again"))
  /\ bpc' = "publish"
  /\ UNCHANGED <<options, ringVars, kickfd, irq, guestVars, bprod, bcons,
                 old_cons, count, again, stopreq, stopping, unheard>>

\* The end of an iteration of the backend's loop: where the thread goes on.
\* The locals of sring_txq_drain are gone.
DrainReturn ==
  /\ bpc' = IF stopping THEN "halted" ELSE "top"
  /\ bprod' = 0 /\ bcons' = 0 /\ old_cons' = 0 /\ count' = 0

\* Publish the buffers consumed, if a packet was sent.
DrainPublish ==
  /\ bpc = "publish"
  /\ IF count > 0
     THEN /\ old_cons' = cons /\ cons' = bcons /\ bpc' = "notify"
          /\ UNCHANGED <<bprod, bcons, count>>
     ELSE DrainReturn /\ UNCHANGED cons
  /\ UNCHANGED <<options, prod, clear, intr_at, kick_enabled, slot, kickfd,
                 irq, guestVars, can_send, again, stopreq, stopping, unheard>>

\* Has the consumer counter passed intr_at?
IntrPassed == Sub(bcons, Add(intr_at, 1)) < Sub(bcons, old_cons)

\* Load intr_at, raise the interrupt, and arrange for the next iteration.
DrainNotify ==
  /\ bpc = "notify"
  /\ irq' = (irq \/ IntrPassed)
  /\ again' = (~busy_wait /\ count >= Budget)
  /\ DrainReturn
  /\ UNCHANGED <<options, ringVars, kickfd, guestVars, can_send, stopreq,
                 stopping, unheard>>

-----------------------------------------------------------------------------
StartXmitStep ==
  \/ StartXmitGiveUp \/ sring_txp \/ sring_txp_kick \/ StartXmitStop
  \/ StartXmitBell

LockedStep ==
  StartXmitStep \/ sring_txc \/ TxCleanDone \/ sring_txi \/ sring_txi_arm
    \/ sring_txi_check \/ TxPollUnlock \/ sring_txr \/ CloseDone

TxPollTail == TxPollComplete \/ TxPollResched \/ TxPollWake

DrainStep ==
  \/ WorkerStarts \/ process_packets_poll \/ process_packets_spin
  \/ sring_txq_drain \/ DrainMute \/ DrainMeetsProd \/ DrainUnmute
  \/ DrainRecheck \/ DrainOutOfBudget \/ DrainSkip \/ DrainSend
  \/ DrainPublish \/ DrainNotify

Next ==
  \/ \E b \in BOOLEAN : bpfhv_start_xmit(b)
  \/ LockedStep \/ TxPollTail \/ bpfhv_tx_poll \/ bpfhv_tx_intr
  \/ bpfhv_close \/ CloseNapiDisable \/ bpfhv_open
  \/ DrainStep \/ PollOut \/ PollIn
  \/ \E e \in SendFails : DrainSendFails(e)

Spec == Init /\ [][Next]_vars

(***************************************************************************)
(* Fairness.  A context that has entered the driver runs to its end, a     *)
(* pending interrupt is delivered, a scheduled NAPI instance is polled,    *)
(* the backend thread keeps running and a full interface drains.  The      *)
(* stack owes nothing, except that a packet it announced (xmit_more) comes *)
(* and that a list of packets ends.  Nobody has to close the device, and   *)
(* no packet to receive is promised.                                       *)
(***************************************************************************)
LastOfBatch == xmit_more /\ bpfhv_start_xmit(FALSE)

Fairness ==
  /\ WF_vars(LockedStep) /\ WF_vars(TxPollTail) /\ WF_vars(bpfhv_tx_intr)
  /\ SF_vars(bpfhv_tx_poll) /\ SF_vars(LastOfBatch)
  /\ SF_vars(CloseNapiDisable) /\ WF_vars(bpfhv_open)
  /\ WF_vars(DrainStep) /\ WF_vars(PollOut) /\ SF_vars(DrainSend)

FairSpec == Spec /\ Fairness

-----------------------------------------------------------------------------
(***************************************************************************)
(* Properties.                                                             *)
(***************************************************************************)

\* The backend is inside sring_txq_drain, working on its copies of prod, cons.
Draining == bpc \notin {"start", "top", "drain", "halted"}

\* How many buffers the backend is done with, counting from clear.
Handled == Sub(IF Draining THEN bcons ELSE cons, clear)

\* The counters chase each other: clear, cons, the backend's private cons and
\* prod, and the shared prod never overtake one another and never span more
\* than the ring, whatever the wrap-around; and the driver's tx_free_bufs is
\* exactly the room left.  (Overtaking corrupts every later completion.)
RingOrder ==
  /\ tx_free = N - Sub(prod, clear)
  /\ Sub(cons, clear) <= Sub(prod, clear)
  /\ Draining => /\ Sub(cons, clear) <= Sub(bcons, clear)
                 /\ Sub(bcons, clear) <= Sub(bprod, clear)
                 /\ Sub(bprod, clear) <= Sub(prod, clear)

\* Every descriptor is in the hands the counters say: the driver gets back
\* (txc) only buffers the backend has handled, publishes (txp) only over
\* descriptors it got back, and the backend sends each buffer once.
Ownership ==
  \A d \in 0 .. N - 1 :
    LET s == slot[Slot(Add(clear, d))]
    IN  /\ d < Handled => s \in {"sent", "bad"}
        /\ Handled <= d /\ d < N - tx_free => s \in {"posted", "bad"}
        /\ N - tx_free <= d => s = "empty"

\* The polling thread is in poll() and nothing wakes it up for certain.
Asleep ==
  bpc = "top" /\ ~busy_wait /\ ~kickfd /\ ~again /\ ~stopreq /\ can_send

\* The ring holds no packet, or kicks are on and the driver is about to look at
\* kick_enabled or remembers that it owes the doorbell.
Announced ==
  \/ \A i \in Slots : slot[i] # "posted"
  \/ kick_enabled /\ (gpc = "kick" \/ kick_pending)

\* The polling backend never sleeps on packets nobody will announce, except on
\* those that txp published between bpfhv_open and the start of the thread,
\* with the kicks off that the previous thread left.
NoLostKick == Asleep => Announced \/ unheard

\* "Start with guest-->host notifications enabled": the loop of a new thread
\* starts with the guest telling it what it publishes.
StartsTold == Asleep => Announced

\* The buffers that close gives up on are all back: bpfhv_resources_dealloc
\* leaves no transmit buffer behind ("%d transmit buffers not reclaimed").
AllReclaimed ==
  dev = "down" => /\ tx_free = N
                  /\ \A i \in Slots : slot[i] = "empty"
                  /\ cons = prod

\* A packet that txp published is taken by the backend or reclaimed by close.
PacketsLeave ==
  \A i \in Slots : slot[i] = "posted" ~> slot[i] # "posted"

\* A buffer that the backend cannot translate is skipped, but cons moves past
\* it only together with a packet that is sent: alone in the ring it stays.
Clogged == \E i \in Slots : slot[i] = "bad"

\* With transmit NAPI a stopped queue is started again: some interrupt, poll or
\* reopening always gets the stack going (this driver has no transmit
\* watchdog), unless a bad buffer clogs the ring.
QueueRestarts == tx_napi /\ stopped ~> ~stopped \/ Clogged

\* The safety half of QueueRestarts: while the queue is stopped, something that
\* can start it again is under way.
NoStall ==
  stopped /\ dev = "up"
    => \/ gpc # "idle" \/ ppc # "idle" \/ napi = "sched" \/ irq
       \/ bpc # "top" \/ kickfd \/ again \/ ~can_send \/ busy_wait

\* The contract of sring_txi: after it returned 0 the backend cannot pass
\* intr_at without raising an interrupt, however its update of cons and its
\* load of intr_at interleave with the guest's store and double check.
NoLostInterrupt ==
  promised /\ ~irq /\ bpc # "notify"
    => Sub(cons, clear) <= Sub(intr_at, clear)

\* What that contract is for: a queue stopped while an interrupt is promised,
\* pending or being handled is started again.
PromisedRestart ==
  stopped /\ (promised \/ irq \/ napi = "sched") ~> ~stopped \/ Clogged

\* With transmit NAPI the driver gets every buffer back without having to wait
\* for the next packet to transmit.
BuffersReturn ==
  \A i \in Slots : tx_napi /\ slot[i] = "sent" ~> slot[i] = "empty"

\* bpfhv.h: "BPFHV_OFLAGS_KICK_NEEDED bit is set if the guest is required to
\* notify the hypervisor".  A driver that still owes that notification must
\* have an occasion to give it; a stopped queue gives none.
NoKickForgotten == gpc = "idle" /\ stopped /\ dev = "up" => ~kick_pending

=============================================================================
