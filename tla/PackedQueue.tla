----------------------------- MODULE PackedQueue -----------------------------
(***************************************************************************)
(* A transmit or a receive queue of the "vring_packed" device.             *)
(*                                                                         *)
(* Guest side: the programs of vring_packed_progs.c run by the driver's    *)
(* bpfhv_start_xmit, bpfhv_tx_poll, bpfhv_rx_poll, bpfhv_open and          *)
(* bpfhv_close, with transmit NAPI.  Host side: vring_packed_txq_drain and *)
(* vring_packed_rxq_push under process_packets_poll and                    *)
(* process_packets_spin.  What the driver does besides running programs    *)
(* (stopping and waking the stack's queue, batches, overlapping polls) is  *)
(* the subject of SringTx and SringRx; here it is reduced to when each     *)
(* program may run.                                                        *)
(***************************************************************************)
EXTENDS PackedRing, FiniteSets

CONSTANTS
  MaxBufs,     \* BPFHV_MAX_RX_BUFS: buffers per rxp and per rxr
  RefillAt,    \* 16: free buffers that make bpfhv_rx_clean refill
  PollBudget,  \* NAPI budget of bpfhv_rx_poll
  Budget,      \* BPFHV_BE_TX_BUDGET and BPFHV_BE_RX_BUDGET
  Dirs,        \* directions: a subset of {"tx", "rx"}
  BusyWaits,   \* values of the backend's option busy_wait
  BadBufs,     \* may a buffer have an address the backend cannot translate?
  IfFails,     \* failures of send and recv: a subset of {"again", "error"}
  RefillFails, \* what may cut a refill short: a subset of {"oom", "dma"}
  AllocFails,  \* may rx_pkt_alloc fail?
  MayReopen    \* may the interface be opened again after a close?

ASSUME QueueAssumption ==
  /\ N >= 2 /\ IsFiniteSet(Bufs) /\ Cardinality(Bufs) = N
  /\ MaxBufs \in Nat \ {0} /\ RefillAt \in Nat \ {0}
  /\ PollBudget \in Nat \ {0} /\ Budget \in Nat \ {0}
  /\ Dirs \subseteq {"tx", "rx"} /\ BusyWaits \subseteq BOOLEAN
  /\ IfFails \subseteq {"again", "error"}
  /\ RefillFails \subseteq {"oom", "dma"} /\ AllocFails \in BOOLEAN
  /\ BadBufs \in BOOLEAN /\ MayReopen \in BOOLEAN

VARIABLES
  dir, busy_wait,  \* which queue this is, and the backend's option
  vq,              \* the virtqueue, in memory shared by guest and backend
  held,            \* buffers that are not in the ring
  lost,            \* those of them that a failed rx_pkt_alloc left uncounted
  gpc, op,         \* guest: where it is, and in which function of the driver
  left, num,       \* guest: buffers this txp or rxp has yet to add, has added
  min,             \* guest: ctx->min_completed_bufs
  polled,          \* guest: packets bpfhv_rx_clean has taken
  kick_pending,    \* guest: txp asked for a kick
  napi, dev,       \* guest: NAPI state; state of the interface
  broken,          \* guest: vring_packed_get has returned -1
  kickfd, irq,     \* eventfds: doorbell and interrupt of the queue
  bpc, count,      \* backend thread: where it is, buffers of this round
  can_send, again, \* backend thread: POLLOUT not needed, poll_timeout is 0
  stopreq,         \* the backend thread is asked to stop
  stopping,        \* backend thread: it has seen the stop event
  work             \* a packet to receive waits in the host interface

rigid     == <<dir, busy_wait>>
batchVars == <<left, num, min, polled, kick_pending>>
guestVars == <<held, lost, gpc, op, batchVars, napi, dev, broken>>
fds       == <<kickfd, irq>>
loopVars  == <<can_send, again, stopreq, stopping>>
beVars    == <<bpc, count, loopVars>>
vars == <<rigid, vq, guestVars, fds, beVars, work>>

TypeOK ==
  /\ dir \in {"tx", "rx"} /\ busy_wait \in BOOLEAN
  /\ vq \in Virtq /\ held \subseteq Bufs /\ lost \subseteq held
  /\ gpc \in {"idle", "clean", "publish", "kick", "complete", "arm", "check",
              "enable", "dealloc", "reclaim"}
  /\ op \in {"none", "xmit", "poll", "open", "close"}
  /\ left \in 0 .. N /\ num \in 0 .. N /\ min \in 0 .. N
  /\ polled \in Nat
  /\ napi \in {"off", "idle", "sched", "missed"}
  /\ dev \in {"new", "opening", "up", "closing", "down", "leaked"}
  /\ {kick_pending, broken, kickfd, irq, can_send, again, stopreq, stopping,
      work} \subseteq BOOLEAN
  /\ bpc \in {"halted", "start", "top", "begin", "look", "enable", "recheck",
              "remute", "use", "notify"}
  /\ count \in 0 .. Budget

Init ==
  /\ dir \in Dirs /\ busy_wait \in BusyWaits
  /\ \E b \in Bufs : vq = vring_packed_init(b)
  /\ held = Bufs /\ lost = {} /\ gpc = "idle" /\ op = "none"
  /\ left = 0 /\ num = 0 /\ min = 0 /\ polled = 0 /\ kick_pending = FALSE
  /\ napi = "off" /\ dev = "new" /\ broken = FALSE
  /\ kickfd = FALSE /\ irq = FALSE
  /\ bpc = "halted" /\ count = 0 /\ can_send = TRUE /\ again = FALSE
  /\ stopreq = FALSE /\ stopping = FALSE /\ work = FALSE

-----------------------------------------------------------------------------
(***************************************************************************)
(* The guest.                                                              *)
(***************************************************************************)
\* tx_free_bufs, rx_free_bufs.
Free == Cardinality(held \ lost)
HALF_PENDING_BUFS == 1 + (N - Free) \div 2

\* napi_schedule on an instance that is scheduled leaves NAPIF_STATE_MISSED;
\* it does nothing while bpfhv_close waits in napi_disable.
Scheduled ==
  CASE napi = "off" \/ dev = "closing" -> napi
    [] napi = "idle" /\ dev # "closing" -> "sched"
    [] napi \in {"sched", "missed"} /\ dev # "closing" -> "missed"

napi_complete == IF napi = "missed" THEN "sched" ELSE "idle"

\* The doorbell, rung or not.  A busy-waiting backend never reads it: it is
\* kept for the polling one only.
Doorbell(ring) == ~busy_wait /\ (kickfd \/ ring)

Return == gpc' = "idle" /\ op' = "none" /\ polled' = 0 /\ min' = 0

\* bpfhv_tx_clean and bpfhv_rx_clean run until nothing is used, the latter
\* for at most its budget, which at close is the number of buffers.
BudgetLeft ==
  dir = "tx" \/ polled < (IF op = "close" THEN N ELSE PollBudget)

\* bpfhv_rx_refill: the size of the next rxp, for a number of free buffers.
RefillSize(free) == IF free > MaxBufs THEN MaxBufs ELSE free

bpfhv_open ==
  /\ dev = "new" \/ (MayReopen /\ dev \in {"down", "leaked"})
  /\ dev' = "opening" /\ op' = "open" /\ num' = 0
  /\ gpc' = IF dir = "rx" THEN "publish" ELSE "enable"
  /\ left' = IF dir = "rx" THEN RefillSize(Free) ELSE 0
  /\ UNCHANGED <<rigid, vq, held, lost, min, polled, kick_pending, napi,
                 broken, fds, beVars, work>>

\* The end of bpfhv_open: NAPI on, and the backend creates a thread.
OpenEnable ==
  /\ gpc = "enable"
  /\ dev' = "up" /\ napi' = "idle" /\ Return
  /\ bpc' = "start" /\ can_send' = TRUE /\ again' = FALSE
  /\ stopreq' = FALSE /\ stopping' = FALSE
  /\ UNCHANGED <<rigid, vq, held, lost, left, num, kick_pending, broken, fds,
                 count, work>>

bpfhv_start_xmit ==
  /\ dir = "tx" /\ dev = "up" /\ gpc = "idle"
  /\ gpc' = "clean" /\ op' = "xmit"
  /\ UNCHANGED <<rigid, vq, held, lost, batchVars, napi, dev, broken, fds,
                 beVars, work>>

bpfhv_intr ==
  /\ irq /\ irq' = FALSE
  /\ napi' = Scheduled
  /\ UNCHANGED <<rigid, vq, held, lost, gpc, op, batchVars, dev, broken,
                 kickfd, beVars, work>>

\* bpfhv_tx_poll and bpfhv_rx_poll start by disabling the interrupts.
bpfhv_poll ==
  /\ napi \in {"sched", "missed"} /\ gpc = "idle"
  /\ vq' = vring_packed_intr(vq, 0)
  /\ gpc' = "clean" /\ op' = "poll"
  /\ UNCHANGED <<rigid, held, lost, batchVars, napi, dev, broken, fds, beVars,
                 work>>

\* vring_packed_txc, vring_packed_rxc: complete the next used buffer.
vring_packed_xc ==
  /\ gpc = "clean" /\ BudgetLeft
  /\ vring_packed_more_used(vq) /\ ~vring_packed_get_fails(vq)
  /\ vq' = vring_packed_get(vq)
  /\ held' = held \cup {GotCookie(vq)}
  /\ polled' = IF dir = "rx" THEN polled + 1 ELSE 0
  /\ LET free == Cardinality(held' \ lost)
     IN  IF dir = "rx" /\ free >= RefillAt
         THEN gpc' = "publish" /\ num' = 0 /\ left' = RefillSize(free)
         ELSE UNCHANGED <<gpc, num, left>>
  /\ UNCHANGED <<rigid, lost, op, min, kick_pending, napi, dev, broken, fds,
                 beVars, work>>

\* rx_pkt_alloc fails after vring_packed_get: bpfhv_rx_clean gives up without
\* counting the buffer.
RxAllocFails ==
  /\ AllocFails /\ dir = "rx"
  /\ gpc = "clean" /\ BudgetLeft
  /\ vring_packed_more_used(vq) /\ ~vring_packed_get_fails(vq)
  /\ vq' = vring_packed_get(vq)
  /\ held' = held \cup {GotCookie(vq)} /\ lost' = lost \cup {GotCookie(vq)}
  /\ gpc' = IF op = "poll" THEN "complete" ELSE "dealloc"
  /\ polled' = 0
  /\ UNCHANGED <<rigid, op, left, num, min, kick_pending, napi, dev, broken,
                 fds, beVars, work>>

\* Nothing more to complete, no budget left, or an error.
CleanDone ==
  /\ gpc = "clean"
  /\ \/ ~BudgetLeft \/ ~vring_packed_more_used(vq)
     \/ vring_packed_get_fails(vq)
  /\ broken' = (broken \/ (BudgetLeft /\ vring_packed_more_used(vq)))
  /\ \/ /\ op = "xmit" /\ Free = 0
        /\ Return /\ UNCHANGED <<left, num, napi>>
     \/ /\ op = "xmit" /\ Free > 0
        /\ gpc' = "publish" /\ left' = 1 /\ num' = 0 /\ polled' = 0
        /\ UNCHANGED <<op, min, napi>>
     \/ /\ op = "poll" /\ dir = "tx"
        /\ gpc' = "arm" /\ min' = HALF_PENDING_BUFS /\ polled' = 0
        /\ UNCHANGED <<op, left, num, napi>>
     \/ /\ op = "poll" /\ dir = "rx" /\ polled < PollBudget
        /\ gpc' = "complete" /\ polled' = 0
        /\ UNCHANGED <<op, left, num, min, napi>>
     \/ /\ op = "poll" /\ dir = "rx" /\ polled >= PollBudget
        /\ napi' = IF dev = "closing" THEN napi_complete ELSE napi
        /\ Return /\ UNCHANGED <<left, num>>
     \/ /\ op = "close"
        /\ gpc' = "reclaim" /\ polled' = 0
        /\ UNCHANGED <<op, left, num, min, napi>>
  /\ UNCHANGED <<rigid, vq, held, lost, kick_pending, dev, fds, beVars, work>>

\* vring_packed_add of one buffer, by txp or rxp.
PublishOne ==
  /\ gpc = "publish"
  /\ \E b \in held \ lost, bad \in {FALSE, BadBufs} :
       vq' = vring_packed_add(vq, b, bad) /\ held' = held \ {b}
  /\ left' = left - 1 /\ num' = num + 1
  /\ gpc' = IF left = 1 THEN "kick" ELSE "publish"
  /\ UNCHANGED <<rigid, lost, op, min, polled, kick_pending, napi, dev, broken,
                 fds, beVars, work>>

\* A buffer cannot be allocated or mapped: rxp gets those before it.  Only if
\* it was not allocated will bpfhv_rx_refill give up (left # 0).
RefillCutShort ==
  /\ gpc = "publish" /\ dir = "rx"
  /\ \E why \in RefillFails : left' = IF why = "oom" THEN left ELSE 0
  /\ gpc' = "kick"
  /\ UNCHANGED <<rigid, vq, held, lost, op, num, min, polled, kick_pending,
                 napi, dev, broken, fds, beVars, work>>

\* The end of txp, after the full barrier: is a kick needed?  With transmit
\* NAPI bpfhv_start_xmit goes on to txi.
vring_packed_txp ==
  /\ gpc = "kick" /\ dir = "tx"
  /\ kick_pending' = (kick_pending \/ vring_packed_kick_needed(vq, num))
  /\ min' = HALF_PENDING_BUFS /\ gpc' = "arm" /\ num' = 0
  /\ UNCHANGED <<rigid, vq, held, lost, op, left, polled, napi, dev, broken,
                 fds, beVars, work>>

\* The end of rxp; bpfhv_rx_refill rings the doorbell and goes on.
vring_packed_rxp ==
  /\ gpc = "kick" /\ dir = "rx"
  /\ kickfd' = Doorbell(vring_packed_kick_needed(vq, num))
  /\ \/ /\ Free > 0 /\ left = 0
        /\ gpc' = "publish" /\ left' = RefillSize(Free)
     \/ /\ Free = 0 \/ left # 0
        /\ gpc' = (IF op = "open" THEN "enable" ELSE "clean") /\ left' = 0
  /\ num' = 0
  /\ UNCHANGED <<rigid, vq, held, lost, op, min, polled, kick_pending, napi,
                 dev, broken, irq, beVars, work>>

\* bpfhv_rx_poll completes NAPI before it enables the interrupts.
RxPollComplete ==
  /\ gpc = "complete"
  /\ napi' = napi_complete
  /\ min' = 1 /\ gpc' = "arm"
  /\ UNCHANGED <<rigid, vq, held, lost, op, left, num, polled, kick_pending,
                 dev, broken, fds, beVars, work>>

\* vring_packed_txi, vring_packed_rxi: store the event ...
vring_packed_xi ==
  /\ gpc = "arm"
  /\ vq' = vring_packed_intr(vq, min)
  /\ gpc' = "check"
  /\ UNCHANGED <<rigid, held, lost, op, batchVars, napi, dev, broken, fds,
                 beVars, work>>

\* ... and look at the descriptor it is about.  bpfhv_start_xmit ignores the
\* answer and rings the doorbell it owes; bpfhv_tx_poll completes NAPI; a poll
\* that finds more schedules itself again.
XiCheck ==
  /\ gpc = "check"
  /\ LET more == vring_packed_intr_check(vq, min)
     IN  napi' = CASE op # "poll" -> napi
                   [] op = "poll" /\ more /\ dev # "closing" -> "sched"
                   [] op = "poll" /\ (~more \/ dev = "closing") ->
                        IF dir = "tx" THEN napi_complete ELSE napi
  /\ kickfd' = Doorbell(op = "xmit" /\ kick_pending)
  /\ kick_pending' = FALSE
  /\ Return
  /\ UNCHANGED <<rigid, vq, held, lost, left, num, dev, broken, irq, beVars,
                 work>>

\* bpfhv_close: the backend thread is asked to stop, ...
bpfhv_close ==
  /\ dev = "up" /\ (gpc = "idle" \/ op = "poll")
  /\ dev' = "closing" /\ stopreq' = TRUE
  /\ UNCHANGED <<rigid, vq, held, lost, gpc, op, batchVars, napi, broken, fds,
                 bpc, count, can_send, again, stopping, work>>

\* Mutant of CloseNapiDisable: the backend is not waited for.
CloseWithoutHalt ==
  /\ dev = "closing" /\ napi = "idle" /\ gpc = "idle"
  /\ napi' = "off" /\ gpc' = "clean" /\ op' = "close"
  /\ UNCHANGED <<rigid, vq, held, lost, batchVars, dev, broken, fds, beVars,
                 work>>

\* ... napi_disable waits for the poll, the last completions are collected ...
CloseNapiDisable ==
  /\ dev = "closing" /\ bpc = "halted" /\ napi = "idle" /\ gpc = "idle"
  /\ napi' = "off" /\ gpc' = "clean" /\ op' = "close"
  /\ UNCHANGED <<rigid, vq, held, lost, batchVars, dev, broken, fds, beVars,
                 work>>

\* ... and bpfhv_resources_dealloc reclaims the rest (vring_packed_txr,
\* vring_packed_rxr).
vring_packed_xr ==
  /\ gpc = "reclaim"
  /\ vring_packed_more_pending(vq) /\ ~vring_packed_get_fails(vq)
  /\ vq' = vring_packed_get(vq)
  /\ held' = held \cup {GotCookie(vq)}
  /\ UNCHANGED <<rigid, lost, gpc, op, batchVars, napi, dev, broken, fds,
                 beVars, work>>

CloseDone ==
  /\ gpc = "reclaim"
  /\ ~vring_packed_more_pending(vq) \/ vring_packed_get_fails(vq)
  /\ broken' = (broken \/ vring_packed_more_pending(vq))
  /\ dev' = "down" /\ Return
  /\ UNCHANGED <<rigid, vq, held, lost, left, num, kick_pending, napi, fds,
                 beVars, work>>

\* After a failed rxc too bpfhv_resources_dealloc goes on with rxr.  A used
\* descriptor that rxc never came to hides what lies behind it from rxr.
CloseGoesOn ==
  /\ gpc = "dealloc" /\ ~vring_packed_more_used(vq)
  /\ gpc' = "reclaim"
  /\ UNCHANGED <<rigid, vq, held, lost, op, batchVars, napi, dev, broken, fds,
                 beVars, work>>

CloseLeaks ==
  /\ gpc = "dealloc" /\ vring_packed_more_used(vq)
  /\ dev' = "leaked" /\ Return
  /\ UNCHANGED <<rigid, vq, held, lost, left, num, kick_pending, napi, broken,
                 fds, beVars, work>>

-----------------------------------------------------------------------------
(***************************************************************************)
(* The backend thread.                                                     *)
(***************************************************************************)
PacketArrives ==
  /\ dir = "rx" /\ ~work /\ work' = TRUE
  /\ UNCHANGED <<rigid, vq, guestVars, fds, beVars>>

\* A new thread turns the kicks on (polling) or off (busy-waiting).
ThreadStarts ==
  /\ bpc = "start" /\ bpc' = "top"
  /\ vq' = vring_packed_notification(vq, ~busy_wait)
  /\ UNCHANGED <<rigid, guestVars, fds, count, loopVars, work>>

WakeUp ==
  /\ bpc = "top" /\ ~busy_wait
  /\ kickfd' = FALSE /\ again' = FALSE /\ stopping' = stopreq
  /\ bpc' = "begin"
  /\ UNCHANGED <<rigid, vq, guestVars, irq, count, can_send, stopreq, work>>

\* poll returns for a kick, an unfinished batch, the stop event, POLLOUT after
\* a full interface, or POLLIN (rxq_push never clears can_receive) ...
process_packets_poll ==
  (kickfd \/ again \/ stopreq \/ ~can_send \/ work) /\ WakeUp

\* ... or for an event of the other queue, which nobody promises.
PollOther == WakeUp

process_packets_spin ==
  /\ bpc = "top" /\ busy_wait
  /\ bpc' = IF stopreq THEN "halted" ELSE "begin"
  /\ UNCHANGED <<rigid, vq, guestVars, fds, count, loopVars, work>>

\* vring_packed_txq_drain, vring_packed_rxq_push: disable the kicks
\* (rxq_push also when busy-waiting).
RoundBegins ==
  /\ bpc = "begin"
  /\ vq' = IF dir = "rx" \/ ~busy_wait
           THEN vring_packed_notification(vq, FALSE) ELSE vq
  /\ can_send' = TRUE /\ bpc' = "look"
  /\ UNCHANGED <<rigid, guestVars, fds, count, again, stopreq, stopping, work>>

RoundLooks ==
  /\ bpc = "look"
  /\ bpc' = CASE vring_packed_more_avail(vq) -> "use"
              [] ~vring_packed_more_avail(vq) /\ busy_wait -> "notify"
              [] ~vring_packed_more_avail(vq) /\ ~busy_wait -> "enable"
  /\ UNCHANGED <<rigid, vq, guestVars, fds, count, loopVars, work>>

RoundEnables ==
  /\ bpc = "enable"
  /\ vq' = vring_packed_notification(vq, TRUE)
  /\ bpc' = "recheck"
  /\ UNCHANGED <<rigid, guestVars, fds, count, loopVars, work>>

\* Mutant of RoundRechecks: no double check after the kicks were enabled.
RoundUnchecked ==
  /\ bpc = "recheck"
  /\ bpc' = "notify"
  /\ UNCHANGED <<rigid, vq, guestVars, fds, count, loopVars, work>>

RoundRechecks ==
  /\ bpc = "recheck"
  /\ bpc' = IF vring_packed_more_avail(vq) THEN "remute" ELSE "notify"
  /\ UNCHANGED <<rigid, vq, guestVars, fds, count, loopVars, work>>

RoundRemutes ==
  /\ bpc = "remute"
  /\ vq' = vring_packed_notification(vq, FALSE)
  /\ bpc' = "use"
  /\ UNCHANGED <<rigid, guestVars, fds, count, loopVars, work>>

RoundOutOfBudget ==
  /\ bpc = "use" /\ count >= Budget
  /\ bpc' = "notify"
  /\ UNCHANGED <<rigid, vq, guestVars, fds, count, loopVars, work>>

\* An untranslatable buffer is handed back as if used (rx: with length 0); any
\* other is sent, or filled with the packet that waits.
UseOne ==
  /\ bpc = "use" /\ count < Budget
  /\ LET bad == vq.desc[vq.h.avail].bad
     IN  /\ bad \/ dir = "tx" \/ work
         /\ vq' = UseInOrder(vq)
         /\ work' = (work /\ bad)
  /\ count' = count + 1 /\ bpc' = "look"
  /\ UNCHANGED <<rigid, guestVars, fds, loopVars>>

\* send fails, and with EAGAIN the poll loop waits for room; recv finds no
\* packet, or fails.
UseFails ==
  /\ bpc = "use" /\ count < Budget
  /\ ~vq.desc[vq.h.avail].bad
  /\ \E e \in {"again", "error"} :
       /\ e \in IfFails \/ (dir = "rx" /\ ~work)
       /\ can_send' = (dir = "rx" \/ busy_wait \/ e # "again")
  /\ bpc' = "notify"
  /\ UNCHANGED <<rigid, vq, guestVars, fds, count, again, stopreq, stopping,
                 work>>

\* After the full barrier: raise the interrupt if the event was passed, and go
\* round the loop again.
RoundNotifies ==
  /\ bpc = "notify"
  /\ irq' = (irq \/ (count > 0 /\ vring_packed_intr_needed(vq, count)))
  /\ again' = (~busy_wait /\ count >= Budget)
  /\ bpc' = IF stopping THEN "halted" ELSE "top"
  /\ count' = 0
  /\ UNCHANGED <<rigid, vq, guestVars, kickfd, can_send, stopreq, stopping,
                 work>>

-----------------------------------------------------------------------------
GuestStep ==
  \/ OpenEnable \/ vring_packed_xc \/ RxAllocFails \/ CleanDone
  \/ PublishOne \/ RefillCutShort \/ vring_packed_txp \/ vring_packed_rxp
  \/ RxPollComplete \/ vring_packed_xi \/ XiCheck \/ CloseNapiDisable
  \/ vring_packed_xr \/ CloseDone \/ CloseGoesOn \/ CloseLeaks

BackendStep ==
  \/ ThreadStarts \/ process_packets_poll \/ process_packets_spin
  \/ RoundBegins \/ RoundLooks \/ RoundEnables \/ RoundRechecks
  \/ RoundRemutes \/ RoundOutOfBudget \/ UseOne \/ UseFails \/ RoundNotifies

Next ==
  \/ bpfhv_open \/ bpfhv_start_xmit \/ bpfhv_close \/ bpfhv_intr \/ bpfhv_poll
  \/ PacketArrives \/ PollOther \/ GuestStep \/ BackendStep

Spec == Init /\ [][Next]_vars

-----------------------------------------------------------------------------
(***************************************************************************)
(* Properties.                                                             *)
(***************************************************************************)
\* From here to the end of a close the guest takes back what is pending.
Reclaiming == gpc = "reclaim" \/ dev = "down"

InRing == DescsFrom(vq, GUsed(vq), GAvail(vq))

\* The two sides' indices and laps, the identifiers and the free list describe
\* one ring: the backend's position lies between the guest's two; every
\* outstanding descriptor has an identifier of its own, marked busy, whose
\* cookie is the buffer the descriptor points to; the free list holds exactly
\* the other identifiers; vring_packed_get never hits "This is a bug"; and a
\* closed device has given every buffer back, all of them counted free, unless
\* an rx_pkt_alloc failed: then that buffer is not counted, and if it failed
\* at close with more used behind it (dev is "leaked") the ring keeps the rest.
RingConsistent ==
  LET ring == InRing
      ids  == {ring[k].id : k \in DOMAIN ring}
  IN  /\ ~broken
      /\ dev = "down" => held = Bufs
      /\ dir = "tx" \/ ~AllocFails => lost = {} /\ dev # "leaked"
      /\ Len(ring) = N - Cardinality(held)
      /\ Cardinality(ids) = Len(ring)
      /\ ids = {i \in Slots : vq.state[i].busy}
      /\ \A k \in DOMAIN ring : vq.state[ring[k].id].cookie = ring[k].addr
      /\ FreeIds(vq, N - Len(ring)) = Slots \ ids
      /\ ~Reclaiming =>
           /\ HUsed(vq) = HAvail(vq)
           /\ Dist(GUsed(vq), HUsed(vq)) <= Dist(GUsed(vq), GAvail(vq))

\* The polling backend never sleeps on a descriptor nobody will tell it about.
NoLostKick ==
  /\ bpc = "top" /\ ~busy_wait /\ ~kickfd /\ ~again /\ ~stopreq /\ can_send
  /\ dir = "tx" /\ vring_packed_more_avail(vq)
  => kick_pending \/ (gpc = "kick" /\ vring_packed_kick_needed(vq, num))

\* While the guest waits for an interrupt, the event it stored has not been
\* passed: whatever the laps of both sides, the backend that passes it sees it
\* and the guest that stores it late sees the used descriptor.
NoLostInterrupt ==
  /\ dev = "up" /\ gpc = "idle" /\ napi = "idle" /\ ~irq
  /\ bpc \notin {"look", "enable", "recheck", "remute", "use", "notify"}
  /\ vq.driver_event.flags = "DESC"
  => Dist(GUsed(vq), HUsed(vq))
       <= Dist(GUsed(vq), Pos(vq.driver_event.idx, vq.driver_event.wrap))

Addrs(s) == [k \in DOMAIN s |-> s[k].addr]

\* The buffers the backend has yet to use, and those the guest has yet to
\* complete, oldest first.
Posted == Addrs(IF Reclaiming THEN InRing
                ELSE DescsFrom(vq, HAvail(vq), GAvail(vq)))
Handed == Addrs(IF Reclaiming THEN <<>>
                ELSE DescsFrom(vq, GUsed(vq), HUsed(vq)))

\* The abstract queue this one implements.
BQ == INSTANCE BufferQueue WITH
        Buffers <- Bufs,  Lossy <- AllocFails,  guest   <- held \ lost,
        posted  <- Posted,  taken <- {},  used  <- Handed,
        enabled <- bpc # "halted"

\* vring_packed implements the contract of bpfhv.h: buffers come back complete,
\* once, and in order, and only reclaimed after the backend stopped; none is
\* lost but by a failed rx_pkt_alloc.
ImplementsQueue == BQ!Spec
=============================================================================
