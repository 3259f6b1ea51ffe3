------------------------------ MODULE SringGso ------------------------------
(***************************************************************************)
(* A transmit or a receive queue of the "sring_gso" device, whose packets  *)
(* take several descriptors: the fragments of a packet to transmit, or as  *)
(* many receive buffers as a packet of the largest size may need.          *)
(*                                                                         *)
(* Guest side: the programs of sring_gso_progs.c as the driver runs them   *)
(* (with transmit NAPI), including the mapping of the fragments in         *)
(* bpfhv_start_xmit.  Host side: sring_gso_txq_drain and                   *)
(* sring_gso_rxq_push under process_packets_poll and process_packets_spin. *)
(* The checksum and segmentation metadata are not part of the model.       *)
(***************************************************************************)
EXTENDS WrapArith, FiniteSets

CONSTANTS
  N,           \* number of descriptors in the ring (a power of two)
  MaxBufs,     \* BPFHV_MAX_TX_BUFS and BPFHV_MAX_RX_BUFS
  MaxFrags,    \* MAX_SKB_FRAGS
  RefillAt,    \* 16: free buffers that make bpfhv_rx_clean refill
  Need,        \* receive buffers that hold a packet of max_rx_pkt_size
  PollBudget,  \* NAPI budget of bpfhv_rx_poll
  Budget,      \* BPFHV_BE_TX_BUDGET and BPFHV_BE_RX_BUDGET
  Dirs,        \* directions: a subset of {"tx", "rx"}
  BusyWaits,   \* values of the backend's option busy_wait
  BadBufs,     \* directions in which a buffer may have an address that the
               \* backend cannot translate
  MapFails,    \* may the mapping of a fragment fail?
  SendFails,   \* failures of send: a subset of {"again", "error"}
  RefillFails, \* what may cut a refill short: a subset of {"oom", "dma"}
  AllocFails,  \* may rx_pkt_alloc fail?
  MayReopen    \* may the interface be opened again after a close?

ASSUME GsoAssumption ==
  /\ N \in Nat \ {0} /\ N < W /\ W % N = 0
  /\ MaxBufs \in Nat \ {0} /\ PollBudget \in Nat \ {0} /\ Budget \in Nat \ {0}
  /\ MaxFrags \in Nat /\ MaxFrags + 1 <= MaxBufs
  /\ RefillAt \in Nat \ {0} /\ Need \in Nat \ {0}
  /\ SendFails \subseteq {"again", "error"}
  /\ RefillFails \subseteq {"oom", "dma"} /\ AllocFails \in BOOLEAN
  /\ Dirs \subseteq {"tx", "rx"} /\ BusyWaits \subseteq BOOLEAN
  /\ BadBufs \subseteq {"tx", "rx"}
  /\ MapFails \in BOOLEAN /\ MayReopen \in BOOLEAN

VARIABLES
  dir, busy_wait,        \* which queue this is, and the backend's option
  \* struct sring_gso_tx_context, struct sring_gso_rx_context
  prod, cons, clear, kick_enabled,
  intr_at,               \* transmit: completion that raises an interrupt
  intr_enabled,          \* receive: interrupts wanted
  desc,                  \* the ring: what became of each buffer, EOP flags
  free,                  \* guest: tx_free_bufs, rx_free_bufs
  oom,                   \* guest: the last bpfhv_rx_refill gave up
  gpc, op,               \* guest: where it is, in which function of the driver
  todo,                  \* guest: buffers of the packet being transmitted
  min, polled,           \* guest: ctx->min_completed_bufs, packets of this poll
  kick_pending, stopped, \* guest: doorbell owed; stack's queue stopped
  napi, dev,             \* guest: NAPI state; state of the interface
  kickfd, irq,           \* eventfds: doorbell and interrupt of the queue
  bpc, bprod, bcons,     \* backend: where it is, its copies of prod and cons
  cons_first, count,     \* backend: start of this packet, packets of this round
  can, again,            \* backend: *can_send or *can_receive; poll_timeout = 0
  stopreq, stopping,     \* the backend is asked to stop; it has seen so
  work,                  \* a packet waits in the host interface
  overrun                \* history: a receive round ran out of budget

rigid     == <<dir, busy_wait>>
bufVars   == <<free, oom>>
ringVars  == <<prod, cons, clear, desc, bufVars>>
flagVars  == <<kick_enabled, intr_at, intr_enabled>>
callVars  == <<gpc, op, todo, min, polled>>
guestVars == <<callVars, kick_pending, stopped, napi, dev>>
fds       == <<kickfd, irq>>
copyVars  == <<bprod, bcons, cons_first>>
beVars    == <<bpc, copyVars, count, can, again, stopreq, stopping>>
vars == <<rigid, ringVars, flagVars, guestVars, fds, beVars, work, overrun>>

Slots == 0 .. N - 1
At(c) == desc[c % N]

TypeOK ==
  /\ dir \in {"tx", "rx"} /\ busy_wait \in BOOLEAN
  /\ {prod, cons, clear, intr_at, bprod, bcons, cons_first} \subseteq Counter
  /\ desc \in [Slots -> [is : {"empty", "posted", "bad", "done"},
                         eop : BOOLEAN]]
  /\ free \in 0 .. N
  /\ gpc \in {"idle", "clean", "map", "kick", "arm", "store", "check", "stop",
              "refill", "complete", "enable", "reclaim", "lost"}
  /\ op \in {"none", "xmit", "poll", "open", "close"}
  /\ todo \in 0 .. MaxFrags + 1 /\ min \in 0 .. N /\ polled \in Nat
  /\ napi \in {"off", "idle", "sched", "missed"}
  /\ dev \in {"new", "down", "opening", "up", "closing"}
  /\ bpc \in {"halted", "start", "top", "begin", "look", "unmute", "recheck",
              "remute", "use", "recv", "publish", "notify"}
  /\ count \in 0 .. Budget
  /\ {kick_enabled, intr_enabled, kick_pending, stopped, kickfd, irq, can,
      again, stopreq, stopping, work, overrun, oom} \subseteq BOOLEAN

\* sring_gso_tx_ctx_init, sring_gso_rx_ctx_init.
sring_gso_ctx_init ==
  /\ prod = 0 /\ cons = 0 /\ clear = 0 /\ kick_enabled = TRUE
  /\ intr_at = 0 /\ intr_enabled = TRUE
  /\ desc = [i \in Slots |-> [is |-> "empty", eop |-> FALSE]]

Init ==
  /\ dir \in Dirs /\ busy_wait \in BusyWaits
  /\ sring_gso_ctx_init /\ free = N /\ oom = FALSE
  /\ gpc = "idle" /\ op = "none" /\ todo = 0 /\ min = 0 /\ polled = 0
  /\ kick_pending = FALSE /\ stopped = TRUE /\ napi = "off" /\ dev = "new"
  /\ kickfd = FALSE /\ irq = FALSE
  /\ bpc = "halted" /\ bprod = 0 /\ bcons = 0 /\ cons_first = 0 /\ count = 0
  /\ can = TRUE /\ again = FALSE /\ stopreq = FALSE /\ stopping = FALSE
  /\ work = FALSE /\ overrun = FALSE

-----------------------------------------------------------------------------
(***************************************************************************)
(* The guest.                                                              *)
(***************************************************************************)
\* Mutant of HALF_PENDING_BUFS: one more than are pending.
AllAndOne == 1 + (N - free)

HALF_PENDING_BUFS == 1 + (N - free) \div 2

Completed == Sub(cons, clear)

Scheduled ==
  CASE napi = "off" \/ dev = "closing" -> napi
    [] napi = "idle" /\ dev # "closing" -> "sched"
    [] napi \in {"sched", "missed"} /\ dev # "closing" -> "missed"

napi_complete == IF napi = "missed" THEN "sched" ELSE "idle"

Return == gpc' = "idle" /\ op' = "none" /\ polled' = 0 /\ min' = 0 /\ todo' = 0

\* The slots of the n counter values from c on, and the ring after they were
\* given the contents d(k), k = 0 .. n - 1.
SlotsFrom(c, n) == {Add(c, k) % N : k \in 0 .. n - 1}
Fill(c, n, d(_)) ==
  [i \in Slots |-> IF i \in SlotsFrom(c, n)
                   THEN d(CHOOSE k \in 0 .. n - 1 : Add(c, k) % N = i)
                   ELSE desc[i]]

Emptied(c, n) == Fill(c, n, LAMBDA k : [is |-> "empty", eop |-> FALSE])

\* How many descriptors from clear on, of the next limit ones, make one packet:
\* up to the first EOP, and never more than fit in the context.
ToEop(limit) ==
  LET most == IF limit > MaxBufs THEN MaxBufs ELSE limit
      ends == {k \in 1 .. most : At(Add(clear, k - 1)).eop}
  IN  IF ends = {} THEN most ELSE CHOOSE k \in ends : \A e \in ends : k <= e

bpfhv_open ==
  /\ dev = "new" \/ (MayReopen /\ dev = "down")
  /\ dev' = "opening" /\ op' = "open"
  /\ gpc' = IF dir = "rx" THEN "refill" ELSE "enable"
  /\ UNCHANGED <<rigid, ringVars, flagVars, todo, min, polled, kick_pending,
                 stopped, napi, fds, beVars, work, overrun>>

\* The end of bpfhv_open: NAPI on, and the backend creates a thread.
OpenEnable ==
  /\ gpc = "enable"
  /\ dev' = "up" /\ napi' = "idle" /\ stopped' = FALSE /\ Return
  /\ bpc' = "start" /\ can' = TRUE /\ again' = FALSE
  /\ stopreq' = FALSE /\ stopping' = FALSE
  /\ UNCHANGED <<rigid, ringVars, flagVars, kick_pending, fds, copyVars, count,
                 work, overrun>>

\* The stack hands over a packet of todo buffers.
bpfhv_start_xmit ==
  /\ dir = "tx" /\ dev = "up" /\ gpc = "idle" /\ ~stopped
  /\ gpc' = "clean" /\ op' = "xmit" /\ todo' \in 1 .. MaxFrags + 1
  /\ UNCHANGED <<rigid, ringVars, flagVars, min, polled, kick_pending, stopped,
                 napi, dev, fds, beVars, work, overrun>>

bpfhv_intr ==
  /\ irq /\ irq' = FALSE
  /\ napi' = Scheduled
  /\ UNCHANGED <<rigid, ringVars, flagVars, callVars, kick_pending, stopped,
                 dev, kickfd, beVars, work, overrun>>

\* bpfhv_tx_poll and bpfhv_rx_poll start by disabling the interrupts, which
\* sring_gso_txi does not do.
bpfhv_poll ==
  /\ napi \in {"sched", "missed"} /\ gpc = "idle"
  /\ intr_enabled' = (intr_enabled /\ dir = "tx")
  /\ gpc' = "clean" /\ op' = "poll"
  /\ UNCHANGED <<rigid, ringVars, kick_enabled, intr_at, todo, min, polled,
                 kick_pending, stopped, napi, dev, fds, beVars, work, overrun>>

BudgetLeft ==
  dir = "tx" \/ polled < (IF op = "close" THEN N ELSE PollBudget)

\* sring_gso_txc: the buffers up to the end of a packet, without looking at
\* cons again.
sring_gso_txc ==
  /\ gpc = "clean" /\ dir = "tx" /\ clear # cons
  /\ LET n == ToEop(N)
     IN  /\ clear' = Add(clear, n) /\ desc' = Emptied(clear, n)
         /\ free' = free + n
  /\ UNCHANGED <<rigid, prod, cons, oom, flagVars, guestVars, fds, beVars,
                 work, overrun>>

\* Mutant of sring_gso_rxc: the refill waits for a full context.
RxcRefillsLate ==
  /\ gpc = "clean" /\ dir = "rx" /\ clear # cons /\ BudgetLeft
  /\ LET n == ToEop(Completed)
     IN  /\ clear' = Add(clear, n) /\ desc' = Emptied(clear, n)
         /\ free' = free + n
  /\ polled' = polled + 1
  /\ gpc' = IF free' >= MaxBufs THEN "refill" ELSE "clean"
  /\ UNCHANGED <<rigid, prod, cons, oom, flagVars, op, todo, min, kick_pending,
                 stopped, napi, dev, fds, beVars, work, overrun>>

\* sring_gso_rxc, and what bpfhv_rx_clean does with the packet.
sring_gso_rxc ==
  /\ gpc = "clean" /\ dir = "rx" /\ clear # cons /\ BudgetLeft
  /\ LET n == ToEop(Completed)
     IN  /\ clear' = Add(clear, n) /\ desc' = Emptied(clear, n)
         /\ free' = free + n
  /\ polled' = polled + 1
  /\ gpc' = IF free' >= RefillAt THEN "refill" ELSE "clean"
  /\ UNCHANGED <<rigid, prod, cons, oom, flagVars, op, todo, min, kick_pending,
                 stopped, napi, dev, fds, beVars, work, overrun>>

\* rx_pkt_alloc fails: the buffers are out of the ring, but bpfhv_rx_clean gives
\* up without counting them.
RxAllocFails ==
  /\ AllocFails
  /\ gpc = "clean" /\ dir = "rx" /\ clear # cons /\ BudgetLeft
  /\ LET n == ToEop(Completed)
     IN  clear' = Add(clear, n) /\ desc' = Emptied(clear, n)
  /\ gpc' = IF op = "poll" THEN "complete" ELSE "reclaim"
  /\ polled' = 0
  /\ UNCHANGED <<rigid, prod, cons, bufVars, flagVars, op, todo, min,
                 kick_pending, stopped, napi, dev, fds, beVars, work, overrun>>

\* Nothing more to complete, or no budget left.
CleanDone ==
  /\ gpc = "clean" /\ (clear = cons \/ ~BudgetLeft)
  /\ \/ /\ op = "xmit"
        /\ gpc' = "map" /\ UNCHANGED <<op, todo, min, polled, stopped, napi>>
     \/ /\ op = "poll" /\ dir = "tx"
        /\ gpc' = "arm" /\ min' = HALF_PENDING_BUFS
        /\ UNCHANGED <<op, todo, polled, stopped, napi>>
     \/ /\ op = "poll" /\ dir = "rx" /\ polled < PollBudget
        /\ gpc' = "complete" /\ polled' = 0
        /\ UNCHANGED <<op, todo, min, stopped, napi>>
     \/ /\ op = "poll" /\ dir = "rx" /\ polled >= PollBudget
        /\ napi' = IF dev = "closing" THEN napi_complete ELSE napi
        /\ Return /\ UNCHANGED stopped
     \/ /\ op = "close"
        /\ gpc' = "reclaim" /\ polled' = 0
        /\ UNCHANGED <<op, todo, min, stopped, napi>>
  /\ UNCHANGED <<rigid, ringVars, flagVars, kick_pending, dev, fds, beVars,
                 work, overrun>>

\* The ring has no room for the packet (NETDEV_TX_BUSY), or its linear part
\* cannot be mapped: the packet is given back or dropped.
XmitGivesUp ==
  /\ gpc = "map"
  /\ free < todo \/ MapFails
  /\ Return
  /\ UNCHANGED <<rigid, ringVars, flagVars, kick_pending, stopped, napi, dev,
                 fds, beVars, work, overrun>>

\* A fragment cannot be mapped: the loop that unmaps the ones before it counts
\* an unsigned i down while i >= 0 and never returns.
XmitLost ==
  /\ gpc = "map" /\ free >= todo /\ todo > 1 /\ MapFails
  /\ gpc' = "lost"
  /\ UNCHANGED <<rigid, ringVars, flagVars, op, todo, min, polled,
                 kick_pending, stopped, napi, dev, fds, beVars, work, overrun>>

\* sring_gso_txp: the whole packet is published by one store to prod.
sring_gso_txp ==
  /\ gpc = "map" /\ free >= todo
  /\ \E bad \in SUBSET (IF "tx" \in BadBufs THEN 0 .. todo - 1 ELSE {}) :
       desc' = Fill(prod, todo,
                    LAMBDA k : [is |-> IF k \in bad THEN "bad" ELSE "posted",
                                eop |-> k = todo - 1])
  /\ prod' = Add(prod, todo) /\ free' = free - todo /\ todo' = 0
  /\ gpc' = "kick"
  /\ UNCHANGED <<rigid, cons, clear, oom, flagVars, op, min, polled,
                 kick_pending, stopped, napi, dev, fds, beVars, work, overrun>>

\* sring_gso_rxp, with the buffers that bpfhv_rx_refill prepares: as many as fit
\* in the context, or those before the first that cannot be allocated or mapped.
sring_gso_rxp ==
  /\ gpc = "refill"
  /\ LET most == IF free > MaxBufs THEN MaxBufs ELSE free
     IN  \E n \in 0 .. most :
           /\ \/ n = most /\ oom' = FALSE
              \/ n < most /\ \E why \in RefillFails : oom' = (why = "oom")
           /\ \E bad \in SUBSET (IF "rx" \in BadBufs THEN 0 .. n - 1 ELSE {}) :
                /\ Cardinality(bad) <= 1
                /\ desc' = Fill(prod, n,
                     LAMBDA k : [is |-> IF k \in bad THEN "bad" ELSE "posted",
                                 eop |-> FALSE])
           /\ prod' = Add(prod, n) /\ free' = free - n
  /\ gpc' = "kick"
  /\ UNCHANGED <<rigid, cons, clear, flagVars, op, todo, min, polled,
                 kick_pending, stopped, napi, dev, fds, beVars, work, overrun>>

\* The end of txp and rxp, after the full barrier: is a kick wanted?  A refill
\* goes on until no buffer is left or none could be allocated.
LooksAtKick ==
  /\ gpc = "kick"
  /\ kick_pending' = (dir = "tx" /\ (kick_pending \/ kick_enabled))
  /\ kickfd' = (kickfd \/ (dir = "rx" /\ kick_enabled))
  /\ gpc' = CASE dir = "tx" -> "arm"
              [] dir = "rx" /\ free > 0 /\ ~oom -> "refill"
              [] dir = "rx" /\ (free = 0 \/ oom) /\ op = "open" -> "enable"
              [] dir = "rx" /\ (free = 0 \/ oom) /\ op # "open" -> "clean"
  /\ min' = IF dir = "tx" THEN HALF_PENDING_BUFS ELSE min
  /\ UNCHANGED <<rigid, ringVars, flagVars, op, todo, polled, stopped, napi,
                 dev, irq, beVars, work, overrun>>

\* bpfhv_rx_poll completes NAPI before it enables the interrupts.
RxPollComplete ==
  /\ gpc = "complete"
  /\ napi' = napi_complete
  /\ min' = 1 /\ gpc' = "arm"
  /\ UNCHANGED <<rigid, ringVars, flagVars, op, todo, polled, kick_pending,
                 stopped, dev, fds, beVars, work, overrun>>

\* sring_gso_txi and sring_gso_rxi look at cons: is enough completed already?
sring_gso_xi ==
  /\ gpc = "arm"
  /\ gpc' = IF Completed >= min THEN "check" ELSE "store"
  /\ intr_enabled' = (intr_enabled /\ (dir = "tx" \/ Completed < min))
  /\ UNCHANGED <<rigid, ringVars, kick_enabled, intr_at, op, todo, min, polled,
                 kick_pending, stopped, napi, dev, fds, beVars, work, overrun>>

\* If not, they arm the interrupt.
XiArms ==
  /\ gpc = "store"
  /\ intr_at' = IF dir = "tx" THEN Add(clear, min - 1) ELSE intr_at
  /\ intr_enabled' = (intr_enabled \/ dir = "rx")
  /\ gpc' = "check"
  /\ UNCHANGED <<rigid, ringVars, kick_enabled, op, todo, min, polled,
                 kick_pending, stopped, napi, dev, fds, beVars, work, overrun>>

\* Mutant of XiCheck: cons is not looked at again.
XiUnchecked ==
  /\ gpc = "check"
  /\ napi' = IF op = "poll" /\ dir = "tx" THEN napi_complete ELSE napi
  /\ IF op = "xmit" THEN gpc' = "stop" /\ UNCHANGED <<op, todo, min, polled>>
                    ELSE Return
  /\ stopped' = (stopped /\ ~(op = "poll" /\ free >= 2 + MaxFrags))
  /\ UNCHANGED <<rigid, ringVars, flagVars, kick_pending, dev, fds, beVars,
                 work, overrun>>

\* And they look at cons again, after the full barrier.  bpfhv_start_xmit
\* ignores the answer; the polls schedule themselves again, bpfhv_tx_poll after
\* completing NAPI, and it wakes the stack's queue.
XiCheck ==
  /\ gpc = "check"
  /\ LET more == Completed >= min
     IN  /\ intr_enabled' = IF dir = "rx" /\ more THEN FALSE ELSE intr_enabled
         /\ napi' = CASE op # "poll" -> napi
                      [] op = "poll" /\ more /\ dev # "closing" -> "sched"
                      [] op = "poll" /\ (~more \/ dev = "closing") ->
                           IF dir = "tx" THEN napi_complete ELSE napi
  /\ IF op = "xmit" THEN gpc' = "stop" /\ UNCHANGED <<op, todo, min, polled>>
                    ELSE Return
  /\ stopped' = (stopped /\ ~(op = "poll" /\ free >= 2 + MaxFrags))
  /\ UNCHANGED <<rigid, ringVars, kick_enabled, intr_at, kick_pending, dev,
                 fds, beVars, work, overrun>>

\* The end of bpfhv_start_xmit: stop the queue when the next packet may not
\* fit, ring the doorbell.
XmitStops ==
  /\ gpc = "stop"
  /\ stopped' = (stopped \/ free < 2 + MaxFrags)
  /\ kickfd' = (kickfd \/ kick_pending) /\ kick_pending' = FALSE
  /\ Return
  /\ UNCHANGED <<rigid, ringVars, flagVars, napi, dev, irq, beVars, work,
                 overrun>>

bpfhv_close ==
  /\ dev = "up" /\ (gpc = "idle" \/ op = "poll")
  /\ dev' = "closing" /\ stopreq' = TRUE
  /\ UNCHANGED <<rigid, ringVars, flagVars, callVars, kick_pending, stopped,
                 napi, fds, bpc, copyVars, count, can, again, stopping, work,
                 overrun>>

\* Waits for the backend thread and for the poll that is running.
CloseNapiDisable ==
  /\ dev = "closing" /\ bpc = "halted" /\ napi = "idle" /\ gpc = "idle"
  /\ napi' = "off" /\ gpc' = "clean" /\ op' = "close" /\ stopped' = TRUE
  /\ UNCHANGED <<rigid, ringVars, flagVars, todo, min, polled, kick_pending,
                 dev, fds, beVars, work, overrun>>

clear_met_cons(old_clear, c, new_clear) ==
  Sub(new_clear, c + 1) < Sub(new_clear, old_clear)

\* One packet that the backend did not take.
sring_gso_txr ==
  /\ gpc = "reclaim" /\ dir = "tx" /\ clear # prod
  /\ LET n == ToEop(N)
     IN  /\ clear' = Add(clear, n) /\ desc' = Emptied(clear, n)
         /\ free' = free + n
         /\ cons' = IF clear_met_cons(clear, cons, Add(clear, n))
                    THEN Add(clear, n) ELSE cons
  /\ UNCHANGED <<rigid, prod, oom, flagVars, guestVars, fds, beVars, work,
                 overrun>>

\* As many receive buffers as fit in the context.  clear_met_cons is called
\* with the new and the old value of clear in each other's place.
sring_gso_rxr ==
  /\ gpc = "reclaim" /\ dir = "rx" /\ clear # prod
  /\ LET left == Sub(prod, clear)
         n == IF left > MaxBufs THEN MaxBufs ELSE left
     IN  /\ clear' = Add(clear, n) /\ desc' = Emptied(clear, n)
         /\ free' = free + n
         /\ cons' = IF clear_met_cons(Add(clear, n), cons, clear)
                    THEN Add(clear, n) ELSE cons
  /\ UNCHANGED <<rigid, prod, oom, flagVars, guestVars, fds, beVars, work,
                 overrun>>

CloseDone ==
  /\ gpc = "reclaim" /\ clear = prod
  /\ dev' = "down" /\ Return
  /\ UNCHANGED <<rigid, ringVars, flagVars, kick_pending, stopped, napi, fds,
                 beVars, work, overrun>>

-----------------------------------------------------------------------------
(***************************************************************************)
(* The backend thread.                                                     *)
(***************************************************************************)
PacketArrives ==
  /\ dir = "rx" /\ ~work /\ work' = TRUE
  /\ UNCHANGED <<rigid, ringVars, flagVars, guestVars, fds, beVars, overrun>>

\* The new thread turns the kicks on, or off if it busy-waits.
WorkerStarts ==
  /\ bpc = "start" /\ bpc' = "top"
  /\ kick_enabled' = ~busy_wait
  /\ UNCHANGED <<rigid, ringVars, intr_at, intr_enabled, guestVars, fds,
                 copyVars, count, can, again, stopreq, stopping, work,
                 overrun>>

WakeUp ==
  /\ bpc = "top" /\ ~busy_wait
  /\ kickfd' = FALSE /\ again' = FALSE /\ can' = TRUE /\ stopping' = stopreq
  /\ bpc' = "begin"
  /\ UNCHANGED <<rigid, ringVars, flagVars, guestVars, irq, copyVars, count,
                 stopreq, work, overrun>>

\* poll returns for a kick, an unfinished batch, the stop event, POLLOUT after
\* a full interface, or POLLIN while the queue can receive ...
process_packets_poll ==
  /\ kickfd \/ again \/ stopreq \/ (dir = "tx" /\ ~can)
       \/ (dir = "rx" /\ can /\ work)
  /\ WakeUp

\* ... or for an event of the other queue, which nobody promises.
PollOther == WakeUp

process_packets_spin ==
  /\ bpc = "top" /\ busy_wait
  /\ bpc' = IF stopreq THEN "halted" ELSE "begin"
  /\ UNCHANGED <<rigid, ringVars, flagVars, guestVars, fds, copyVars, count,
                 can, again, stopreq, stopping, work, overrun>>

\* sring_gso_txq_drain, sring_gso_rxq_push: load prod, disable the kicks
\* (rxq_push also when busy-waiting).
RoundBegins ==
  /\ bpc = "begin"
  /\ bprod' = prod /\ bcons' = cons /\ cons_first' = cons
  /\ kick_enabled' = (kick_enabled /\ dir = "tx" /\ busy_wait)
  /\ bpc' = "look"
  /\ UNCHANGED <<rigid, ringVars, intr_at, intr_enabled, guestVars, fds, count,
                 can, again, stopreq, stopping, work, overrun>>

\* Out of descriptors?  txq_drain looks at prod once more; rxq_push gives back
\* the descriptors it collected for a packet that cannot be received yet.
RoundLooks ==
  /\ bpc = "look"
  /\ LET last == IF dir = "tx" /\ bcons = bprod THEN prod ELSE bprod
         wait == bcons = last
     IN  /\ bprod' = last
         /\ bpc' = CASE ~wait -> "use"
                     [] wait /\ busy_wait -> "publish"
                     [] wait /\ ~busy_wait -> "unmute"
         /\ bcons' = IF wait /\ busy_wait THEN cons_first ELSE bcons
  /\ UNCHANGED <<rigid, ringVars, flagVars, guestVars, fds, cons_first, count,
                 can, again, stopreq, stopping, work, overrun>>

RoundUnmutes ==
  /\ bpc = "unmute"
  /\ kick_enabled' = TRUE /\ bpc' = "recheck"
  /\ UNCHANGED <<rigid, ringVars, intr_at, intr_enabled, guestVars, fds,
                 copyVars, count, can, again, stopreq, stopping, work,
                 overrun>>

\* The double check; without more descriptors rxq_push stops listening to the
\* interface.
RoundRechecks ==
  /\ bpc = "recheck" /\ bprod' = prod
  /\ \/ /\ bcons # prod
        /\ bpc' = "remute" /\ UNCHANGED <<bcons, can>>
     \/ /\ bcons = prod
        /\ bpc' = "publish" /\ bcons' = cons_first /\ can' = (dir = "tx" /\ can)
  /\ UNCHANGED <<rigid, ringVars, flagVars, guestVars, fds, cons_first, count,
                 again, stopreq, stopping, work, overrun>>

RoundRemutes ==
  /\ bpc = "remute"
  /\ kick_enabled' = FALSE /\ bpc' = "use"
  /\ UNCHANGED <<rigid, ringVars, intr_at, intr_enabled, guestVars, fds,
                 copyVars, count, can, again, stopreq, stopping, work,
                 overrun>>

\* The descriptors collected for the current packet that have a valid address.
Usable(upto) ==
  {k \in 0 .. Sub(upto, cons_first) - 1 : At(Add(cons_first, k)).is # "bad"}

\* txq_drain: a fragment that is not the last one.
TxTakesFragment ==
  /\ bpc = "use" /\ dir = "tx" /\ count < Budget /\ ~At(bcons).eop
  /\ bcons' = Add(bcons, 1) /\ bpc' = "look"
  /\ UNCHANGED <<rigid, ringVars, flagVars, guestVars, fds, bprod, cons_first,
                 count, can, again, stopreq, stopping, work, overrun>>

\* The last one: the packet is sent, without its invalid fragments.
TxSends ==
  /\ bpc = "use" /\ dir = "tx" /\ count < Budget /\ At(bcons).eop
  /\ desc' = [i \in Slots |->
                IF i \in SlotsFrom(cons_first, Sub(bcons, cons_first) + 1)
                   /\ desc[i].is = "posted"
                THEN [desc[i] EXCEPT !.is = "done"] ELSE desc[i]]
  /\ bcons' = Add(bcons, 1) /\ cons_first' = Add(bcons, 1)
  /\ count' = count + 1 /\ bpc' = "look"
  /\ UNCHANGED <<rigid, prod, cons, clear, bufVars, flagVars, guestVars, fds,
                 bprod, can, again, stopreq, stopping, work, overrun>>

\* send fails: back to the first descriptor of the packet.  Only if the
\* interface is full (EAGAIN) the poll loop waits for room; after another error
\* it has the kicks off and nothing to wake it.
TxBlocks ==
  /\ bpc = "use" /\ dir = "tx" /\ count < Budget /\ At(bcons).eop
  /\ \E e \in SendFails : can' = (busy_wait \/ e # "again")
  /\ bcons' = cons_first /\ bpc' = "publish"
  /\ UNCHANGED <<rigid, ringVars, flagVars, guestVars, fds, bprod, cons_first,
                 count, again, stopreq, stopping, work, overrun>>

TxOutOfBudget ==
  /\ bpc = "use" /\ dir = "tx" /\ count >= Budget
  /\ bpc' = "publish"
  /\ UNCHANGED <<rigid, ringVars, flagVars, guestVars, fds, copyVars, count,
                 can, again, stopreq, stopping, work, overrun>>

\* rxq_push: one more descriptor, until a packet of the largest size fits.
RxCollects ==
  /\ bpc = "use" /\ dir = "rx"
  /\ bcons' = Add(bcons, 1)
  /\ bpc' = IF Cardinality(Usable(bcons')) >= Need THEN "recv" ELSE "look"
  /\ UNCHANGED <<rigid, ringVars, flagVars, guestVars, fds, bprod, cons_first,
                 count, can, again, stopreq, stopping, work, overrun>>

\* The budget is looked at after the descriptors were collected, and they are
\* not given back.
RxOutOfBudget ==
  /\ bpc = "recv" /\ count >= Budget
  /\ bpc' = "publish" /\ overrun' = TRUE
  /\ UNCHANGED <<rigid, ringVars, flagVars, guestVars, fds, copyVars, count,
                 can, again, stopreq, stopping, work>>

\* Mutant of RxReceives: the unused descriptors are not given back.
RxKeepsUnused ==
  /\ bpc = "recv" /\ count < Budget /\ work
  /\ \E k \in Usable(bcons) :
       desc' = [i \in Slots |->
                  IF i = Add(cons_first, k) % N
                  THEN [is |-> "done", eop |-> TRUE]
                  ELSE IF i \in SlotsFrom(cons_first, k) /\ desc[i].is # "bad"
                       THEN [is |-> "done", eop |-> FALSE] ELSE desc[i]]
  /\ cons_first' = bcons /\ work' = FALSE
  /\ count' = count + 1 /\ bpc' = "look"
  /\ UNCHANGED <<rigid, prod, cons, clear, bufVars, flagVars, guestVars, fds,
                 bprod, bcons, can, again, stopreq, stopping, overrun>>

\* A packet that fills the usable descriptors up to number k, the last of which
\* gets EOP; the others are given back.
RxReceives ==
  /\ bpc = "recv" /\ count < Budget /\ work
  /\ \E k \in Usable(bcons) :
       /\ desc' = [i \in Slots |->
                    IF i = Add(cons_first, k) % N
                    THEN [is |-> "done", eop |-> TRUE]
                    ELSE IF i \in SlotsFrom(cons_first, k) /\ desc[i].is # "bad"
                         THEN [is |-> "done", eop |-> FALSE] ELSE desc[i]]
       /\ bcons' = Add(cons_first, k + 1) /\ cons_first' = Add(cons_first, k + 1)
  /\ work' = FALSE
  /\ count' = count + 1 /\ bpc' = "look"
  /\ UNCHANGED <<rigid, prod, cons, clear, bufVars, flagVars, guestVars, fds,
                 bprod, can, again, stopreq, stopping, overrun>>

RxNothing ==
  /\ bpc = "recv" /\ count < Budget /\ ~work
  /\ bcons' = cons_first /\ bpc' = "publish"
  /\ UNCHANGED <<rigid, ringVars, flagVars, guestVars, fds, bprod, cons_first,
                 count, can, again, stopreq, stopping, work, overrun>>

\* The store to cons.  From here on cons_first stands for old_cons.
RoundPublishes ==
  /\ bpc = "publish"
  /\ cons' = IF count > 0 THEN bcons ELSE cons
  /\ cons_first' = cons
  /\ bpc' = "notify"
  /\ UNCHANGED <<rigid, prod, clear, desc, bufVars, flagVars, guestVars, fds,
                 bprod, bcons, count, can, again, stopreq, stopping, work,
                 overrun>>

\* After the full barrier: raise the interrupt if it is wanted, and go round
\* the loop again.
RoundNotifies ==
  /\ bpc = "notify"
  /\ irq' = \/ irq
            \/ /\ count > 0
               /\ IF dir = "rx" THEN intr_enabled
                  ELSE Sub(bcons, intr_at + 1) < Sub(bcons, cons_first)
  /\ again' = (~busy_wait /\ count >= Budget)
  /\ bpc' = IF stopping THEN "halted" ELSE "top"
  /\ count' = 0 /\ bprod' = 0 /\ bcons' = 0 /\ cons_first' = 0
  /\ UNCHANGED <<rigid, ringVars, flagVars, guestVars, kickfd, can, stopreq,
                 stopping, work, overrun>>

-----------------------------------------------------------------------------
Next ==
  \/ bpfhv_open \/ OpenEnable \/ bpfhv_start_xmit \/ bpfhv_intr \/ bpfhv_poll
  \/ sring_gso_txc \/ sring_gso_rxc \/ RxAllocFails \/ CleanDone
  \/ XmitGivesUp \/ XmitLost
  \/ sring_gso_txp \/ sring_gso_rxp \/ LooksAtKick \/ RxPollComplete
  \/ sring_gso_xi \/ XiArms \/ XiCheck \/ XmitStops \/ bpfhv_close
  \/ CloseNapiDisable
  \/ sring_gso_txr \/ sring_gso_rxr \/ CloseDone
  \/ PacketArrives \/ WorkerStarts \/ process_packets_poll \/ PollOther
  \/ process_packets_spin \/ RoundBegins \/ RoundLooks \/ RoundUnmutes
  \/ RoundRechecks \/ RoundRemutes \/ TxTakesFragment \/ TxSends \/ TxBlocks
  \/ TxOutOfBudget \/ RxCollects \/ RxOutOfBudget \/ RxReceives \/ RxNothing
  \/ RoundPublishes \/ RoundNotifies

Spec == Init /\ [][Next]_vars

-----------------------------------------------------------------------------
(***************************************************************************)
(* Properties.                                                             *)
(***************************************************************************)
\* The buffers that rxc or txc may complete: those the backend has handed back
\* and the guest has not collected, until close reclaims the rest.
HandedBack ==
  IF gpc = "reclaim" \/ dev = "down" THEN {}
  ELSE {Add(clear, k) : k \in 0 .. Completed - 1}

\* cons always stands at the end of a packet: the buffers handed back are whole
\* packets whose buffers were all sent or filled (or were invalid), each ended
\* by its EOP within the number of buffers a context holds.  Only a receive
\* round that ran out of budget is excepted.
WholePackets ==
  ~overrun /\ HandedBack # {} =>
    /\ \A c \in HandedBack : At(c).is \in {"done", "bad"}
    /\ At(Add(clear, Completed - 1)).eop
    /\ \E k \in 0 .. Completed - 1 : k < MaxBufs /\ At(Add(clear, k)).eop

\* A receive queue and its backend never wait for each other: when both are at
\* rest the backend listens to its interface, having buffers for a packet of
\* any size; unless invalid buffers clog the ring, the last refill gave up, or
\* a failed rx_pkt_alloc left buffers out of the count.  Then indeed nobody
\* refills a ring that is short of buffers.
NoStarvation ==
  /\ dir = "rx" /\ dev = "up" /\ gpc = "idle" /\ napi = "idle" /\ ~irq
  /\ bpc = "top" /\ ~busy_wait /\ ~kickfd /\ ~again
  /\ \A i \in Slots : desc[i].is # "bad"
  /\ ~oom /\ free = N - Sub(prod, clear)
  => can

\* A driver at rest has collected every packet it received, and asked for an
\* interrupt for the next.
NoLostPacket ==
  /\ dir = "rx" /\ dev = "up" /\ gpc = "idle" /\ napi = "idle" /\ ~irq
  /\ bpc # "notify"
  => clear = cons /\ intr_enabled

\* While the stack's queue is stopped, something that starts it is under way.
NoStall ==
  /\ dir = "tx" /\ stopped /\ dev = "up"
  => \/ gpc # "idle" \/ napi # "idle" \/ irq \/ bpc # "top" \/ kickfd \/ again
     \/ ~can \/ busy_wait

\* A closed queue has given every buffer back, and the driver has counted them
\* all ("buffers not reclaimed" is not reported), except those of an rx_pkt_alloc
\* that failed.  A transmit queue can be opened again: cons went along.
AllReclaimed ==
  dev = "down" =>
    /\ clear = prod
    /\ dir = "tx" => cons = prod
    /\ dir = "tx" \/ ~AllocFails => free = N
=============================================================================
