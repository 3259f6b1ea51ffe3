# bpfhv: TLA+ models, checks and proofs

bpfhv is a paravirtual network device whose datapath is not fixed: the
hypervisor hands eBPF programs to the guest, and a generic guest driver
(`src/driver/bpfhv.c`) runs them to publish, complete, reclaim buffers and to
arm interrupts.  On the host a backend process (`src/proxy/backend.c`) serves
the rings, for one or for several guests, and may pass the packets through a
packet scheduler (`src/sched16`).

This directory holds a verification development of that program: modules that
translate its control, TLC runs on small instances, and TLAPS proofs.

## 1. Inventory

| Component | State it keeps | Operations | Interacts through |
|---|---|---|---|
| sring transmit path (`driver/bpfhv.c`, `sring_progs.c`, `sring.c`) | ring counters `prod`, `cons`, `clear`, `intr_at`, `kick_enabled`; driver `tx_free_bufs`, `kick_pending`, queue stopped or not, NAPI | `bpfhv_start_xmit`, `bpfhv_tx_poll`, `bpfhv_tx_intr`, `txp`, `txc`, `txi`, `txr`, `sring_txq_drain` | shared memory, doorbell eventfd, interrupt |
| sring receive path (same files) | `prod`, `cons`, `clear`, `intr_enabled`, `kick_enabled`; driver `rx_free_bufs`, `min_completed_bufs`, NAPI | `bpfhv_rx_poll`, `bpfhv_rx_clean`, `bpfhv_rx_refill`, `rxp`, `rxc`, `rxi`, `rxr`, `sring_rxq_push` | the same |
| backend packet loops (`backend.c`) | `can_send`, `can_receive`, poll set, stop flag | `process_packets_poll`, `_spin`, `_spin_many` | rings, eventfds, host interface |
| backend control plane (`backend.c`) | batch: instances allocated and used, worker running, stop flag; per client: parameters, memory table, queue contexts, fds, status | `main_server_select`, `process_guest_message`, `activate_backend`, `backend_stop`, `sigint_handler` | control sockets, worker thread |
| vring_packed device (`vring_packed.c`, `_progs.c`) | descriptor ring, a position and a lap per side, identifiers and free list, event areas; `hv_map`, pending counters | `txp`/`rxp`, `txc`/`rxc`, `txi`/`rxi`, `txr`/`rxr`; drain, push; acquire, release, notify | shared memory, eventfds |
| sring_gso device (`sring_gso.c`, `_progs.c`) | as sring, packets of several descriptors (EOP) | as sring | shared memory, eventfds |
| packet scheduler worker (`pspat.c`, `process_packets_spin_many`) | mbuf cache, scheduler object, packets acquired | `sched_all_start`, enqueue, dequeue, `sched_all_finish` | `txq_acquire`, `txq_release`, `txq_notify` of the rings |
| dummynet schedulers (`sched_main.c`, `dn_*.c`) | flow sets, a queue per flow, heaps, groups, virtual time | `sched_enq`, `sched_deq` | called by pspat |
| driver life cycle, program upgrade (`bpfhv.c`) | programs and contexts, interrupts, NAPI, features, upgrade work | probe, open, close, upgrade, fix and set features, remove | device registers, network stack, rtnl lock |
| cqueue | ring of the stand-alone scheduler's clients | enqueue, dequeue | shared memory |

Hard behaviours, and what correctness means for each part:

- *Notifications in both directions are suppressible.*  Each side turns
  notifications off while it is busy, and must turn them on and look once more
  before it sleeps.  Correct: nobody sleeps on work it was not told about.
- *Free-running unsigned counters* wrap; their order is only meaningful as
  differences.  Correct: they never overtake each other, and every descriptor is
  in the hands the counters say.
- *The driver's queue state* (stopped or not, NAPI scheduled or not, closing) is
  changed by start_xmit, by the poll, by the interrupt and by close, partly
  without a lock.  Correct: a stopped queue restarts, a closed device has all its
  buffers back.
- *The worker is shared by all clients*, the control messages come one client at
  a time.  Correct: the worker serves only instances that are ready; stopping it
  comes back; the counts agree with what runs.
- *Packets leave the scheduler in another order than they were acquired in*, and
  descriptors are swapped to keep the ring in order.  Correct: whichever ring and
  whichever way it is served, every buffer comes back once, complete, or is
  reclaimed after the backend stopped.
- *Packets of several descriptors* are handed over one descriptor at a time.
  Correct: packets come back whole, and neither side waits for descriptors that
  the other holds back.
- *Programs are replaced under traffic.*  Correct: nothing runs a program or a
  context that is not there or is of another version, whatever fails in between.
- *Schedulers keep redundant structures* (heaps with stored positions, bit sets of
  groups) over timestamps that wrap.  Correct: the structures agree after any
  sequence of calls, no packet is stuck, and service follows the weights.

`PROJECT.json` lists every component with its status, and the hazards at their
lines.

## 2. Modules

| Module | Models |
|---|---|
| `BufferQueue` | abstract: what a queue of any BPFHV device promises |
| `WrapArith` | unsigned counters modulo `W` (`Add`, `Sub`) |
| `SringTx` | the transmit path of sring: guest and backend |
| `SringRx` | the receive path of sring: guest and backend |
| `PackedRing` | the packed virtqueue: its state and the functions of both sides |
| `PackedQueue` | a transmit or receive queue of vring_packed (extends `PackedRing`) |
| `PackedSched` | the same transmit queue served through the scheduler (extends `PackedQueue`) |
| `SringGso` | a transmit or receive queue of sring_gso |
| `BackendControl` | the control plane and the life of the worker, scheduler mode |
| `DriverLife` | probe, open, close, upgrade and remove in the driver |
| `DnFlows`, `DnHeap`, `DnRr`, `DnWf2q`, `DnQfq` | flows, heaps, and the scheduling algorithms, as operators |
| `SchedMain` | the scheduler object built from them |
| `WrapArithProofs` | lemmas on `Add` and `Sub`, and on distances around a ring |
| `SringTxProofs`, `SringRxProofs` | the safety of the two sring paths, proved |
| `PackedQueueProofs` | the safety of `PackedQueue` and its refinement of `BufferQueue`, proved |
| `PackedSchedProofs` | the safety of `PackedSched` and its refinement of `BufferQueue`, proved (extends `PackedQueueProofs`) |
| `SringGsoProofs` | the safety of `SringGso`, proved |
| `DriverLifeProofs` | the safety of `DriverLife`, proved |
| `BackendControlProofs` | the safety of `BackendControl`, proved |
| `MC...` | what TLC runs; the `.cfg` files give the constants |

### SringTx

Three actors.  The *holder of the transmit lock* (`gpc`, `caller`) is in
`bpfhv_start_xmit`, in the locked part of `bpfhv_tx_poll`, or in the reclaim loop
of `bpfhv_close`; these exclude each other in the code by the lock or by
`netif_tx_disable`.  The *tail of a poll* (`ppc`) is what `bpfhv_tx_poll` does after
it gives the lock up: complete, schedule again, wake the queue.  The *backend thread* (`bpc`) runs
`process_packets_poll` or `process_packets_spin` with `sring_txq_drain`.

One action is one access that the other side can observe: `sring_txp` (publish)
and `sring_txp_kick` (look at `kick_enabled`); `sring_txi`, `sring_txi_arm`,
`sring_txi_check` (look at cons, store `intr_at`, look again); `DrainMute`,
`DrainMeetsProd`, `DrainUnmute`, `DrainRecheck`, `DrainPublish`, `DrainNotify`
for the drain.  The code has fences at exactly these places, so an interleaving
of such steps is a faithful picture of the shared memory.  Packet contents are
gone; what is left of a buffer is its stage in `slot`: empty, posted, bad (an
address the backend cannot translate), sent.

`tx_napi` and `busy_wait`, fixed when the two sides start, are variables that no
action changes; `TxNapis` and `BusyWaits` say which values a run considers.
`Thresh` is `2 + MAX_SKB_FRAGS`.  `PollIn` is a wake-up of the backend by the
other direction's traffic: it is possible, never promised.  `promised` is a
history variable: `txi` returned 0 and no interrupt has come since.

A stop request from `close` stands for the loops' own test of the stop flag
together with the disable request of the device.  At this commit only the
scheduler mode starts a worker from the control plane (`backend_stop` sets the
batch's flag, which the poll and spin loops do not read, and `process_packets`
casts the batch to an instance), so the two loops are modelled as they are
written, with the stop flag they read.  The ring is not initialised again when
the device is reopened: `sring_tx_ctx_init` runs on `SET_QUEUE_CTX` only.
`bpfhv_open` lets the stack transmit at once, while the new backend thread is
still to run: `kick_enabled` stays as the previous thread left it until
`WorkerStarts` stores it.  The history variable `unheard` remembers that a packet was
published in between with the kicks off.  The other queue modules have the same
step (`WorkerStarts`, in `PackedQueue` `ThreadStarts`).

### SringRx

The same division: the context that runs `bpfhv_rx_clean`, a refill or the
reclaim loop (`gpc`), the end of a poll after `napi_complete_done` (`ppc`), and
the backend (`bpc`).  `sring_rxi` runs at the start and at the end of a poll; the
two runs have their own program counters (`ipc`, `seen`), and `Overlap` lets the
next poll start on another CPU while the last one is still at its end, which is
what NAPI allows and what makes `min_completed_bufs` shared.  `PacketArrives`
fills the host interface up to `Inbox`.  `RefillFails`, `AllocFails`,
`RecvFails` and `BadBufs` turn on the error paths one by one.

### BackendControl

The main thread (`mpc`) handles one message, one connection or one signal at a
time, in one step, except that `backend_stop` waits in `pthread_join` (`Join`,
`SignalJoin`), where the worker moves and a signal may come.  A request that is
answered with `BPFHV_PROXY_F_ERROR` changes nothing and is a stuttering step.
The worker (`wpc`) goes from `sched_all_start` through the loop of
`process_packets_spin_many` to `sched_all_finish`.  Signals are taken in select
or in `pthread_join`, where the main thread is when it is not computing; a nested
join fails, as it does with EINVAL.  A queue context that points into a table
that was unmapped is "dangling"; a worker that starts on a freed scheduler may go
on or die.

### BufferQueue, PackedRing and PackedQueue

`BufferQueue` is the contract of the programs in `include/bpfhv.h`: the guest
publishes buffers; the backend takes them oldest first and hands them back in the
order it is done with them; the guest completes them in that order; what was not
handed back can be reclaimed once the device is disabled.  `Lose` is the one way in
which a buffer disappears, a completion that fails when the ring has already given
the buffer up; it is there only if `Lossy` says so.

`PackedRing` holds the virtqueue as one record (descriptors, identifiers with
their free list, both sides' positions and laps, the two event areas) and one
operator per function of `vring_packed_progs.c` and `vring_packed.c`.
`PackedQueue` lets the driver's functions and the two loops of the backend call
them, one shared access per step, in either direction (`dir`).  How the driver
stops and wakes the stack's queue and overlaps polls is the subject of
`SringTx` and `SringRx` and is reduced to when each program may run; a doorbell is an
eventfd that only the polling loop reads (`Doorbell`).

Failures are inputs: `IfFails` (send and recv: EAGAIN, or another error, after which a
round ends with the kicks off and `can_send` still set), `RefillFails` (a buffer that
cannot be allocated, which ends the refill, or mapped, which only makes the batch
shorter; `RefillCutShort`) and `AllocFails` (`rx_pkt_alloc` after `vring_packed_get`:
`RxAllocFails`).  A buffer of a failed `rx_pkt_alloc` is `lost`: the ring has its slot
back, the driver never counts it.  If that happens in the last cleaning of a close
with more used descriptors behind it, `rxr` finds a used descriptor and fails, and the
device is left closed with a ring that is not empty (`CloseLeaks`, `dev = "leaked"`);
otherwise the close goes on (`CloseGoesOn`).

The refinement (`ImplementsQueue`) maps the descriptors between the backend's
position and the guest's publishing position to `posted`, those between the
guest's completing position and the backend's to `used`, each by the buffer's
address.  During reclaim everything left in the ring is `posted`.  `Lossy` is
`AllocFails`, and what the guest holds are the buffers it has counted (`held \ lost`).

### PackedSched

`process_packets_spin_many`, `vring_packed_txq_acquire`, `_release` and `_notify`,
`fun_sched_enqueue` and the dequeue functions of `pspat.c`, against the guest of
`PackedQueue`.  The scheduler is a set from which any packet may be dequeued:
the algorithms have their own module, and the ring must survive any order.  The
other guests appear through what they can do to this one: delay it, dequeue and
drop packets of their own (`OthersDrop`).  The uninitialised `*dropped` is a
nondeterministic choice.  In the refinement (`SchedImplementsQueue`) what is
acquired and not released is `taken`.

### SringGso

As `SringTx` and `SringRx`, with descriptors that carry EOP.  `bpfhv_start_xmit`
maps the fragments (`XmitGivesUp`, `XmitLost`: a mapping that fails on the first
buffer, and on a later one, where the unmapping loop never ends) and publishes
them in one `txp`.  The backend collects fragments (`TxTakesFragment`) or receive
buffers (`RxCollects`) from `cons_first` on and moves the shared `cons` by packets.
`txi` and `rxi` are three steps, as in sring: look at cons (`sring_gso_xi`), arm
(`XiArms`), look again (`XiCheck`).
`Need` is the number of receive buffers a packet of the largest size may take.  `free` is
the driver's own count (`tx_free_bufs`, `rx_free_bufs`); it parts from the counters of
the ring when `rx_pkt_alloc` fails (`RxAllocFails`).  `oom` remembers that the last
refill gave up.  `SendFails`, `RefillFails` and `AllocFails` are as in `PackedQueue`.

### DriverLife

The holder of the rtnl lock (`job`, `pc`) is in open, close, an upgrade or a
change of features; `bpfhv_programs_setup` goes program by program (`SetupLoads`,
`SetupFailsAt`, `SetupContexts`).  Against it run the transmit function and poll
(`XmitStops`, `bpfhv_tx_intr`, `bpfhv_tx_poll`, `TxPollWake`), the hypervisor
(`RequestUpgrade`), the upgrade work with the kernel's rule that a work queued
while it runs runs again (`Scheduled`), and the lock-free parts of probe and
remove.  A program is its version; a context is the version whose size it has.
A transmit interrupt is raised (`RaiseTxIntr`) while the device is enabled and handled
(`bpfhv_tx_intr`) some time later: with `tx_napi` it schedules the poll, without it (the
driver's default) it wakes the queue by itself, whatever the state of the interface.
`LateIntr` says whether the handler may still be due when a close has stopped the queues;
nothing in the code waits for it.

### The scheduling algorithms

A packet is its length and its flow.  `DnHeap` translates insertion and extraction
with the positions stored in the objects; `DnRr`, `DnWf2q` and `DnQfq` give for a
scheduler state the state after an enqueue and after a dequeue; what `new_queue`
computes once for a flow (weight, inverse, quantum, group) is part of that state.  Timestamps are
words of `TsBits` bits compared by the sign of their difference, as with 64 in
the code.  QFQ's bitmaps are sets of group numbers, its circular bucket array
the sequence of buckets from the front.  `SchedMain` selects the algorithm, keeps
`pending`, and the history `lag`: the service a flow is owed, by the definition of
the code's own statistics (`gnet_stats_deq`).

## 3. Runs

| Run | Module | Result | Distinct states | What it covers |
|---|---|---|---|---|
| `tx` | `SringTx` | pass | 6.0M | with and without NAPI; xmit_more, dropped packets, a full interface, receive traffic, close, reopening and a late start of the worker |
| `tx_live` | `SringTx` | pass | 56k | liveness, with and without NAPI, polling and busy-waiting, bad buffers |
| `tx_stopwake` | `SringTx` | violation | - | `NoStall` without NAPI |
| `rx_errors` | `SringRx` | pass | 6.4M | polling and busy-waiting, overlapping polls, every failure |
| `rx_live` | `SringRx` | pass | 157k | liveness, ring order, close |
| `rx_reopen` | `SringRx` | violation | - | `CompletedWereUsed` after reopening |
| `control_pair` | `BackendControl` | pass | 230k | two clients, two queues each, signals, liveness of stop |
| `packed` | `PackedQueue` | pass | 1.9M | both directions, both loops, a full interface, failing mappings and `rx_pkt_alloc`, close |
| `sched` | `PackedSched` | pass | 2.0M | out-of-order release, drops, bad buffers, halt |
| `gso` | `SringGso` | pass | 6.2M | both directions, packets of one and two descriptors, a full interface, bad transmit buffers, failures of fragment mapping, refill and `rx_pkt_alloc` |
| `upgrade` | `DriverLife` | pass | 73k | upgrades, failures, toggles, remove, with and without transmit NAPI, liveness |
| `dn` | `SchedMain` | pass | 1.4M | five algorithms, three flows, wrapping timestamps |

What the properties say:

- `RingOrder` (sring): clear, cons, the backend's private cons and prod, and prod
  never overtake each other, and the driver's free count is the room left.
- `RingConsistent` (packed): positions and laps of the two sides, identifiers,
  cookies and the free list describe one ring; `vring_packed_get` never returns
  the error its comment calls a bug; a closed device has every buffer back, all of
  them counted unless an `rx_pkt_alloc` failed.
- `NoLostKick`: the backend does not sleep with work in the ring unless the driver
  is about to look at the kick flag or remembers that it owes the doorbell; in
  `SringTx` except for packets published after a reopening before the worker ran
  (`unheard`), which `StartsTold` does not except.
- `NoLostInterrupt` (packed): an event the guest stored and waits for has not been
  passed.  `NoLostPacket` and `IdleIsArmed` are the receive counterparts in sring
  and sring_gso; `NoReleaseUnnoticed` the one for batched releases in scheduler
  mode.
- `NoStall`: while the queue is stopped something that can start it is under way.
  `NoStarvation` (gso): driver and backend at rest are not waiting for each
  other's buffers, unless invalid buffers clog the ring, the last refill gave up, or a
  failed `rx_pkt_alloc` left buffers out of the count.
- `AllReclaimed`: a closed device has every buffer back and has counted it (in gso a
  receive queue with failing `rx_pkt_alloc` is excepted from the count), and
  (transmit) the counters meet, so that the next open starts clean.
- `CompletedWereUsed` (sring), `WholePackets` (gso): what is completed was used,
  and ends with a packet.
- `ImplementsQueue`, `SchedImplementsQueue`: refinement of `BufferQueue`.
- `MapFindsDescriptor`, `SwapAssertion`, `MbufsSuffice`: the identifier map leads to
  the right descriptor through all swaps; the assertion of
  `vring_packed_desc_swap_acquired` holds for every swap that may come; the mbuf
  cache never runs out.
- `ProgramsWhole`, `LayoutAgrees`, `NapiBalanced`, `NothingLeft`, `UpgradeServed`:
  the driver through upgrades (see the module's comments).  `StopLasts`: queues that a
  close has stopped stay stopped until the next open.
- `WorkConserving`: a scheduler with packets gives one.  `Wf2qEligibility`,
  `QfqGroups`: what the two algorithms rely on between calls.  `Fair`: no
  backlogged flow falls behind its share by more than one packet of the largest size
  times the weights (WF2Q+), or the others' quanta and a packet each (round robin).
- `PacketsLeave`, `PromisedRestart`, `QueueRestarts`, `PacketsDelivered`,
  `ReceiveGoesOn`: the corresponding liveness.
- `WorkerServesReady`, `CountsAgree`, `StopReturns`: the control plane.

Every module also states properties that no run above checks: type invariants,
which held in runs made while the modules were written (`TypeOK`, `SchedTypeOK`;
section 5 says which are proved); `Ownership` (proved in `SringTxProofs`),
`NoLostInterrupt` and `BuffersReturn` of `SringTx`, `Ownership` of `SringRx`,
`StatusAgrees` of `BackendControl`, `AllReclaimed` (proved in `SringGsoProofs`) of
`SringGso`, which hold too; and the ones that section 4 says fail.

### Bounds

- sring: `N = 2` descriptors and counters modulo `W = 4`: the ring can be empty,
  half full and full, every counter wraps several times in one run, and the wrap
  falls on every position relative to the others.  `W` must exceed `N` and be a
  multiple of it, as with 2^32 and a power of two.  `Budget = 1` makes both ends of a
  drain happen (out of budget, and out of packets in the double check).
  `Thresh = 1` lets two packets be under way before the queue is stopped; in `tx_live`
  `Thresh = N`, so the queue is stopped after every packet, which is the case its
  properties are about.  `Inbox = 1`: the model only asks whether a packet waits.
- packed: `N = 2` with two buffers, interchangeable (symmetry): both slots lie on
  either lap relative to each side, identifiers come back in both orders, a swap
  across the end of the ring happens.  A refill is cut short by a mapping only, and no
  buffer has an invalid address: giving up for lack of memory, or invalid descriptors,
  make the run too large for TLC.  The theorems have all of them, `rx_errors` checks both
  refill failures on sring, and `sched` has invalid descriptors in the same ring.  In `sched` `Budget = 2` lets a round acquire
  both, and `MaxPending = 3` bounds dropped packets that wait to be notified.
- gso: `N = 4`, `MaxFrags = 1`: packets of one and two descriptors, two of the latter
  fill the ring; a receive packet may need two buffers while the driver holds back
  up to `RefillAt - 1 = 2`.  `BadBufs`, here a set of directions, is `{"tx"}`, and a
  refill is cut short by a failed allocation, the failure after which the driver gives up;
  invalid receive buffers and failed receive mappings are left to the theorems.
- upgrade: three programs, one of them optional and not the last, so that a failure
  comes before, at and after it; two upgrades, so that one can come in the middle
  of another.
- control: two clients of two queues are the smallest batch in which one client is ready and
  another is not, or ready in one queue only.
- dn: three flows of weights 1, 1 and 2 and two packet lengths; `TsBits = 5`, so that
  the virtual time wraps within the run.  At most 9 enqueues for QFQ (it takes seven
  to block a group: set IB is reached, set EB is not) and 6 for the others
  (`MaxEnqueue`).  `Fair` is stated for WF2Q+ and round robin only; QFQ's bound
  is wider than the service of the run.

The runs other than `tx` and `tx_stopwake` do not check deadlock: a receiver with no
traffic, a closed interface, a removed driver, an exited process and a bounded
number of enqueues have nothing more to do; in `tx_live` the driver without NAPI may
stop for good (section 4).

Some inputs are kept out of the passing runs because the properties do not
hold with them; section 4 says which.

### Fairness

- A context inside the driver runs to its end, a pending interrupt is delivered:
  weak fairness; the kernel guarantees both.
- A scheduled NAPI instance is polled: strong fairness, since taking the lock
  competes with start_xmit and the stack's transmit lock is a fair ticket lock.
- The backend thread keeps running: weak fairness.  A full host interface drains
  (`PollOut` weak, `DrainSend` and `PushRecv` strong: a send or a receive that is tried again
  and again succeeds).
- A packet the stack announced with xmit_more comes (`LastOfBatch`).
- `napi_disable` gets its turn (strong: it waits for polls that come again).
- The operating system runs main thread and worker (weak).
- The upgrade work runs once it is queued (weak), and gets the rtnl lock (strong:
  opening and closing compete for it, and the kernel's mutex queues its waiters).

Nothing is assumed of the stack, of clients, of the hypervisor or of the user: no
packet, message, upgrade, open or close is promised.

## 4. What the code does differently from what it says

Two runs exhibit a disagreement between a line of the repository and the code;
`PROJECT.json` quotes the lines.

1. `tx_stopwake`.  Without NAPI `bpfhv_start_xmit` arms the interrupt before it
   stops the queue.  If the interrupt comes in between it wakes a queue that is
   not stopped yet; the queue is then stopped with nothing left to wake it.
2. `rx_reopen`.  `sring_rxr` passes old and new clear in the wrong order, so cons
   does not follow; after a reopening buffers are completed that were never
   filled.

Further behaviours met while modelling, which the constants keep out of the passing
runs (give them the value named to see the property fail):

- *SringTx.*  A packet sent with xmit_more that fills the ring stops the queue
  without ringing the doorbell it owes (`XmitMore = TRUE`, `NoKickForgotten`).  A
  ring smaller than `2 + MAX_SKB_FRAGS` stalls after one packet (`Thresh > N`,
  `NoStall`).  An error of `send` other than EAGAIN leaves the polling backend
  asleep on packets (`SendFails = {"error"}`, `NoLostKick`).  A buffer the backend
  cannot translate is skipped ("just skip it"), but cons is published only together
  with a packet that was sent: alone in the ring it stays there, and a queue it fills stays stopped
  (`Clogged`, which `QueueRestarts` and `PromisedRestart` except).  The polling loop turns the
  kicks on when it starts ("Start with guest-->host notifications enabled.", backend.c:335) and
  does not look at the ring.  A device that is reopened transmits before that, with the
  kicks that the last thread may have left off: those packets wait until another one rings
  the doorbell (`MayClose`, `StartsTold`; `NoLostKick` excepts them by `unheard`).
- *SringRx.*  A failing `rx_pkt_alloc` loses its buffer (`AllocFails`,
  `AllReclaimed`).  A refill that runs out of memory with every buffer free is not
  retried and leaves reception dead (`RefillFails = {"oom"}`, `ReceiveGoesOn`).  A close after a
  poll that used its whole budget leaves interrupts off, and nothing turns them
  on at the next open (`MayReopen`, `IdleIsArmed`).
- *PackedQueue.*  The ring is not initialised again at a reopening, and an
  interrupt state left by the last poll may keep reception dead (`MayReopen`).  An error
  of `send` other than EAGAIN leaves the polling backend asleep on available
  descriptors (`IfFails = {"error"}`, `NoLostKick`).  A failing `rx_pkt_alloc` loses its buffer,
  and at close it may leave descriptors in the ring (`AllocFails`; `RingConsistent` and
  `ImplementsQueue` except exactly that).
- *PackedSched.*  A packet refused while nothing else is in use is not released:
  `vring_packed_txq_release` returns at once when its counter is 0, and the packet is
  counted afterwards (`DroppedAreReleased`).  A packet the algorithm drops
  keeps its mbuf (`Drops = {"sched"}`, `MbufsSuffice`).  A bad descriptor is acquired
  and never released (`BadBufs`; `NoReleaseUnnoticed` excepts it).
- *SringGso.*  A receive round that ends on its budget in the middle of a packet
  hands back descriptors without a packet (`CompletedWereUsed`; `WholePackets`
  excepts such rounds).  A ring of 16 with LRO cannot hold a largest packet
  while the driver holds back 15 buffers (`Need > N - RefillAt + 1`, `NoStarvation`), and
  a ring smaller than `2 + MAX_SKB_FRAGS` stalls (`MaxFrags + 2 > N`, `NoStall`).  An error of
  `send` other than EAGAIN leaves a stopped queue with nobody to restart it
  (`SendFails = {"error"}`, `NoStall`).  A refill that runs out of memory, or buffers that a
  failed `rx_pkt_alloc` left uncounted, may leave the backend without buffers for a packet and the
  driver without an interrupt to refill (`RefillFails = {"oom"}`, `AllocFails`; `NoStarvation`
  excepts both).  After a reopening the stored interrupt
  position is stale (`MayReopen`, `NoStall`).  A failed fragment mapping never
  returns (`XmitLost`).
- *DriverLife.*  `programs_setup` returns 0 for a failure after an earlier program's
  fix-up succeeded (`SetupFails = {"late"}`, `ProgramsWhole`).  `bpfhv_upgrade` ignores a failing
  `bpfhv_open` (`OpenFailsIn = {"upgrade"}`, `NapiBalanced`).  The wake-up after `napi_complete`
  may come after the stop of a close (`LateWake`, `ProgramsWhole`), although the stop comes
  after the end of transmit NAPI "because the latter can call netif_tx_wake_queue(), and thus
  undo the stop" (bpfhv.c:1472).  Without transmit NAPI, the default, the interrupt handler
  wakes the queue, and `bpfhv_close_carrier` does not wait for handlers: an interrupt raised
  before the device was disabled and handled after `netif_tx_disable` undoes the stop, in an upgrade
  while the programs are being replaced (`LateIntr`; `StopLasts`, `ProgramsWhole`).  An upgrade interrupt
  between the cancellation of the work and the teardown of the interrupts leaves
  the work queued (`UpgradeWhen = {"late"}`, `NothingLeft`).  Toggling LRO flips the layout
  under buffers in the ring (`UserToggles = {"LRO"}`, `LayoutAgrees`).
- *BackendControl.*  ENABLE resets the instance's stop flag; the worker reads the batch's,
  which stays at HALT (`StartSeesNoHalt`).  SET_MEM_TABLE is accepted under a
  running worker (`Remaps`, `TableStable`).  A failing `pthread_create` is not reported and
  leaves the instance counted (`CreateFails`; `StatusAgrees`, `CountsAgree`,
  `WorkerServesReady`).  A client that goes away without disabling its device
  stays active (`Disconnect` changes the socket only).  SIGINT with packets left in a
  transmit ring calls the send function that scheduler mode leaves unset
  (`backend_drain`, the step to "crashed").
- *SchedMain.*  A packet longer than its flow set's length drives a QFQ slot past the
  array, which the code says is "guaranteed by the input values"; nothing verifies
  the length.  `PacketLens` keeps such packets out.

## 5. Proofs

TLC checks small rings and few laps; the theorems below hold for every value of the
constants that satisfies the modules' assumptions, and under the hypotheses they
state.  No hypothesis is an assumption of the modules: each switches off one behaviour
of section 4 under which the property is false.

| Theorem | Hypotheses |
|---|---|
| `SringTx`: `Typing`, `RingOrderHolds`, `OwnershipHolds`, `AllReclaimedHolds` | none |
| `SringTx`: `NoLostKickHolds` | `"error" \notin SendFails` |
| `SringRx`: `CompletedWereUsedHolds`, `NoLostKickHolds`, `NoLostPacketHolds`, `IdleIsArmedHolds` | `~MayReopen` |
| `SringRx`: `RingOrderHolds`, `AllReclaimedHolds` | `~MayReopen`, `~AllocFails` |
| `PackedQueue`: `RingConsistentHolds`, `ImplementsQueueHolds` | `~MayReopen` |
| `PackedQueue`: `NoLostKickHolds` | `~MayReopen`, `"error" \notin IfFails` |
| `PackedQueue`: `NoLostInterruptHolds` | `~MayReopen`, `BudgetFits` |
| `PackedSched`: `SwapAssertionHolds`, `MapFindsDescriptorHolds`, `SchedImplementsQueueHolds` | `~MayReopen` |
| `PackedSched`: `MbufsSufficeHolds`, `SchedTypes` | `~MayReopen`, `"sched" \notin Drops` |
| `PackedSched`: `NoReleaseUnnoticedHolds` | `~MayReopen`, `PendingFits` |
| `SringGso`: `GsoTypes`, `AllReclaimedHolds`, `NoLostPacketHolds` | `~MayReopen` |
| `SringGso`: `NoStarvationHolds` | `~MayReopen`, `Roomy` |
| `SringGso`: `NoStallHolds` | `~MayReopen`, `"error" \notin SendFails`, `MaxFrags + 2 <= N` |
| `SringGso`: `WholePacketsHolds` | `~MayReopen`, `RxFits` |
| `DriverLife`: `NothingLeftHolds` | `CancelIsFinal` |
| `DriverLife`: `NapiBalancedHolds` | `CancelIsFinal`, `~ReopenMayFail` |
| `DriverLife`: `LayoutAgreesHolds` | `CancelIsFinal`, `"LRO" \notin UserToggles` |
| `DriverLife`: `ProgramsWholeHolds` | `CancelIsFinal`, `"late" \notin SetupFails`, `NoLateWakeUp` |
| `BackendControl`: `CountsAgreeHolds`, `WorkerServesReadyHolds` | `~CreateFails` |

With `MayReopen = TRUE` TLC finds a counterexample to each property of the table that
asks for `~MayReopen`, except `AllReclaimed` of `SringRx` and of `SringGso` and the types of
`SringGso`, which hold on small instances that reopen too: there the hypothesis is one of the
proof, whose invariant contains the ring order.  `NoLateWakeUp` says that no poll and, if
the driver runs without transmit NAPI, no transmit interrupt wakes the queues after a close has
stopped them (`~LateWake`, and `~LateIntr` unless `TxNapis = {TRUE}`).  `CancelIsFinal` ("no upgrade interrupt between
`cancel_work_sync` and the teardown of the vectors") is a hypothesis of all of
`DriverLife` because one invariant carries the four theorems.

### sring

`RingOrder` of `SringTx` is not inductive.  `tx_free` stays in `0 .. N` only because it
is the room between `prod` and `clear`; and `txr`, which takes back buffers the backend
never saw and moves cons with clear, keeps the order only because the backend is
halted then, so that no private copy is left behind:

    IInv == TypeOK /\ RingOrder /\ ReclaimHalted

`SInv` adds who may be where when the device goes down (`HolderInv`), the stage of every
slot at its distance from `clear` (`SlotInv`), and that a drain that has sent nothing
has only skipped bad buffers (`SkipInv`: cons stays behind them, so the next drain
meets them again).  `Ownership` and `AllReclaimed` follow.  `KickInv` is about
the places where the backend may fall asleep: after it has enabled kicks, either
every posted buffer has been announced, or the guest is between publishing and looking.

`SringRx` has the same parts, with the order required only while the driver may
complete buffers (`InUse`): `sring_rxr` moves clear past cons.  `RInv == PlaceInv /\
RingInv` gives the ring; `ArmInv` says that when the polls are over the interrupt is
pending, or enabled with nothing to complete, and that a poll which armed at its
end has still the value of cons in hand that it will compare (`seen`).

All modular arithmetic is in `WrapArithProofs`: distances from `clear` determine a
counter (`SubInj`), advancing a counter adds one to its distance from one behind it
(`SubStepAhead`), advancing `clear` takes one off every distance (`SubStepBehind`), and
the same for positions around a ring whose size divides the counters' range.

### vring_packed

Everything is counted from the next descriptor the guest will complete: `Ahead` is the
distance of a position with its wrap bit, `Off` and `Lap` the place and lap of a slot,
`InUse` and `Done` the descriptors in the ring and those the backend is done with.  In
these terms the flags of every slot spell its place (`FlagInv`), buffers and
identifiers in the ring are distinct (`HeldInv`, `IdInv`), and some function enumerates the
free list from `next_free_id` (`FreeInv`).  With `PosInv` and the life of the device
(`PlaceInv`) this is `QInv`, which is inductive and gives `RingConsistent`.  The
recursive functions in the statement (the walk along the free list, the descriptors
between two positions) are related to these by an induction that is written
out with a least counterexample, a set rather than an operator, so that the
provers can do it.

`KickTold`: when the backend is about to sleep its own position is published as
the event, and what came after it has been announced or will be.

`EventInv` is the argument why `vring_need_event` works with a correction of one lap.
Transmit puts the event at half of what is pending, receive at the next descriptor.
The event may fall behind the guest's position while `start_xmit` completes buffers
before it puts the event anew, but no further than `EventPlace` says, so it
is never more than a lap from the backend's position; and while an armed event
has been passed somebody knows (`Told`): the interrupt is raised, a poll is due, the
round that passed it has still to compare, or the poll that stored it has still to look.
The comparison is in 16 bits, whence `BudgetFits` (`Budget < 65536`;
BPFHV_BE_TX_BUDGET and BPFHV_BE_RX_BUDGET are 128).

`ImplementsQueueHolds`: the sequences of the abstract queue are read off the ring
(`Posted`, `Handed`) by offset from the guest's position.  Publishing a descriptor is
`Publish`, using one is `Consume`, completing one is `Complete`, reclaiming one is
`Reclaim`, and every other step leaves the queue as it is (`NextRefines`).  The start of
a reclaim is such a step only because the poll before it has completed everything
the backend was done with.

### vring_packed through the scheduler

`QInv` was written so that the backend's two positions may be apart (`Served`, that they
agree, is a separate fact about the backend that serves in order, and only its own
steps need it).  A step of the guest is therefore looked at once for both backends
(`AwayIsStep`), and its half of the event argument is one lemma, `GuestTold`, in which
the number of used and not notified descriptors is a parameter.

`WInv` adds the worker: `Done <= Taken <= InUse` for its two positions, `pending_inuse` as
their difference, and for every packet in the scheduler that hv_map leads to a slot
between them that holds the packet's identifier and address (`MapInv`).  `Releases`
says what `vring_packed_txq_release` does: the descriptor of slot k goes to the used
position with the flags of that position, the one that was there goes to slot k and keeps
the flags of slot k.  Since the flags only depend on the place, the ring is as consistent as
before (`ReleaseKeepsRing`); and since identifiers in the ring are distinct, writing down
the slot of the moved one is enough to keep the map (`ReleaseKeepsMap`).
A dropped packet is released between its entry into the map and the move of the avail
position, and if nothing else is in use it is not released at all: `DropMoves` has the two
cases.  `SwapAssertion` is then a fact about offsets and laps.

`MbufsSuffice` counts: packets and slots correspond one to one (`PacketCount`), so the
cache holds one mbuf to every descriptor that is not acquired.  A packet that the
algorithm drops keeps its mbuf, whence `"sched" \notin Drops`.

`NoReleaseUnnoticed` rests on two parts.  `SchedTold`: if the guest's event has been passed,
it was told, or the passing is among the releases that are still counted.
`LaterRound`: what is counted has a later round that will notify, because packets are left,
or the round at hand knows that it dequeued or dropped one.  `vring_need_event` compares in
16 bits, whence `PendingFits` (`MaxPending + N < 65536`): the code sets no limit of its own on
how many dropped packets are counted before a notification, and the theorem is about
counts that fit.

`SchedImplementsQueueHolds`: the addresses in the ring, by offset, are one sequence in which
the first `Done` are handed back, those up to `Taken` are the worker's, the rest are posted
(`View`).  Publishing is `Publish`, acquiring is `Take`, a release exchanges the elements at
`Done` and at the packet's offset and moves the first boundary (`HandBack`), a drop
with others in use moves both boundaries (`Consume`), the halt moves the second boundary
back to the first (`Disable`).

### sring_gso

`GInv` is the invariant of the ring: the counters and the backend's copies in order
(`OrderInv`), the stage of every slot at its distance from `clear` (`SlotInv`), packets end
where cons, `cons_first` and (transmit) prod stand (`EndInv`), from every slot it is at most
`MaxFrags` (transmit) or `MaxBufs - 1` (receive) slots to the end of its packet
(`ShortInv`), and a receive round goes on collecting only while it has too few
descriptors for a largest packet (`FewInv`); and the driver's free count is the room that the
counters leave (`Room`), or less where an `rx_pkt_alloc` may have failed (`CountInv`).  It gives
`WholePackets` and `AllReclaimed`.
`RxFits` says that a receive packet fits a context: the ring is not larger than a
context, or no address is bad and `Need <= MaxBufs` (`BPFHV_MAX_RX_BUFS` is 64; a largest
packet is 65536 bytes in buffers of a page with LRO, and 1518 bytes in one buffer without).  A bad descriptor in the middle of a packet
makes it longer by one, without limit but the ring.

`NoStarvation`: the backend that stops listening has enabled the kicks and looked once
more; what it has not got is less than `Need`, and a driver outside its refill
holds back less than `RefillAt`, if its last refill did not give up and its count is right; the
two do not make N (`StarveInv`) when the ring is large enough (`Roomy ==
RefillAt + Need <= N + 1`).  `NoLostPacket` is the
second look of `rxi` (`ArmInv`).

`NoStall` is the argument why `bpfhv_start_xmit` may ignore the answer of `txi`.  The
completion that interrupts is put in the middle of what is pending.  While the device is up it
is ahead of cons and within the first half of the pending buffers, or the round that
passed it has still to interrupt, or the driver was told (`EventInv`): putting it anew at
the middle never moves it back over a completion, because more may be pending than before
but clear has not overtaken cons.  A stopped queue has fewer than `2 + MAX_SKB_FRAGS`
free buffers, so something is pending, and the backend that sleeps has taken it all
(`KickInv`).

### Driver and control plane

`LifeInv` ties the holder of the rtnl lock to its step (`JobInv`), the upgrade
work to the life of the driver (`WorkInv`), the flags `running`, `broken` and the
enabled device to the step (`RunInv`), NAPI to it (`NapiInv`), and the programs and
contexts to the version (`LoadInv`).  `ProgramsWhole` needs all of them: between the
close and the reopening of an upgrade only the stopped queues hold the stack off.
`LayoutInv` adds that LRO follows from the wish and the offer, and that there are
receive buffers only while the interface is open.

`ControlInv`: there is a worker only while every instance is running (`ThreadInv`), an
instance that runs was ready and stays so (`ReadyInv`), a stop waits only for a
worker that is there (`StopInv`), and the count is the number of running instances
(`CountInv`, which needs the cardinality lemmas for the last and the first client).

### Only model-checked

- All liveness (`PacketsLeave`, `PromisedRestart`, `QueueRestarts`, `PacketsDelivered`,
  `ReceiveGoesOn`, `StopReturns`, `UpgradeServed`): fairness and ENABLED are out of the
  prover's reach.
- `NoLostInterrupt` and `BuffersReturn` of `SringTx`, `Ownership` of `SringRx` and
  `StatusAgrees` of `BackendControl`, which no listed run checks.
- `SchedMain`: what the algorithms compute for every sequence of calls is an induction
  over heaps and lists; the library's induction theorems take an operator as a
  parameter, which the provers cannot instantiate.

## 6. Not modelled, and why

- Driver helper calls, network interfaces, packet marking: I/O or classifiers
  without state; their outcomes are inputs of the models.
- Feature negotiation in the backend, GET_PROGRAMS, the upgrade descriptor: no control
  decision of the backend reads them.  The driver's side of features is in
  `DriverLife`.
- The offload metadata of sring_gso packets (checksum and segmentation fields): data
  copied along, which no decision of the ring reads.
- The idle sleep, link emulation and statistics of pspat: timing only.
- Of dummynet, what this build never calls: removal and configuration of queues at run
  time, `heap_scan`, hash tables; and the text of the `-flowsets` option, whose
  result is the constant `FsConfig`.
- cqueue and the stand-alone scheduler (`main.c`) with its clients and receivers: test
  programs; the backend does not link them.
- In `bpfhv_remove`, `netif_napi_del` of the queues; and in `DriverLife` the receive interrupt and
  poll: receive NAPI appears there as enabled or not, which is what open, close and
  remove do to it, and its polls are in the queue modules.
- Several queue pairs on one device share nothing but the backend thread, which
  appears as wake-ups (`PollIn`, `TxKick`, `PollOther`).

## 7. Plan

1. *(done)* `WrapArith`, `SringTx`, `SringRx`, `BackendControl`; `Typing` and
   `RingOrderHolds`.
2. *(done)* `PackedRing`, `PackedQueue`, `PackedSched` with the abstract `BufferQueue` and
   both refinements; `SringGso`; `DriverLife`; the scheduling algorithms.
3. *(done)* Proofs of the safety invariants of `SringTx`, `SringRx`, `PackedQueue`,
   `DriverLife` and `BackendControl`, and of `PackedQueue`'s refinement of `BufferQueue`.
4. *(done)* Proofs of the safety invariants of `SringGso` and `PackedSched`, and of
   `PackedSched`'s refinement of `BufferQueue`.
5. *(done)* The failures of send, refill and `rx_pkt_alloc` in every device, the start of the
   worker after a reopening, and the transmit interrupt without NAPI, with their proofs.
6. Left: `AllReclaimed` of `SringRx` across reopenings; `Wf2qEligibility` and `QfqGroups`
   of `SchedMain` as far as they go without induction over the heaps.
