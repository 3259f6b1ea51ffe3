----------------------------- MODULE PackedSched -----------------------------
(***************************************************************************)
(* The transmit queue of a "vring_packed" device served in scheduler mode: *)
(* the guest of PackedQueue against the worker thread that serves all the  *)
(* guests (process_packets_spin_many) and hands their packets to the       *)
(* packet scheduler (pspat.c).  Acquiring a descriptor and releasing it    *)
(* are apart: packets leave in the order the scheduling algorithm chooses, *)
(* and a released descriptor is swapped into the next used position.       *)
(*                                                                         *)
(* One guest is in full view.  The others, which share the thread and the  *)
(* scheduler and nothing else, are seen through the three things they can  *)
(* do to it: delay it, dequeue packets of their own, drop packets of their *)
(* own.  The cache of mbufs is the sum of the guests' shares; "mbufs" is   *)
(* the share of this one.                                                  *)
(***************************************************************************)
EXTENDS PackedQueue

CONSTANTS
  Drops,       \* why packets are refused: for a mark that no flow has, by the
               \* scheduling algorithm; a subset of {"mark", "sched"}
  MaxPending   \* bound: packets dropped while this many wait to be notified

ASSUME SchedAssumption ==
  /\ Dirs = {"tx"} /\ BusyWaits = {TRUE}
  /\ Drops \subseteq {"mark", "sched"} /\ MaxPending \in Nat

VARIABLES
  hv_map,         \* slot of each acquired identifier
  pending_inuse,  \* pending_inuse_counter
  pending_used,   \* pending_used_counter
  sched,          \* packets in the scheduler: identifier and buffer
  mbufs,          \* mbufs in the cache (num_mbuf less those handed out)
  drops,          \* packets of this guest dropped by this txq_acquire
  ndeq, dropped,  \* is ndeq > 0, dropped > 0 in this round?
  skipped         \* bad descriptors acquired and never released

schedVars == <<hv_map, pending_inuse, pending_used, sched, mbufs, drops, ndeq,
               dropped, skipped>>
allVars == <<vars, schedVars>>

Packet == [id : Slots, addr : Bufs]

SchedTypeOK ==
  /\ hv_map \in [Slots -> Slots]
  /\ pending_inuse \in 0 .. N /\ pending_used \in 0 .. MaxPending + N
  /\ sched \subseteq Packet /\ mbufs \in 0 .. N /\ drops \in Nat
  /\ ndeq \in BOOLEAN /\ dropped \in BOOLEAN /\ skipped \in Nat

SchedInit ==
  /\ Init
  /\ hv_map = [i \in Slots |-> 0] /\ pending_inuse = 0 /\ pending_used = 0
  /\ sched = {} /\ mbufs = 0 /\ drops = 0
  /\ ndeq = FALSE /\ dropped = FALSE /\ skipped = 0

-----------------------------------------------------------------------------
(***************************************************************************)
(* vring_packed_txq_release, on what it reads and writes.                  *)
(***************************************************************************)
Rel == [vq |-> vq, map |-> hv_map, inuse |-> pending_inuse,
        used |-> pending_used]

\* Mutant of vring_packed_desc_swap_acquired: the flags move too.
SwapWithFlags(q, i, k) ==
  [q EXCEPT !.desc[i] = q.desc[k], !.desc[k] = q.desc[i]]

\* vring_packed_desc_swap_acquired: everything but the flags.
vring_packed_desc_swap_acquired(q, i, k) ==
  [q EXCEPT !.desc[i] = [q.desc[k] EXCEPT !.avail = q.desc[i].avail,
                                          !.used = q.desc[i].used],
            !.desc[k] = [q.desc[i] EXCEPT !.avail = q.desc[k].avail,
                                          !.used = q.desc[k].used]]

\* Mutant of vring_packed_txq_release: the slot that the other descriptor was
\* moved to is not written down.
ReleaseForgetsSlot(r, id) ==
  LET u == r.vq.h.used
      k == r.map[id]
      q == IF k = u THEN r.vq ELSE vring_packed_desc_swap_acquired(r.vq, u, k)
  IN  IF r.inuse = 0 THEN r
      ELSE [r EXCEPT !.vq = ExposeUsed(q), !.inuse = @ - 1, !.used = @ + 1]

\* Mutant of vring_packed_txq_release: the flags go to the descriptor's own
\* slot, as in a ring without swapping.
ReleaseInPlace(r, id) ==
  LET k == r.map[id]
      q == [r.vq EXCEPT !.desc[k].avail = r.vq.h.uwrap,
                        !.desc[k].used = r.vq.h.uwrap]
  IN  IF r.inuse = 0 THEN r
      ELSE [r EXCEPT !.vq = vring_packed_advance_used(q), !.inuse = @ - 1,
                     !.used = @ + 1]

vring_packed_txq_release(r, id) ==
  LET u == r.vq.h.used
      k == r.map[id]
      q == IF k = u THEN r.vq ELSE vring_packed_desc_swap_acquired(r.vq, u, k)
  IN  IF r.inuse = 0 THEN r
      ELSE [vq |-> ExposeUsed(q), inuse |-> r.inuse - 1, used |-> r.used + 1,
            map |-> IF k = u THEN r.map
                    ELSE [r.map EXCEPT ![r.vq.desc[u].id] = k]]

Leaves(r) ==
  /\ vq' = r.vq /\ hv_map' = r.map
  /\ pending_inuse' = r.inuse /\ pending_used' = r.used

-----------------------------------------------------------------------------
(***************************************************************************)
(* The worker thread.                                                      *)
(***************************************************************************)
hostRest == <<can_send, again, stopreq, stopping>>
WorkerOnly == UNCHANGED <<rigid, guestVars, kickfd, work, hostRest>>

\* sched_all_start, a cache with one mbuf for each descriptor; and the kicks
\* are turned off.
WorkerStarts ==
  /\ ThreadStarts
  /\ mbufs' = N
  /\ UNCHANGED <<hv_map, pending_inuse, pending_used, sched, drops, ndeq,
                 dropped, skipped>>

\* The top of the loop, where the worker sees bc->stopflag.
process_packets_spin_many ==
  /\ bpc = "top" /\ bpc' = IF stopreq THEN "finish" ELSE "acquire"
  /\ ndeq' = FALSE /\ dropped' = FALSE /\ count' = 0
  /\ WorkerOnly
  /\ UNCHANGED <<vq, irq, hv_map, pending_inuse, pending_used, sched, mbufs,
                 drops, skipped>>

\* The other guests' turn, before or after this one's: packets of theirs may
\* be dropped.
OthersDrop ==
  /\ bpc \in {"acquire", "dequeue"} /\ drops = 0 /\ count = 0 /\ ~dropped
  /\ Drops # {}
  /\ dropped' = TRUE
  /\ WorkerOnly
  /\ UNCHANGED <<vq, irq, bpc, count, hv_map, pending_inuse, pending_used,
                 sched, mbufs, drops, ndeq, skipped>>

\* vring_packed_txq_acquire finds no more descriptors: *dropped is assigned.
AcquireEnds ==
  /\ bpc = "acquire" /\ ~vring_packed_more_avail(vq)
  /\ bpc' = "dequeue" /\ dropped' = (dropped \/ drops > 0)
  /\ drops' = 0 /\ count' = 0
  /\ WorkerOnly
  /\ UNCHANGED <<vq, irq, hv_map, pending_inuse, pending_used, sched, mbufs,
                 ndeq, skipped>>

\* It ends on its budget: *dropped is not assigned, and the caller adds an
\* uninitialised value.
AcquireOutOfBudget ==
  /\ bpc = "acquire" /\ vring_packed_more_avail(vq) /\ count >= Budget
  /\ bpc' = "dequeue" /\ \E dr \in BOOLEAN : dropped' = (dropped \/ dr)
  /\ drops' = 0 /\ count' = 0
  /\ WorkerOnly
  /\ UNCHANGED <<vq, irq, hv_map, pending_inuse, pending_used, sched, mbufs,
                 ndeq, skipped>>

\* The next descriptor, good or bad, has been counted and passed over.
Acquired(r) ==
  Leaves([r EXCEPT !.vq = vring_packed_advance_avail(@), !.inuse = @ + 1])

Acquiring ==
  /\ bpc = "acquire" /\ vring_packed_more_avail(vq) /\ count < Budget
  /\ count' = count + 1
  /\ UNCHANGED <<bpc, irq, ndeq, dropped>>
  /\ WorkerOnly

Offered == LET d == vq.desc[vq.h.avail] IN [id |-> d.id, addr |-> d.addr]

\* The slot of the offered identifier goes into the map first of all.
Mapped == [Rel EXCEPT !.map[Offered.id] = vq.h.avail]

\* "Invalid TX descriptor": nobody will release it.
AcquireBad ==
  /\ Acquiring /\ vq.desc[vq.h.avail].bad
  /\ Acquired(Rel) /\ skipped' = skipped + 1
  /\ UNCHANGED <<sched, mbufs, drops>>

AcquireEnqueue ==
  /\ Acquiring /\ ~vq.desc[vq.h.avail].bad
  /\ mbufs > 0 /\ mbufs' = mbufs - 1
  /\ sched' = sched \cup {Offered}
  /\ Acquired(Mapped)
  /\ UNCHANGED <<drops, skipped>>

\* fun_sched_enqueue refuses: the mark is out of range (before an mbuf is
\* taken), or sched_enq drops (after).  The packet is released first and
\* counted as in use afterwards.
AcquireDrop ==
  /\ Acquiring /\ ~vq.desc[vq.h.avail].bad
  /\ \E why \in Drops :
       mbufs' = IF why = "sched" THEN mbufs - 1 ELSE mbufs
  /\ pending_used < MaxPending
  /\ Acquired(vring_packed_txq_release(Mapped, Offered.id))
  /\ drops' = drops + 1
  /\ UNCHANGED <<sched, skipped>>

\* Mutant of Dequeue: the mbuf does not go back to the cache.
DequeueKeepsMbuf ==
  /\ bpc \in {"dequeue", "finish"}
  /\ \E p \in sched :
       /\ sched' = sched \ {p}
       /\ Leaves(vring_packed_txq_release(Rel, p.id))
  /\ mbufs' = mbufs /\ ndeq' = TRUE
  /\ WorkerOnly
  /\ UNCHANGED <<bpc, count, irq, drops, dropped, skipped>>

\* A step of sched_dequeue_sink, sched_dequeue_netmap or
\* sched_dequeue_release_all: the algorithm returns some packet, which is
\* released and whose mbuf goes back to the cache.
Dequeue ==
  /\ bpc \in {"dequeue", "finish"}
  /\ \E p \in sched :
       /\ sched' = sched \ {p}
       /\ Leaves(vring_packed_txq_release(Rel, p.id))
  /\ mbufs' = mbufs + 1 /\ ndeq' = TRUE
  /\ WorkerOnly
  /\ UNCHANGED <<bpc, count, irq, drops, dropped, skipped>>

\* Nothing left in the scheduler, or not the link's time yet, or the limit of
\* a batch, or no room in the netmap ring.  The other guests may have had
\* packets dequeued.
DequeueEnds ==
  /\ bpc = "dequeue"
  /\ \E others \in BOOLEAN :
       /\ ndeq' = (ndeq \/ others)
       /\ bpc' = IF ndeq \/ others \/ dropped THEN "notify" ELSE "top"
  /\ WorkerOnly
  /\ UNCHANGED <<vq, irq, count, hv_map, pending_inuse, pending_used, sched,
                 mbufs, drops, dropped, skipped>>

\* Mutant of vring_packed_txq_notify: only the last release is looked at.
NotifyOne ==
  /\ bpc = "notify" /\ bpc' = "top"
  /\ irq' = (irq \/ (pending_used > 0 /\ vring_packed_intr_needed(vq, 1)))
  /\ pending_used' = 0
  /\ WorkerOnly
  /\ UNCHANGED <<vq, count, hv_map, pending_inuse, sched, mbufs, drops, ndeq,
                 dropped, skipped>>

\* vring_packed_txq_notify and the irqfd; sched_idle_sleep follows.
vring_packed_txq_notify ==
  /\ bpc = "notify" /\ bpc' = "top"
  /\ irq' = (irq \/ (pending_used > 0
                      /\ vring_packed_intr_needed(vq, pending_used)))
  /\ pending_used' = 0
  /\ WorkerOnly
  /\ UNCHANGED <<vq, count, hv_map, pending_inuse, sched, mbufs, drops, ndeq,
                 dropped, skipped>>

\* sched_all_finish has emptied the scheduler; nobody is notified.
sched_all_finish ==
  /\ bpc = "finish" /\ sched = {}
  /\ bpc' = "halted"
  /\ WorkerOnly
  /\ UNCHANGED <<vq, irq, count, schedVars>>

-----------------------------------------------------------------------------
Guest ==
  \/ bpfhv_open \/ OpenEnable \/ bpfhv_start_xmit \/ bpfhv_close
  \/ bpfhv_intr \/ bpfhv_poll \/ vring_packed_xc \/ CleanDone
  \/ PublishOne \/ vring_packed_txp \/ vring_packed_xi \/ XiCheck
  \/ CloseNapiDisable \/ vring_packed_xr \/ CloseDone

Worker ==
  \/ process_packets_spin_many \/ OthersDrop \/ AcquireEnds
  \/ AcquireOutOfBudget \/ AcquireBad \/ AcquireEnqueue \/ AcquireDrop
  \/ Dequeue \/ DequeueEnds \/ vring_packed_txq_notify \/ sched_all_finish

SchedNext == (Guest /\ UNCHANGED schedVars) \/ WorkerStarts \/ Worker

SchedSpec == SchedInit /\ [][SchedNext]_allVars

-----------------------------------------------------------------------------
(***************************************************************************)
(* Properties.                                                             *)
(***************************************************************************)
\* The descriptors the worker holds, and their slots.
Held == DescsFrom(vq, HUsed(vq), HAvail(vq))
HeldSlots == {(HUsed(vq) + k - 1) % N : k \in DOMAIN Held}

\* Whatever the order of release and however often descriptors were swapped:
\* hv_map leads from every packet of the scheduler to the slot where its own
\* descriptor now is, that slot is one the worker holds, and no two packets
\* share one.  This is what the assertion in vring_packed_desc_swap_acquired
\* and the release of the right buffer rest on.
MapFindsDescriptor ==
  /\ \A p \in sched :
       /\ hv_map[p.id] \in HeldSlots
       /\ vq.desc[hv_map[p.id]].addr = p.addr
       /\ vq.desc[hv_map[p.id]].id = p.id
  /\ \A p, q \in sched : p # q => hv_map[p.id] # hv_map[q.id]

\* The assertion at the end of vring_packed_desc_swap_acquired, for every
\* swap that could be next: the flags of the two slots agree, or are
\* complemented if the second slot is past the end of the ring.
SwapAssertion ==
  \A i, k \in HeldSlots :
    /\ i = vq.h.used /\ k # i
    => LET same == /\ vq.desc[i].avail = vq.desc[k].avail
                   /\ vq.desc[i].used = vq.desc[k].used
           complemented == /\ vq.desc[i].avail # vq.desc[k].avail
                           /\ vq.desc[i].used # vq.desc[k].used
       IN  IF i < k THEN same ELSE complemented

\* "keep max mbufs equal to sum of cqueue sizes" (pspat.c): the cache, which
\* mbuf_cache_get does not check, never runs out.
MbufsSuffice ==
  /\ mbufs + Cardinality(sched) =
       IF bpc \in {"halted", "start"} /\ mbufs = 0 THEN 0 ELSE N
  /\ bpc = "acquire" /\ vring_packed_more_avail(vq) => mbufs > 0

\* "release dropped packet (caller cannot not do it for us)": every
\* descriptor that the worker holds is in the scheduler, or was bad.
DroppedAreReleased ==
  /\ Len(Held) = Cardinality(sched) + skipped
  /\ pending_inuse = Len(Held)

\* An interrupt owed to the guest is not forgotten: at the top of the loop the
\* event that the guest stored has not been passed, or a later round still
\* counts the releases (pending_used) and has packets that will make it
\* notify.
NoReleaseUnnoticed ==
  /\ bpc = "top" /\ dev = "up" /\ gpc = "idle" /\ napi = "idle" /\ ~irq
  /\ vq.driver_event.flags = "DESC" /\ skipped = 0
  /\ Dist(GUsed(vq), HUsed(vq))
       > Dist(GUsed(vq), Pos(vq.driver_event.idx, vq.driver_event.wrap))
  => pending_used > 0 /\ (vring_packed_more_avail(vq) \/ sched # {})

\* The buffers the worker has yet to acquire, oldest first; once it has
\* halted, what it held counts with them.  And the buffers it holds.
SchedPosted ==
  Addrs(CASE Reclaiming -> InRing
          [] ~Reclaiming /\ bpc = "halted" ->
               DescsFrom(vq, HUsed(vq), GAvail(vq))
          [] ~Reclaiming /\ bpc # "halted" ->
               DescsFrom(vq, HAvail(vq), GAvail(vq)))
SchedTaken == IF bpc = "halted" THEN {} ELSE {Held[k].addr : k \in DOMAIN Held}

\* The abstract queue: the backend holds what it acquired, hands buffers back
\* in any order, and leaves what it never released to the guest when it halts.
SQ == INSTANCE BufferQueue WITH
        Buffers <- Bufs,  Lossy <- FALSE,  guest <- held,
        posted  <- SchedPosted,  taken <- SchedTaken,  used <- Handed,
        enabled <- bpc # "halted"

\* Served through the scheduler, out of order, the queue still keeps the
\* contract: every buffer comes back once, complete, or is reclaimed after the
\* worker halted.
SchedImplementsQueue == SQ!Spec
=============================================================================
