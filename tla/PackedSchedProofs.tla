-------------------------- MODULE PackedSchedProofs --------------------------
(***************************************************************************)
(* Proofs about PackedSched: the transmit queue of a vring_packed device   *)
(* whose descriptors are acquired in order by the scheduler's worker and   *)
(* released in the order the scheduling algorithm chooses.                 *)
(*                                                                         *)
(* The guest is that of PackedQueue and so is the ring invariant, in which *)
(* the two positions of the backend may be apart; what is new is the       *)
(* worker between them.  Proved for a device that is opened once           *)
(* (~MayReopen): hv_map finds every descriptor, the assertion of the swap  *)
(* never fails, the mbufs suffice, no release goes unnoticed, and the      *)
(* queue implements BufferQueue.                                           *)
(***************************************************************************)
EXTENDS PackedSched, PackedQueueProofs

\* Descriptors the worker has taken, those it is done with included.
Taken == Ahead(vq.h.avail, vq.h.awrap)

\* Who is where, and the positions of the worker.
WorkPlace ==
  /\ dir = "tx" /\ busy_wait = TRUE
  /\ bpc \in {"halted", "start", "top", "acquire", "dequeue", "notify",
              "finish"}
  /\ stopreq \in BOOLEAN
  /\ bpc = "finish" => stopreq
  /\ stopreq => dev \in {"closing", "down"}
  /\ bpc \in {"halted", "start"} => sched = {}
  /\ ~Reclaiming => /\ Done \in 0 .. Taken /\ Taken \in 0 .. InUse
                    /\ pending_inuse = Taken - Done

\* A packet of the scheduler is where hv_map says, between the two positions.
Finds(m, p) ==
  /\ Done <= Off(m[p.id]) /\ Off(m[p.id]) < Taken
  /\ vq.desc[m[p.id]].id = p.id /\ vq.desc[m[p.id]].addr = p.addr

MapInv ==
  /\ hv_map \in [Slots -> Slots] /\ sched \subseteq Packet
  /\ \A p \in sched : Finds(hv_map, p)

\* Once the guest reclaims, nobody touches descriptors or the backend's
\* positions.
LastSwap == Reclaiming => SwapAssertion

WInv == WorkPlace /\ MapInv /\ LastSwap

\* Every mbuf is in the cache or with a packet.
CacheInv ==
  /\ mbufs \in Nat
  /\ bpc \in {"halted", "start"} => mbufs \in {0, N}
  /\ bpc \notin {"halted", "start"} => mbufs + Cardinality(sched) = N

\* What is released and not notified, and how much of it there can be.
PendingInv ==
  /\ pending_inuse \in 0 .. N
  /\ pending_used \in Nat /\ drops \in Nat /\ skipped \in Nat
  /\ ndeq \in BOOLEAN /\ dropped \in BOOLEAN
  /\ dev \in {"new", "opening"} \/ bpc = "start" => pending_used = 0
  /\ bpc \in {"top", "acquire"} \/ (bpc = "dequeue" /\ ~ndeq)
       => pending_used <= MaxPending
  /\ pending_used + Cardinality(sched) <= MaxPending + N

\* Somebody knows that the event was passed.
SchedTold ==
  Live /\ Armed /\ EventOff < Done =>
    \/ irq \/ Alert
    \/ Done - pending_used <= EventOff
    \/ op = "poll" /\ gpc = "check"

\* What is released and not yet notified has a later round to notify it.
LaterRound ==
  pending_used > 0 /\ skipped = 0 /\ bpc \in {"top", "acquire", "dequeue"} =>
    \/ Taken < InUse \/ sched # {}
    \/ bpc = "acquire" /\ drops > 0
    \/ bpc = "dequeue" /\ (dropped \/ ndeq)

NoticeInv == EventPlace /\ PendingInv /\ SchedTold /\ LaterRound

-----------------------------------------------------------------------------
(***************************************************************************)
(* What the worker's functions do to the ring, field by field.             *)
(***************************************************************************)
\* vring_packed_advance_avail.
LEMMA AdvanceEffect ==
  ASSUME NEW v \in Virtq, NEW w, w = vring_packed_advance_avail(v)
  PROVE  /\ w \in Virtq /\ w.desc = v.desc /\ w.g = v.g /\ w.state = v.state
         /\ w.driver_event = v.driver_event
         /\ w.device_event = v.device_event
         /\ w.h.used = v.h.used /\ w.h.uwrap = v.h.uwrap
         /\ w.h.avail = NextIdx(v.h.avail)
         /\ w.h.awrap = NextWrap(v.h.avail, v.h.awrap)
<1> DEFINE h == [v.h EXCEPT !.avail = NextIdx(@),
                            !.awrap = NextWrap(v.h.avail, @)]
<1>1. /\ v.h \in HostSide /\ v.h.avail \in Slots /\ v.h.awrap \in {0, 1}
  BY DEF Virtq, HostSide
<1>2. /\ h \in HostSide /\ h.used = v.h.used /\ h.uwrap = v.h.uwrap
      /\ h.avail = NextIdx(v.h.avail)
      /\ h.awrap = NextWrap(v.h.avail, v.h.awrap)
  BY <1>1, NextType DEF HostSide
<1>3. w = [v EXCEPT !.h = h]
  BY DEF vring_packed_advance_avail
<1> HIDE DEF h
<1>4. w \in Virtq
  BY <1>2, <1>3 DEF Virtq, HostSide
<1> QED BY <1>2, <1>3, <1>4 DEF Virtq

\* ExposeUsed: the flags of the slot at the used position, which moves on.
LEMMA ExposeEffect ==
  ASSUME NEW v \in Virtq, NEW w, w = ExposeUsed(v)
  PROVE  /\ w \in Virtq
         /\ \A i \in Slots : i # v.h.used => w.desc[i] = v.desc[i]
         /\ w.desc[v.h.used].addr = v.desc[v.h.used].addr
         /\ w.desc[v.h.used].id = v.desc[v.h.used].id
         /\ w.desc[v.h.used].avail = v.h.uwrap
         /\ w.desc[v.h.used].used = v.h.uwrap
         /\ w.h.avail = v.h.avail /\ w.h.awrap = v.h.awrap
         /\ w.h.used = NextIdx(v.h.used)
         /\ w.h.uwrap = NextWrap(v.h.used, v.h.uwrap)
         /\ w.g = v.g /\ w.state = v.state /\ w.driver_event = v.driver_event
         /\ w.device_event = v.device_event
<1> DEFINE u == v.h.used
           d == [v.desc[u] EXCEPT !.avail = v.h.uwrap, !.used = v.h.uwrap]
           x == [v EXCEPT !.desc[u] = d]
           h == [x.h EXCEPT !.used = NextIdx(@), !.uwrap = NextWrap(x.h.used, @)]
<1>1. /\ v.h \in HostSide /\ v.desc \in [Slots -> Desc] /\ u \in Slots
      /\ v.desc[u] \in Desc /\ v.h.uwrap \in {0, 1}
  BY DEF Virtq, HostSide
<1>2. /\ d \in Desc /\ d.addr = v.desc[u].addr /\ d.id = v.desc[u].id
      /\ d.avail = v.h.uwrap /\ d.used = v.h.uwrap
  BY <1>1 DEF Desc
<1>3. w = [x EXCEPT !.h = h]
  BY DEF ExposeUsed, vring_packed_advance_used
<1> HIDE DEF d
<1>4. /\ x \in Virtq /\ x.desc[u] = d /\ x.h = v.h /\ x.g = v.g
      /\ x.state = v.state /\ x.driver_event = v.driver_event
      /\ x.device_event = v.device_event
      /\ \A i \in Slots : i # u => x.desc[i] = v.desc[i]
  BY <1>1, <1>2 DEF Virtq
<1> HIDE DEF x
<1>5. /\ h \in HostSide /\ h.avail = v.h.avail /\ h.awrap = v.h.awrap
      /\ h.used = NextIdx(u) /\ h.uwrap = NextWrap(u, v.h.uwrap)
  BY <1>1, <1>4, NextType DEF HostSide
<1> HIDE DEF h
<1>6. w \in Virtq
  BY <1>3, <1>4, <1>5 DEF Virtq, HostSide
<1>7. /\ w.desc = x.desc /\ w.g = x.g /\ w.state = x.state /\ w.h = h
      /\ w.driver_event = x.driver_event /\ w.device_event = x.device_event
  BY <1>3, <1>4 DEF Virtq
<1> QED BY <1>2, <1>4, <1>5, <1>6, <1>7

\* Two descriptors of v change places in w, their flags do not.
Swaps(v, w, i, k) ==
  /\ w \in Virtq
  /\ \A j \in Slots : j # i /\ j # k => w.desc[j] = v.desc[j]
  /\ w.desc[i].addr = v.desc[k].addr /\ w.desc[i].id = v.desc[k].id
  /\ w.desc[k].addr = v.desc[i].addr /\ w.desc[k].id = v.desc[i].id
  /\ w.desc[k].avail = v.desc[k].avail /\ w.desc[k].used = v.desc[k].used
  /\ w.h = v.h /\ w.g = v.g /\ w.state = v.state
  /\ w.driver_event = v.driver_event

\* vring_packed_desc_swap_acquired.
LEMMA SwapEffect ==
  ASSUME NEW v \in Virtq, NEW i \in Slots, NEW k \in Slots, i # k
  PROVE  Swaps(v, vring_packed_desc_swap_acquired(v, i, k), i, k)
<1> DEFINE w == vring_packed_desc_swap_acquired(v, i, k)
<1> DEFINE d == [v.desc[k] EXCEPT !.avail = v.desc[i].avail,
                                  !.used = v.desc[i].used]
           e == [v.desc[i] EXCEPT !.avail = v.desc[k].avail,
                                  !.used = v.desc[k].used]
<1>1. /\ v.desc \in [Slots -> Desc] /\ v.desc[i] \in Desc /\ v.desc[k] \in Desc
  BY DEF Virtq
<1>2. /\ d \in Desc /\ d.addr = v.desc[k].addr /\ d.id = v.desc[k].id
      /\ e \in Desc /\ e.addr = v.desc[i].addr /\ e.id = v.desc[i].id
      /\ e.avail = v.desc[k].avail /\ e.used = v.desc[k].used
  BY <1>1 DEF Desc
<1>3. w = [v EXCEPT !.desc[i] = d, !.desc[k] = e]
  BY DEF vring_packed_desc_swap_acquired
<1> HIDE DEF d, e, w
<1>4. w = [v EXCEPT !.desc = [v.desc EXCEPT ![i] = d, ![k] = e]]
  BY <1>1, <1>3 DEF Virtq
<1>5. /\ [v.desc EXCEPT ![i] = d, ![k] = e] \in [Slots -> Desc]
  BY <1>1, <1>2
<1>6. w \in Virtq
  BY <1>4, <1>5 DEF Virtq
<1>7. /\ w.desc = [v.desc EXCEPT ![i] = d, ![k] = e] /\ w.h = v.h
      /\ w.g = v.g /\ w.state = v.state /\ w.driver_event = v.driver_event
      /\ w.device_event = v.device_event
  BY <1>4 DEF Virtq
<1>8. /\ w.desc[i] = d /\ w.desc[k] = e
      /\ \A j \in Slots : j # i /\ j # k => w.desc[j] = v.desc[j]
  BY <1>1, <1>7
<1>9. Swaps(v, w, i, k)
  BY <1>2, <1>6, <1>7, <1>8 DEF Swaps
<1> QED BY <1>9 DEF w

\* The descriptor of slot k of v is released: w is v with it in the slot at the
\* used position, which moves on, and the one that was there in slot k.
Releases(v, w, k) ==
  /\ w \in Virtq /\ w.g = v.g /\ w.state = v.state
  /\ w.driver_event = v.driver_event
  /\ w.h.used = NextIdx(v.h.used)
  /\ w.h.uwrap = NextWrap(v.h.used, v.h.uwrap)
  /\ \A i \in Slots : i # v.h.used /\ i # k => w.desc[i] = v.desc[i]
  /\ w.desc[v.h.used].addr = v.desc[k].addr
  /\ w.desc[v.h.used].id = v.desc[k].id
  /\ w.desc[v.h.used].avail = v.h.uwrap /\ w.desc[v.h.used].used = v.h.uwrap
  /\ k # v.h.used =>
       /\ w.desc[k].addr = v.desc[v.h.used].addr
       /\ w.desc[k].id = v.desc[v.h.used].id
       /\ w.desc[k].avail = v.desc[k].avail /\ w.desc[k].used = v.desc[k].used

\* What hv_map becomes with it.
Records(v, m, k) ==
  IF k = v.h.used THEN m ELSE [m EXCEPT ![v.desc[v.h.used].id] = k]

\* vring_packed_txq_release, of anything while something is in use.
LEMMA ReleaseEffect ==
  ASSUME NEW r, r.vq \in Virtq, r.inuse # 0, NEW id, r.map[id] \in Slots,
         NEW x, x = vring_packed_txq_release(r, id)
  PROVE  /\ Releases(r.vq, x.vq, r.map[id])
         /\ x.vq.h.avail = r.vq.h.avail /\ x.vq.h.awrap = r.vq.h.awrap
         /\ x.map = Records(r.vq, r.map, r.map[id])
         /\ x.inuse = r.inuse - 1 /\ x.used = r.used + 1
<1>1. PICK v, u, k : v = r.vq /\ u = v.h.used /\ k = r.map[id]
  OBVIOUS
<1>2. v \in Virtq /\ u \in Slots /\ k \in Slots
  BY <1>1 DEF Virtq
<1> DEFINE q == IF k = u THEN v ELSE vring_packed_desc_swap_acquired(v, u, k)
<1>3. x = [vq |-> ExposeUsed(q), inuse |-> r.inuse - 1, used |-> r.used + 1,
           map |-> IF k = u THEN r.map ELSE [r.map EXCEPT ![v.desc[u].id] = k]]
  BY <1>1 DEF vring_packed_txq_release
<1>4. /\ q \in Virtq /\ q.g = v.g /\ q.state = v.state /\ q.h = v.h
      /\ q.driver_event = v.driver_event
      /\ \A i \in Slots : i # u /\ i # k => q.desc[i] = v.desc[i]
      /\ q.desc[u].addr = v.desc[k].addr /\ q.desc[u].id = v.desc[k].id
      /\ k # u => /\ q.desc[k].addr = v.desc[u].addr
                  /\ q.desc[k].id = v.desc[u].id
                  /\ q.desc[k].avail = v.desc[k].avail
                  /\ q.desc[k].used = v.desc[k].used
  <2>1. CASE k = u
    BY <2>1, <1>2
  <2>2. CASE k # u
    <3>1. PICK y : y = vring_packed_desc_swap_acquired(v, u, k) /\ u # k
      BY <2>2
    <3>2. Swaps(v, y, u, k)
      BY <3>1, <1>2, SwapEffect
    <3>3. q = y
      BY <2>2, <3>1
    <3> HIDE DEF q
    <3> QED BY <2>2, <3>2, <3>3 DEF Swaps
  <2> QED BY <2>1, <2>2
<1> HIDE DEF q
<1>5. PICK w : w = ExposeUsed(q)
  OBVIOUS
<1>6. /\ w \in Virtq
      /\ \A i \in Slots : i # q.h.used => w.desc[i] = q.desc[i]
      /\ w.desc[q.h.used].addr = q.desc[q.h.used].addr
      /\ w.desc[q.h.used].id = q.desc[q.h.used].id
      /\ w.desc[q.h.used].avail = q.h.uwrap
      /\ w.desc[q.h.used].used = q.h.uwrap
      /\ w.h.avail = q.h.avail /\ w.h.awrap = q.h.awrap
      /\ w.h.used = NextIdx(q.h.used)
      /\ w.h.uwrap = NextWrap(q.h.used, q.h.uwrap)
      /\ w.g = q.g /\ w.state = q.state /\ w.driver_event = q.driver_event
      /\ w.device_event = q.device_event
  BY <1>4, <1>5, ExposeEffect
<1>7. Releases(v, w, k) /\ w.h.avail = v.h.avail /\ w.h.awrap = v.h.awrap
  BY <1>1, <1>2, <1>4, <1>6 DEF Releases
<1>8. /\ x.vq = w /\ x.inuse = r.inuse - 1 /\ x.used = r.used + 1
      /\ x.map = Records(v, r.map, k)
  BY <1>1, <1>3, <1>5 DEF Records
<1> QED BY <1>1, <1>7, <1>8

-----------------------------------------------------------------------------
(***************************************************************************)
(* The worker keeps the ring.                                              *)
(***************************************************************************)
\* A release.
LEMMA ReleaseKeepsRing ==
  ASSUME RingInv, ~Reclaiming, ~Reclaiming', NEW k \in Slots,
         Done <= Off(k), Off(k) < InUse, Releases(vq, vq', k), held' = held
  PROVE  /\ RingInv' /\ InUse' = InUse /\ Done' = Done + 1
         /\ vq.h.used \in Slots /\ Off(vq.h.used) = Done
         /\ \A i \in Slots : Off(i)' = Off(i)
<1>1. PICK u, a : u = vq.h.used /\ a = vq.h.uwrap
  OBVIOUS
<1>2. /\ vq \in Virtq /\ InUse \in 0 .. N /\ Done \in 0 .. InUse /\ N \in Nat
      /\ \A i \in Slots : Off(i) \in 0 .. N - 1 /\ Lap(i) \in {0, 1}
      /\ u \in Slots /\ a \in {0, 1}
  BY <1>1, PackedAssumption, Offsets DEF RingInv, PosInv
<1>3. Done \in 0 .. N - 1 /\ Done < InUse
  BY <1>2
<1>4. Off(u) = Done /\ Lap(u) = a
  BY <1>1, <1>2, <1>3, Offsets DEF Done
<1>5. \A i, j \in Slots : Off(i) = Off(j) => i = j
  BY <1>2, Offsets
<1>6. /\ vq' \in Virtq /\ vq'.g = vq.g /\ vq'.state = vq.state
      /\ vq'.h.used = NextIdx(u) /\ vq'.h.uwrap = NextWrap(u, a)
      /\ \A i \in Slots : i # u /\ i # k => vq'.desc[i] = vq.desc[i]
      /\ vq'.desc[u].addr = vq.desc[k].addr /\ vq'.desc[u].id = vq.desc[k].id
      /\ vq'.desc[u].avail = a /\ vq'.desc[u].used = a
      /\ k # u => /\ vq'.desc[k].addr = vq.desc[u].addr
                  /\ vq'.desc[k].id = vq.desc[u].id
                  /\ vq'.desc[k].avail = vq.desc[k].avail
                  /\ vq'.desc[k].used = vq.desc[k].used
  BY <1>1 DEF Releases
<1>7. \A i \in Slots : Off(i)' = Off(i) /\ Lap(i)' = Lap(i)
  BY <1>6, UsedStays
<1>8. InUse' = InUse /\ Done' = Done + 1
  BY <1>1, <1>2, <1>3, <1>6, AheadNext, UsedStays DEF InUse, Done
<1>9. PosInv'
  BY <1>2, <1>3, <1>6, <1>8 DEF PosInv
<1>10. FlagInv'
  <2> SUFFICES ASSUME NEW i \in Slots
               PROVE  /\ vq'.desc[i].avail =
                           IF Off(i) < InUse THEN Lap(i) ELSE 1 - Lap(i)
                      /\ vq'.desc[i].used =
                           IF Off(i) < Done + 1 THEN Lap(i) ELSE 1 - Lap(i)
    BY <1>7, <1>8 DEF FlagInv
  <2>1. /\ vq.desc[i].avail = IF Off(i) < InUse THEN Lap(i) ELSE 1 - Lap(i)
        /\ vq.desc[i].used = IF Off(i) < Done THEN Lap(i) ELSE 1 - Lap(i)
    BY DEF RingInv, FlagInv
  <2>2. CASE i = u
    BY <2>2, <1>2, <1>3, <1>4, <1>6
  <2>3. CASE i # u
    <3>1. Off(i) < Done + 1 <=> Off(i) < Done
      BY <2>3, <1>2, <1>3, <1>4, <1>5
    <3>2. vq'.desc[i].avail = vq.desc[i].avail
          /\ vq'.desc[i].used = vq.desc[i].used
      BY <2>3, <1>6
    <3> QED BY <2>1, <3>1, <3>2
  <2> QED BY <2>2, <2>3
\* The two descriptors that changed places were both in the ring.
<1> DEFINE o(i) == IF i = u THEN k ELSE IF i = k THEN u ELSE i
<1>11. /\ \A i \in Slots : o(i) \in Slots
       /\ \A i \in Slots : Off(i) < InUse <=> Off(o(i)) < InUse
       /\ \A i, j \in Slots : i # j => o(i) # o(j)
       /\ \A i \in Slots : o(o(i)) = i
  BY <1>2, <1>3, <1>4
<1>12. \A i \in Slots : /\ vq'.desc[i].addr = vq.desc[o(i)].addr
                        /\ vq'.desc[i].id = vq.desc[o(i)].id
  BY <1>6
<1> HIDE DEF o
<1>13. HeldInv'
  <2>1. held \subseteq Bufs /\ InUse' = N - Cardinality(held')
    BY <1>8 DEF RingInv, HeldInv
  <2>2. \A i \in Slots : Off(i) < InUse => vq'.desc[i].addr \notin held
    BY <1>11, <1>12 DEF RingInv, HeldInv
  <2>3. \A i, j \in Slots : Off(i) < InUse /\ Off(j) < InUse /\ i # j
                              => vq'.desc[i].addr # vq'.desc[j].addr
    BY <1>11, <1>12 DEF RingInv, HeldInv
  <2> QED BY <2>1, <2>2, <2>3, <1>7, <1>8 DEF HeldInv
<1>14. IdInv'
  <2>1. \A i \in Slots : Off(i) < InUse =>
          /\ vq.state[vq'.desc[i].id].busy
          /\ vq.state[vq'.desc[i].id].cookie = vq'.desc[i].addr
    BY <1>11, <1>12 DEF RingInv, IdInv
  <2>2. \A i, j \in Slots : Off(i) < InUse /\ Off(j) < InUse /\ i # j
                              => vq'.desc[i].id # vq'.desc[j].id
    BY <1>11, <1>12 DEF RingInv, IdInv
  <2>3. ASSUME NEW x \in Slots, vq.state[x].busy
        PROVE  \E i \in Slots : Off(i) < InUse /\ vq'.desc[i].id = x
    <3>1. PICK i \in Slots : Off(i) < InUse /\ vq.desc[i].id = x
      BY <2>3 DEF RingInv, IdInv
    <3>2. /\ o(i) \in Slots /\ Off(o(i)) < InUse
          /\ vq'.desc[o(i)].id = vq.desc[o(o(i))].id
      BY <3>1, <1>11, <1>12
    <3>3. vq'.desc[o(i)].id = x
      BY <3>1, <3>2, <1>11
    <3> QED BY <3>2, <3>3
  <2>4. vq'.state = vq.state
    BY <1>6
  <2> QED BY <2>1, <2>2, <2>3, <2>4, <1>7, <1>8 DEF IdInv
<1>15. FreeInv'
  <2>1. PICK f \in [0 .. N - 1 -> Slots] : Lists(f)
    BY DEF RingInv, FreeInv
  <2>2. vq'.state = vq.state /\ vq'.g = vq.g
    BY <1>6
  <2>3. Lists(f)'
    BY <2>1, <2>2, <1>8 DEF Lists
  <2> QED BY <2>3 DEF FreeInv
<1> QED BY <1>1, <1>2, <1>4, <1>7, <1>8, <1>9, <1>10, <1>13, <1>14, <1>15
        DEF RingInv

\* Whatever happens to the worker's avail position alone keeps it too.
LEMMA AdvanceKeepsRing ==
  ASSUME RingInv, ~Reclaiming, ~Reclaiming', Taken \in 0 .. N - 1,
         vq' = vring_packed_advance_avail(vq), held' = held
  PROVE  /\ RingInv' /\ InUse' = InUse /\ Done' = Done /\ Taken' = Taken + 1
         /\ vq'.desc = vq.desc /\ vq'.g = vq.g /\ vq'.h.used = vq.h.used
         /\ vq'.driver_event = vq.driver_event
         /\ \A i \in Slots : Off(i)' = Off(i)
<1>0. /\ vq \in Virtq /\ vq.h.avail \in Slots /\ vq.h.awrap \in {0, 1}
      /\ PosInv /\ FlagInv /\ HeldInv /\ IdInv /\ FreeInv
  BY DEF RingInv, PosInv, Virtq
<1>1. PICK v, w : v = vq /\ w = vq'
  OBVIOUS
<1>2. v \in Virtq /\ w = vring_packed_advance_avail(v)
  BY <1>0, <1>1
<1>3. /\ w \in Virtq /\ w.desc = v.desc /\ w.g = v.g /\ w.state = v.state
      /\ w.driver_event = v.driver_event
      /\ w.device_event = v.device_event
      /\ w.h.used = v.h.used /\ w.h.uwrap = v.h.uwrap
      /\ w.h.avail = NextIdx(v.h.avail)
      /\ w.h.awrap = NextWrap(v.h.avail, v.h.awrap)
  BY <1>2, AdvanceEffect
<1>4. /\ vq' \in Virtq /\ vq'.desc = vq.desc /\ vq'.g = vq.g
      /\ vq'.state = vq.state /\ vq'.driver_event = vq.driver_event
      /\ vq'.h.used = vq.h.used /\ vq'.h.uwrap = vq.h.uwrap
      /\ vq'.h.avail = NextIdx(vq.h.avail)
      /\ vq'.h.awrap = NextWrap(vq.h.avail, vq.h.awrap)
  BY <1>1, <1>3
<1>5. /\ \A i \in Slots : Off(i)' = Off(i) /\ Lap(i)' = Lap(i)
      /\ InUse' = InUse /\ Done' = Done
  BY <1>4, UsedStays DEF InUse, Done
<1>6. Taken' = Taken + 1
  BY <1>0, <1>4, AheadNext, UsedStays DEF Taken
<1>7. PosInv' /\ FlagInv' /\ HeldInv'
  BY <1>0, <1>4, <1>5 DEF PosInv, FlagInv, HeldInv
<1>8. IdInv'
  BY <1>0, <1>4, <1>5 DEF IdInv
<1>9. FreeInv'
  BY ZenonT(40), <1>0, <1>4, <1>5 DEF FreeInv, Lists
<1> QED BY <1>4, <1>5, <1>6, <1>7, <1>8, <1>9 DEF RingInv

\* The flags tell the worker whether a descriptor is available, and it is the
\* one at its avail position.
LEMMA AvailReads ==
  ASSUME RingInv, ~Reclaiming, Done \in 0 .. Taken, Taken \in 0 .. InUse
  PROVE  /\ vring_packed_more_avail(vq) <=> Taken < InUse
         /\ Taken < InUse => Off(vq.h.avail) = Taken /\ Taken \in 0 .. N - 1
         /\ vq.h.avail \in Slots
<1> DEFINE u == vq.g.used
           a == vq.h.avail
<1>0. vq \in Virtq /\ InUse \in 0 .. N /\ N \in Nat
  BY PackedAssumption DEF RingInv, PosInv
<1>1. /\ u \in Slots /\ a \in Slots /\ vq.g.uwrap \in {0, 1}
      /\ vq.h.awrap \in {0, 1} /\ Off(u) = 0 /\ Lap(u) = vq.g.uwrap
  BY <1>0, Offsets
<1>2. CASE Taken < N
  <2>1. Off(a) = Taken /\ Lap(a) = vq.h.awrap
    BY <1>0, <1>1, <1>2, Offsets DEF Taken
  <2>2. /\ vq.desc[a].avail =
             IF Taken < InUse THEN vq.h.awrap ELSE 1 - vq.h.awrap
        /\ vq.desc[a].used = 1 - vq.h.awrap
    BY <1>0, <1>1, <2>1 DEF RingInv, FlagInv
  <2>3. vring_packed_more_avail(vq) <=> Taken < InUse
    BY <2>2, <1>1 DEF vring_packed_more_avail
  <2> QED BY <2>1, <2>3, <1>0, <1>1
<1>3. CASE Taken = N
  <2>1. a = u /\ vq.h.awrap = 1 - vq.g.uwrap
    BY <1>0, <1>1, <1>3, Offsets DEF Taken
  <2>2. InUse = N /\ 0 < InUse
    BY <1>0, <1>3, QueueAssumption
  <2>3. vq.desc[a].avail = vq.g.uwrap
    BY <2>1, <2>2, <1>1 DEF RingInv, FlagInv
  <2>4. ~vring_packed_more_avail(vq)
    BY <2>1, <2>3, <1>1 DEF vring_packed_more_avail
  <2> QED BY <2>2, <2>4, <1>1, <1>3
<1> QED BY <1>0, <1>2, <1>3

-----------------------------------------------------------------------------
(***************************************************************************)
(* The guest.                                                              *)
(***************************************************************************)
\* A step in which the worker does nothing but start.
Away == Guest \/ ThreadStarts \/ UNCHANGED vars

\* Where the worker then is.
Starts ==
  /\ ~OpenEnable /\ ~ThreadStarts => bpc' = bpc
  /\ OpenEnable => bpc = "halted" /\ bpc' = "start"
  /\ ThreadStarts => bpc = "start" /\ bpc' = "top"

\* The backend of PackedQueue always moves, and not when it is halted.
LEMMA BackendMoves == BackendStep => bpc' # bpc /\ bpc # "halted"
<1>1. CASE RoundLooks
  <2>1. bpc' \in {"use", "notify", "enable"} /\ bpc = "look"
    <3>1. CASE vring_packed_more_avail(vq)
      BY <1>1, <3>1 DEF RoundLooks
    <3>2. CASE ~vring_packed_more_avail(vq) /\ busy_wait
      BY <1>1, <3>2 DEF RoundLooks
    <3>3. CASE ~vring_packed_more_avail(vq) /\ ~busy_wait
      BY <1>1, <3>3 DEF RoundLooks
    <3> QED BY <3>1, <3>2, <3>3
  <2> QED BY <2>1
<1>2. CASE \/ ThreadStarts \/ process_packets_poll
           \/ process_packets_spin \/ RoundBegins \/ RoundEnables
           \/ RoundRechecks \/ RoundRemutes \/ RoundOutOfBudget \/ UseOne
           \/ UseFails \/ RoundNotifies
  BY <1>2 DEF ThreadStarts, process_packets_poll, WakeUp,
     process_packets_spin, RoundBegins, RoundEnables, RoundRechecks,
     RoundRemutes, RoundOutOfBudget, UseOne, UseFails, RoundNotifies
<1> QED BY <1>1, <1>2 DEF BackendStep

\* A thread that starts does nothing else.
LEMMA StartsOnly ==
  ASSUME ThreadStarts
  PROVE  /\ bpc = "start" /\ bpc' = "top"
         /\ ~OpenEnable /\ ~UseOne /\ ~PublishOne /\ ~vring_packed_xc
         /\ UNCHANGED <<guestVars, rigid>> /\ irq' = irq /\ stopreq' = stopreq
<1>1. bpc = "start" /\ bpc' = "top"
  BY DEF ThreadStarts
<1>2. ~OpenEnable
  BY <1>1 DEF OpenEnable
<1>3. ~UseOne /\ ~PublishOne /\ ~vring_packed_xc
  BY <1>1 DEF UseOne, PublishOne, vring_packed_xc, beVars
<1> QED BY <1>1, <1>2, <1>3 DEF ThreadStarts, fds, loopVars

\* So these steps are steps of PackedQueue, and not those of its backend that
\* serve the ring.
LEMMA AwayIsStep ==
  ASSUME PlaceInv, Away
  PROVE  Step /\ (ThreadStarts \/ ~BackendStep) /\ Starts
<1>1. CASE Guest /\ ~OpenEnable
  <2>1. bpc' = bpc
    BY <1>1 DEF Guest, bpfhv_open, bpfhv_start_xmit, bpfhv_close, bpfhv_intr,
      bpfhv_poll, vring_packed_xc, CleanDone, PublishOne, vring_packed_txp,
      vring_packed_xi, XiCheck, CloseNapiDisable, vring_packed_xr, CloseDone,
      beVars
  <2>2. ~BackendStep
    BY <2>1, BackendMoves
  <2>3. Next
    BY <1>1 DEF Guest, Next, GuestStep
  <2>4. ~ThreadStarts
    BY <2>2 DEF BackendStep
  <2> QED BY <1>1, <2>1, <2>2, <2>3, <2>4 DEF Step, Starts
<1>2. CASE OpenEnable
  <2>1. bpc = "halted" /\ bpc' = "start"
    BY <1>2 DEF OpenEnable, PlaceInv
  <2>2. ~BackendStep
    BY <2>1, BackendMoves
  <2>3. ~ThreadStarts
    BY <2>2 DEF BackendStep
  <2> QED BY <1>2, <2>1, <2>2, <2>3 DEF Step, Next, GuestStep, Starts
<1>3. CASE UNCHANGED vars
  <2>1. bpc' = bpc
    BY <1>3 DEF vars, beVars
  <2>2. ~BackendStep
    BY <2>1, BackendMoves
  <2>3. ~OpenEnable /\ ~ThreadStarts
    BY <2>1 DEF OpenEnable, ThreadStarts, PlaceInv
  <2> QED BY <1>3, <2>1, <2>2, <2>3 DEF Step, Starts
<1>4. CASE ThreadStarts
  BY <1>4, StartsOnly DEF Step, Next, BackendStep, Starts
<1> QED BY <1>1, <1>2, <1>3, <1>4 DEF Away

\* To the worker the guest only adds descriptors and completes used ones: what
\* the worker holds stays where it is.
LEMMA AwayMoves ==
  ASSUME ~MayReopen, QInv, WorkPlace, Away, ~Reclaiming'
  PROVE  /\ ~Reclaiming /\ vq'.h = vq.h
         /\ Done' \in 0 .. Taken' /\ Taken' \in 0 .. InUse'
         /\ Taken' - Done' = Taken - Done /\ InUse' - Taken' >= InUse - Taken
         /\ \A i \in Slots : Done <= Off(i) /\ Off(i) < Taken =>
              /\ vq'.desc[i] = vq.desc[i]
              /\ Done' <= Off(i)' /\ Off(i)' < Taken'
<1>1. /\ PlaceInv /\ RingInv /\ PlaceInv' /\ RingInv' /\ Step
      /\ (ThreadStarts \/ ~BackendStep)
      /\ vq \in Virtq /\ N \in Nat /\ InUse \in 0 .. N /\ held \subseteq Bufs
  BY NextQInv, AwayIsStep, PackedAssumption DEF QInv, RingInv, PosInv, HeldInv
<1>2. ~Reclaiming
  <2>1. dev = "down" => dev' = "down"
    <3>1. dev = "down" => gpc = "idle" /\ bpc = "halted" /\ napi = "off"
      BY <1>1 DEF PlaceInv
    <3> SUFFICES ASSUME dev = "down", dev' # "down" PROVE FALSE
      OBVIOUS
    <3>2. CASE OpenEnable \/ ThreadStarts \/ UNCHANGED vars
      BY <3>1, <3>2 DEF OpenEnable, ThreadStarts, vars, guestVars
    <3>3. CASE Guest /\ ~OpenEnable
      BY <3>1, <3>3 DEF Guest, bpfhv_open, bpfhv_start_xmit, bpfhv_close,
        bpfhv_intr, bpfhv_poll, vring_packed_xc, CleanDone, PublishOne,
        vring_packed_txp, vring_packed_xi, XiCheck, CloseNapiDisable,
        vring_packed_xr, CloseDone
    <3> QED BY <3>2, <3>3 DEF Away
  <2>2. gpc = "reclaim" => gpc' = "reclaim" \/ dev' = "down"
    <3>1. gpc = "reclaim" => op = "close" /\ dev = "closing" /\ napi = "off"
      BY <1>1 DEF PlaceInv
    <3> SUFFICES ASSUME gpc = "reclaim", gpc' # "reclaim", dev' # "down"
                 PROVE  FALSE
      OBVIOUS
    <3>2. CASE OpenEnable \/ ThreadStarts \/ UNCHANGED vars
      BY <3>1, <3>2 DEF OpenEnable, ThreadStarts, vars, guestVars
    <3>3. CASE Guest /\ ~OpenEnable
      BY <3>1, <3>3 DEF Guest, bpfhv_open, bpfhv_start_xmit, bpfhv_close,
        bpfhv_intr, bpfhv_poll, vring_packed_xc, CleanDone, PublishOne,
        vring_packed_txp, vring_packed_xi, XiCheck, CloseNapiDisable,
        vring_packed_xr, CloseDone
    <3> QED BY <3>2, <3>3 DEF Away
  <2> QED BY <2>1, <2>2 DEF Reclaiming
<1>3. /\ Done \in 0 .. Taken /\ Taken \in 0 .. InUse
      /\ vq.h.avail \in Slots /\ vq.h.awrap \in {0, 1}
      /\ \A i \in Slots : Off(i) \in 0 .. N - 1
  BY <1>1, <1>2, Offsets DEF WorkPlace
<1>4. CASE PublishOne
  <2>1. PICK b \in held, bad \in {FALSE, BadBufs} :
          vq' = vring_packed_add(vq, b, bad) /\ held' = held \ {b}
    BY <1>4 DEF PublishOne
  <2>2. b \in Bufs /\ bad \in BOOLEAN
    BY <1>1, QueueAssumption
  <2>3. /\ InUse' = InUse + 1 /\ Done' = Done /\ vq'.h = vq.h
        /\ vq'.g.used = vq.g.used /\ vq'.g.uwrap = vq.g.uwrap
    BY <1>1, <1>2, <1>4, RingSteps
  <2>4. /\ \A i \in Slots : Off(i)' = Off(i)
        /\ Taken' = Taken
    BY <2>3, UsedStays DEF Taken
  <2>5. InUse \in 0 .. N - 1
    BY <2>3, <1>1 DEF RingInv, PosInv
  <2>6. Off(vq.g.avail) = InUse
    BY <2>5, <1>1, Offsets DEF InUse
  <2>7. \A i \in Slots : i # vq.g.avail => vq'.desc[i] = vq.desc[i]
    BY <2>1, <1>1 DEF vring_packed_add, Virtq
  <2>8. \A i \in Slots : Off(i) < Taken => i # vq.g.avail
    BY <2>6, <1>1, <1>3
  <2> QED BY <2>3, <2>4, <2>7, <2>8, <1>1, <1>2, <1>3
<1>5. CASE vring_packed_xc
  <2>1. /\ InUse' = InUse - 1 /\ Done' = Done - 1 /\ Done >= 1
        /\ vq'.h = vq.h /\ vq'.g.used = NextIdx(vq.g.used)
        /\ vq'.g.uwrap = NextWrap(vq.g.used, vq.g.uwrap)
    BY <1>1, <1>2, <1>5, RingSteps DEF Gets
  <2>2. vq'.desc = vq.desc
    BY <1>1, <1>5 DEF vring_packed_xc, vring_packed_get, Virtq
  <2>3. PICK u : u = vq.g.used
    OBVIOUS
  <2>4. /\ \A i \in Slots : i # u => Off(i)' = Off(i) - 1
        /\ \A i \in Slots, w \in {0, 1} :
             Ahead(i, w) \in 1 .. N => Ahead(i, w)' = Ahead(i, w) - 1
    BY <2>1, <2>3, <1>1, UsedMoves
  <2>5. Off(u) = 0
    BY <2>3, <1>1, Offsets
  <2>6. Taken \in 1 .. N
    BY <2>1, <1>1, <1>3
  <2>7. Taken' = Taken - 1
    <3>1. Taken' = Ahead(vq.h.avail, vq.h.awrap)'
      BY DEF Taken
    <3>2. PICK a, w : a = vq.h.avail /\ w = vq.h.awrap
      OBVIOUS
    <3>3. Taken' = Ahead(a, w)' /\ Taken = Ahead(a, w)
      BY <2>1, <3>2 DEF Taken
    <3>4. Ahead(a, w)' = Ahead(a, w) - 1
      BY <2>4, <2>6, <3>2, <3>3, <1>3
    <3> QED BY <3>3, <3>4
  <2>8. \A i \in Slots : Done <= Off(i) => i # u
    BY <2>1, <2>5, <1>1, <1>3
  <2> QED BY <2>1, <2>2, <2>4, <2>7, <2>8, <1>1, <1>2, <1>3
<1>6. CASE ~PublishOne /\ ~vring_packed_xc
  <2>1. ~UseOne /\ ~Gets
    <3>1. ~UseOne
      BY <1>1, StartsOnly DEF BackendStep
    <3>2. ~RxAllocFails
      BY DEF RxAllocFails, WorkPlace
    <3> QED BY <3>1, <3>2, <1>6 DEF Gets
  <2>2. RingSame /\ InUse' = InUse /\ Done' = Done
    BY <2>1, <1>1, <1>2, <1>6, OtherSteps
  <2>3. Taken' = Taken /\ \A i \in Slots : Off(i)' = Off(i)
    BY <2>2, UsedStays DEF RingSame, Taken, Ahead
  <2> QED BY <2>2, <2>3, <1>1, <1>2, <1>3 DEF RingSame
<1> QED BY <1>4, <1>5, <1>6

-----------------------------------------------------------------------------
(***************************************************************************)
(* The assertion in vring_packed_desc_swap_acquired.                       *)
(***************************************************************************)
\* The slots the worker holds, by their offsets.
LEMMA HeldSlotsAre ==
  ASSUME RingInv, ~Reclaiming, Done \in 0 .. Taken, Taken \in 0 .. InUse
  PROVE  /\ HeldSlots = {i \in Slots : Done <= Off(i) /\ Off(i) < Taken}
         /\ Held = [k \in 1 .. Taken - Done |-> vq.desc[At(Done + k - 1)]]
<1>1. /\ vq \in Virtq /\ InUse \in 0 .. N /\ N \in Nat
      /\ vq.h.used \in Slots /\ vq.h.uwrap \in {0, 1}
      /\ vq.h.avail \in Slots /\ vq.h.awrap \in {0, 1}
  BY PackedAssumption DEF RingInv, PosInv, Virtq
<1>2. PICK m, n, i, w, j, x :
        /\ m = Done /\ n = Taken /\ i = vq.h.used /\ w = vq.h.uwrap
        /\ j = vq.h.avail /\ x = vq.h.awrap
  OBVIOUS
<1>3. /\ m = Ahead(i, w) /\ n = Ahead(j, x) /\ m \in 0 .. n /\ n \in 0 .. N
      /\ HUsed(vq) = Pos(i, w) /\ HAvail(vq) = Pos(j, x)
      /\ i \in Slots /\ j \in Slots /\ w \in {0, 1} /\ x \in {0, 1}
  BY <1>1, <1>2 DEF Done, Taken, HUsed, HAvail
<1>4. /\ \A k \in 1 .. n - m : (HUsed(vq) + k - 1) % N = At(m + k - 1)
      /\ DescsFrom(vq, HUsed(vq), HAvail(vq)) =
           [k \in 1 .. n - m |-> vq.desc[At(m + k - 1)]]
  BY <1>1, <1>3, Segment
<1>5. DOMAIN Held = 1 .. n - m
  BY <1>4 DEF Held
<1>6. ASSUME NEW y \in HeldSlots
      PROVE  y \in Slots /\ m <= Off(y) /\ Off(y) < n
  <2>1. PICK k \in 1 .. n - m : y = At(m + k - 1)
    BY <1>4, <1>5, <1>6 DEF HeldSlots
  <2>2. m + k - 1 \in 0 .. N - 1 /\ m + k - 1 < n /\ m <= m + k - 1
    BY <2>1, <1>1, <1>3
  <2> QED BY <2>1, <2>2, <1>1, SlotAt
<1>7. ASSUME NEW y \in Slots, m <= Off(y), Off(y) < n
      PROVE  y \in HeldSlots
  <2>1. Off(y) \in 0 .. N - 1 /\ At(Off(y)) = y
    BY <1>1, SlotAt, Offsets
  <2>2. PICK k : k = Off(y) - m + 1
    OBVIOUS
  <2>3. k \in 1 .. n - m /\ m + k - 1 = Off(y)
    BY <2>1, <2>2, <1>3, <1>7
  <2>4. y = (HUsed(vq) + k - 1) % N
    BY <2>1, <2>3, <1>4
  <2> QED BY <2>3, <2>4, <1>5 DEF HeldSlots
<1> QED BY <1>2, <1>4, <1>6, <1>7 DEF Held

\* The flags of the slots it holds are those of available descriptors, of the
\* lap of each.
LEMMA SwapOK ==
  ASSUME RingInv, ~Reclaiming, Done \in 0 .. Taken, Taken \in 0 .. InUse
  PROVE  SwapAssertion
<1>1. /\ vq \in Virtq /\ InUse \in 0 .. N /\ N \in Nat
      /\ vq.h.used \in Slots /\ vq.h.uwrap \in {0, 1}
      /\ vq.g.used \in Slots /\ vq.g.uwrap \in {0, 1}
  BY PackedAssumption DEF RingInv, PosInv, Virtq
<1> SUFFICES ASSUME NEW i \in Slots, NEW k \in Slots, i = vq.h.used, k # i,
                    Done <= Off(i), Off(i) < Taken,
                    Done <= Off(k), Off(k) < Taken
             PROVE  IF i < k
                    THEN /\ vq.desc[i].avail = vq.desc[k].avail
                         /\ vq.desc[i].used = vq.desc[k].used
                    ELSE /\ vq.desc[i].avail # vq.desc[k].avail
                         /\ vq.desc[i].used # vq.desc[k].used
  BY HeldSlotsAre DEF SwapAssertion
<1>2. /\ Off(i) \in 0 .. N - 1 /\ Off(k) \in 0 .. N - 1
      /\ Lap(i) \in {0, 1} /\ Lap(k) \in {0, 1} /\ Off(i) # Off(k)
  BY <1>1, Offsets
<1>3. Off(i) = Done /\ Off(i) < Off(k)
  <2>1. Done \in 0 .. N - 1
    BY <1>1, <1>2
  <2>2. Off(i) = Done
    BY <2>1, <1>1, Offsets DEF Done
  <2> QED BY <2>1, <2>2, <1>2
<1>4. /\ vq.desc[i].avail = Lap(i) /\ vq.desc[i].used = 1 - Lap(i)
      /\ vq.desc[k].avail = Lap(k) /\ vq.desc[k].used = 1 - Lap(k)
  <2>1. /\ Off(i) < InUse /\ Off(k) < InUse
        /\ ~(Off(i) < Done) /\ ~(Off(k) < Done)
    BY <1>1, <1>2
  <2> QED BY <2>1 DEF RingInv, FlagInv
<1>5. Lap(i) = Lap(k) <=> i < k
  BY <1>1, <1>3 DEF Off, Lap, Slots
<1> QED BY <1>2, <1>4, <1>5

\* It is about the descriptors and the backend's positions only, ...
LEMMA SwapSame ==
  ASSUME SwapAssertion, vq'.h = vq.h, vq'.desc = vq.desc
  PROVE  SwapAssertion'
<1>1. HUsed(vq)' = HUsed(vq) /\ HAvail(vq)' = HAvail(vq)
  BY DEF HUsed, HAvail
<1>2. Held' = Held
  BY <1>1 DEF Held, DescsFrom
<1>3. HeldSlots' = HeldSlots
  BY <1>1, <1>2 DEF HeldSlots
<1> QED BY <1>3 DEF SwapAssertion

\* ... which nobody touches once the guest reclaims.
LEMMA ReclaimTouchesNothing ==
  ASSUME QInv, Away, Reclaiming'
  PROVE  vq'.h = vq.h /\ vq'.desc = vq.desc
<1>1. /\ PlaceInv /\ vq \in Virtq /\ min \in 0 .. N /\ 0 \in 0 .. N
      /\ (~busy_wait) \in BOOLEAN
  BY PackedAssumption DEF QInv, RingInv, PosInv, PlaceInv
<1>2. CASE vring_packed_xc \/ vring_packed_xr
  BY <1>1, <1>2
     DEF vring_packed_xc, vring_packed_xr, vring_packed_get, Virtq
<1>3. CASE bpfhv_poll \/ vring_packed_xi
  <2>1. PICK n \in 0 .. N : vq' = vring_packed_intr(vq, n)
    BY <1>1, <1>3 DEF bpfhv_poll, vring_packed_xi
  <2> QED BY <2>1, <1>1, IntrEffect
<1>4. CASE OpenEnable \/ ThreadStarts
  BY <1>1, <1>4, NotificationEffect DEF OpenEnable, ThreadStarts
<1>5. ~PublishOne
  BY <1>1 DEF PublishOne, Reclaiming, PlaceInv
<1>6. CASE \/ bpfhv_open \/ bpfhv_start_xmit \/ bpfhv_close \/ bpfhv_intr
           \/ CleanDone \/ vring_packed_txp \/ XiCheck \/ CloseNapiDisable
           \/ CloseDone \/ UNCHANGED vars
  BY <1>6 DEF bpfhv_open, bpfhv_start_xmit, bpfhv_close, bpfhv_intr,
     CleanDone, vring_packed_txp, XiCheck, CloseNapiDisable, CloseDone, vars
<1> QED BY <1>2, <1>3, <1>4, <1>5, <1>6 DEF Away, Guest

\* The guest leaves the worker's invariant true.
LEMMA AwayKeeps ==
  ASSUME ~MayReopen, QInv, WInv, Away,
         UNCHANGED <<hv_map, pending_inuse, sched>>
  PROVE  QInv' /\ WInv'
<1>1. /\ PlaceInv /\ RingInv /\ QInv' /\ PlaceInv'
      /\ WorkPlace /\ MapInv /\ LastSwap
      /\ Starts
  BY NextQInv, AwayIsStep DEF QInv, WInv
<1>2. Reclaiming' => bpc' = "halted" /\ bpc = "halted"
  BY <1>1 DEF PlaceInv, Reclaiming, Starts
<1>3. WorkPlace'
  <2>1. dir' = dir /\ busy_wait' = busy_wait
    BY DEF Away, Guest, OpenEnable, ThreadStarts, bpfhv_open,
      bpfhv_start_xmit, bpfhv_close, bpfhv_intr, bpfhv_poll,
      vring_packed_xc, CleanDone, PublishOne,
      vring_packed_txp, vring_packed_xi, XiCheck, CloseNapiDisable,
      vring_packed_xr, CloseDone, vars, rigid
  <2>2. /\ stopreq' \in BOOLEAN
        /\ stopreq' => dev' \in {"closing", "down"}
        /\ bpc' = "finish" => stopreq'
    <3>1. CASE OpenEnable
      BY <3>1 DEF OpenEnable
    <3>5. CASE ThreadStarts
      BY <3>5, <1>1 DEF ThreadStarts, guestVars, loopVars, WorkPlace
    <3>2. CASE UNCHANGED vars
      BY <3>2, <1>1 DEF vars, guestVars, beVars, loopVars, WorkPlace
    <3>3. CASE bpfhv_close
      BY <3>3 DEF bpfhv_close
    <3>4. CASE \/ bpfhv_open \/ bpfhv_start_xmit \/ bpfhv_intr \/ bpfhv_poll
               \/ vring_packed_xc \/ CleanDone \/ PublishOne
               \/ vring_packed_txp \/ vring_packed_xi \/ XiCheck
               \/ CloseNapiDisable \/ vring_packed_xr \/ CloseDone
      <4>1. stopreq' = stopreq /\ bpc' = bpc
        BY <3>4 DEF bpfhv_open, bpfhv_start_xmit, bpfhv_intr, bpfhv_poll,
          vring_packed_xc, CleanDone, PublishOne, vring_packed_txp,
          vring_packed_xi, XiCheck, CloseNapiDisable, vring_packed_xr,
          CloseDone, beVars, loopVars
      <4>2. dev' = dev \/ (dev = "new" /\ dev' = "opening") \/ dev' = "down"
        BY <3>4 DEF bpfhv_open, bpfhv_start_xmit, bpfhv_intr, bpfhv_poll,
          vring_packed_xc, CleanDone, PublishOne, vring_packed_txp,
          vring_packed_xi, XiCheck, CloseNapiDisable, vring_packed_xr,
          CloseDone
      <4> QED BY <4>1, <4>2, <1>1 DEF WorkPlace
    <3> QED BY <3>1, <3>2, <3>3, <3>4, <3>5 DEF Away, Guest
  <2>3. /\ bpc' \in {"halted", "start", "top", "acquire", "dequeue", "notify",
                     "finish"}
        /\ bpc' \in {"halted", "start"} => sched' = {}
    BY <1>1 DEF WorkPlace, Starts
  <2>4. ~Reclaiming' => /\ Done' \in 0 .. Taken' /\ Taken' \in 0 .. InUse'
                        /\ pending_inuse' = Taken' - Done'
    BY <1>1, AwayMoves DEF WorkPlace
  <2> QED BY <2>1, <2>2, <2>3, <2>4, <1>1 DEF WorkPlace
<1>4. MapInv'
  <2> SUFFICES ASSUME NEW p \in sched PROVE Finds(hv_map, p)'
    BY <1>1 DEF MapInv
  <2>1. ~Reclaiming'
    BY <1>1, <1>2 DEF WorkPlace
  <2>2. PICK m : m = hv_map
    OBVIOUS
  <2>3. Finds(m, p) /\ m[p.id] \in Slots
    BY <2>2, <1>1 DEF MapInv, Packet
  <2>4. \A i \in Slots : Done <= Off(i) /\ Off(i) < Taken =>
          vq'.desc[i] = vq.desc[i] /\ Done' <= Off(i)' /\ Off(i)' < Taken'
    BY <2>1, <1>1, AwayMoves
  <2>5. Finds(m, p)'
    BY <2>3, <2>4 DEF Finds
  <2> QED BY <2>2, <2>5 DEF Finds
<1>5. LastSwap'
  <2> SUFFICES ASSUME Reclaiming' PROVE SwapAssertion'
    BY DEF LastSwap
  <2>1. SwapAssertion
    BY <1>1, SwapOK DEF LastSwap, WorkPlace
  <2> QED BY <2>1, SwapSame, ReclaimTouchesNothing
<1> QED BY <1>1, <1>3, <1>4, <1>5 DEF WInv

-----------------------------------------------------------------------------
(***************************************************************************)
(* The worker.                                                             *)
(***************************************************************************)
\* Where it goes.  It never runs while the guest reclaims, and leaves
\* everything of the guest's but the ring alone.
LEMMA WorkerPlace ==
  ASSUME QInv, WorkPlace, Worker
  PROVE  /\ bpc \notin {"halted", "start"} /\ ~Reclaiming /\ ~Reclaiming'
         /\ UNCHANGED <<rigid, guestVars, stopreq>>
         /\ bpc' \in {"halted", "top", "acquire", "dequeue", "notify",
                      "finish"}
         /\ bpc' = "finish" => stopreq
         /\ bpc' # "start" /\ (bpc' = "halted" => sched' = {})
         /\ PlaceInv'
<1>1. /\ UNCHANGED <<rigid, guestVars, stopreq>>
      /\ bpc \notin {"halted", "start"}
  BY DEF Worker, WorkerOnly, hostRest, process_packets_spin_many, OthersDrop,
     AcquireEnds, AcquireOutOfBudget, AcquireBad, AcquireEnqueue, AcquireDrop,
     Acquiring, Dequeue, DequeueEnds, vring_packed_txq_notify,
     sched_all_finish
<1>2. /\ bpc' \in {"halted", "top", "acquire", "dequeue", "notify", "finish"}
      /\ bpc' = "finish" => stopreq
      /\ bpc' = "halted" => sched' = {}
  <2>1. CASE process_packets_spin_many
    BY <2>1 DEF process_packets_spin_many
  <2>2. CASE \/ OthersDrop \/ AcquireBad \/ AcquireEnqueue \/ AcquireDrop
             \/ Dequeue
    <3>1. bpc' = bpc
      BY <2>2 DEF OthersDrop, AcquireBad, AcquireEnqueue, AcquireDrop,
         Acquiring, Dequeue
    <3> QED BY <3>1, <1>1 DEF WorkPlace
  <2>3. CASE AcquireEnds \/ AcquireOutOfBudget
    BY <2>3 DEF AcquireEnds, AcquireOutOfBudget
  <2>4. CASE DequeueEnds \/ vring_packed_txq_notify
    BY <2>4 DEF DequeueEnds, vring_packed_txq_notify
  <2>5. CASE sched_all_finish
    BY <2>5 DEF sched_all_finish, schedVars
  <2> QED BY <2>1, <2>2, <2>3, <2>4, <2>5 DEF Worker
<1>3. ~Reclaiming /\ ~Reclaiming'
  BY <1>1 DEF QInv, PlaceInv, Reclaiming, guestVars
<1>4. PlaceInv'
  <2>1. /\ PlaceInv /\ op # "close" /\ dir = "tx"
        /\ dev \notin {"new", "opening", "down", "leaked"}
    BY <1>1 DEF QInv, PlaceInv, WorkPlace
  <2>2. UNCHANGED <<dir, busy_wait, polled, min, dev, gpc, op, napi, broken,
                    held, lost>>
    BY <1>1 DEF rigid, guestVars, batchVars
  <2>3. bpc' \notin {"use", "remute"}
    BY <1>2
  <2> QED BY <2>1, <2>2, <2>3 DEF PlaceInv
<1> QED BY <1>1, <1>2, <1>3, <1>4

\* hv_map leads to every packet but the released one after the release.
LEMMA ReleaseKeepsMap ==
  ASSUME RingInv, ~Reclaiming, ~Reclaiming', held' = held,
         Done \in 0 .. Taken, Taken \in 0 .. InUse,
         NEW k \in Slots, Done <= Off(k), Off(k) < InUse,
         Releases(vq, vq', k), Taken' \in {Taken, Taken + 1}, Off(k) < Taken',
         NEW m \in [Slots -> Slots], NEW n, n = Records(vq, m, k),
         NEW p \in Packet, Finds(m, p), m[p.id] # k
  PROVE  Finds(n, p)'
<1>1. /\ vq \in Virtq /\ InUse \in 0 .. N /\ N \in Nat
      /\ p.id \in Slots /\ m[p.id] \in Slots
      /\ \A i \in Slots : Off(i) \in 0 .. N - 1 /\ vq.desc[i].id \in Slots
      /\ \A i, j \in Slots : Off(i) = Off(j) => i = j
  BY PackedAssumption, Offsets DEF RingInv, PosInv, Packet, Virtq, Desc
<1>2. PICK u, i : u = vq.h.used /\ i = m[p.id]
  OBVIOUS
<1>3. /\ Done' = Done + 1 /\ u \in Slots /\ Off(u) = Done
      /\ \A j \in Slots : Off(j)' = Off(j)
  BY <1>2, ReleaseKeepsRing
<1>4. /\ Done <= Off(i) /\ Off(i) < Taken /\ vq.desc[i].id = p.id
      /\ vq.desc[i].addr = p.addr /\ i \in Slots /\ i # k
  BY <1>1, <1>2 DEF Finds
<1>5. /\ \A j \in Slots : j # u /\ j # k => vq'.desc[j] = vq.desc[j]
      /\ k # u => /\ vq'.desc[k].addr = vq.desc[u].addr
                  /\ vq'.desc[k].id = vq.desc[u].id
  BY <1>2 DEF Releases
<1>6. n = IF k = u THEN m ELSE [m EXCEPT ![vq.desc[u].id] = k]
  BY <1>2 DEF Records
<1>7. Off(i) < Taken' /\ Off(i) < InUse /\ Off(u) < InUse
  BY <1>1, <1>3, <1>4
<1>8. CASE i = u
  <2>1. k # u /\ n[p.id] = k
    BY <1>1, <1>2, <1>4, <1>6, <1>8
  <2>2. Off(k) # Done /\ Off(k) >= Done + 1
    BY <2>1, <1>1, <1>3
  <2> QED BY <2>1, <2>2, <1>3, <1>4, <1>5, <1>8 DEF Finds
<1>9. CASE i # u
  <2>1. vq.desc[i].id # vq.desc[u].id
    BY <1>3, <1>4, <1>7, <1>9 DEF RingInv, IdInv
  <2>2. n[p.id] = i
    BY <2>1, <1>1, <1>2, <1>4, <1>6
  <2>3. Off(i) # Done /\ Off(i) >= Done + 1
    BY <1>1, <1>3, <1>4, <1>9
  <2>4. vq'.desc[i] = vq.desc[i]
    BY <1>4, <1>5, <1>9
  <2> QED BY <2>2, <2>3, <2>4, <1>3, <1>4, <1>7 DEF Finds
<1> QED BY <1>8, <1>9

\* Packets of the scheduler and their slots correspond.
LEMMA SlotOfPacket ==
  ASSUME RingInv, ~Reclaiming, Taken \in 0 .. InUse, MapInv
  PROVE  /\ \A p \in sched : p \in Packet /\ hv_map[p.id] \in Slots
         /\ \A p, q \in sched : hv_map[p.id] = hv_map[q.id] => p = q
         /\ Taken < InUse => Offered \in Packet \ sched
         /\ Taken < InUse => \A p \in sched : p.id # Offered.id
<1>1. \A p \in sched : p \in Packet /\ hv_map[p.id] \in Slots
  BY DEF MapInv, Packet
<1>2. ASSUME NEW p \in sched, NEW q \in sched, hv_map[p.id] = hv_map[q.id]
      PROVE  p = q
  <2>1. p.id = q.id /\ p.addr = q.addr
    BY <1>2 DEF MapInv, Finds
  <2> QED BY <2>1, <1>1 DEF Packet
<1>3. ASSUME Taken < InUse
      PROVE  Offered \in Packet \ sched /\ \A p \in sched : p.id # Offered.id
  <2>1. PICK a : a = vq.h.avail
    OBVIOUS
  <2>2. /\ vq \in Virtq /\ a \in Slots /\ vq.h.awrap \in {0, 1}
        /\ vq.desc[a] \in Desc /\ InUse \in 0 .. N /\ N \in Nat
        /\ \A i \in Slots : Off(i) \in 0 .. N - 1
    BY <2>1, PackedAssumption, Offsets DEF RingInv, PosInv, Virtq
  <2>3. Off(a) = Taken
    BY <2>1, <2>2, <1>3, Offsets DEF Taken
  <2>4. Offered \in Packet /\ Offered.id = vq.desc[a].id
    BY <2>1, <2>2 DEF Offered, Packet, Desc
  <2>5. ASSUME NEW p \in sched PROVE p.id # Offered.id
    <3>1. PICK i : i = hv_map[p.id]
      OBVIOUS
    <3>2. i \in Slots /\ Off(i) < Taken /\ vq.desc[i].id = p.id
      BY <3>1, <1>1 DEF MapInv, Finds
    <3>3. i # a /\ Off(i) < InUse /\ Off(a) < InUse
      BY <2>2, <2>3, <3>2, <1>3
    <3>4. vq.desc[i].id # vq.desc[a].id
      BY <2>2, <3>2, <3>3 DEF RingInv, IdInv
    <3> QED BY <2>4, <3>2, <3>4
  <2> QED BY <2>4, <2>5
<1> QED BY <1>1, <1>2, <1>3

\* The next descriptor is acquired, for the scheduler or as a bad one.
LEMMA AcquireMoves ==
  ASSUME QInv, WInv, AcquireBad \/ AcquireEnqueue
  PROVE  /\ RingInv' /\ InUse' = InUse /\ Done' = Done /\ Taken' = Taken + 1
         /\ Taken < InUse /\ vq'.g = vq.g /\ vq'.desc = vq.desc
         /\ vq'.driver_event = vq.driver_event /\ vq'.h.used = vq.h.used
         /\ vq'.h.uwrap = vq.h.uwrap
         /\ pending_inuse' = pending_inuse + 1
         /\ pending_used' = pending_used /\ MapInv'
<1>1. /\ ~Reclaiming /\ ~Reclaiming' /\ held' = held /\ RingInv /\ WorkPlace
      /\ MapInv /\ vq \in Virtq
  BY WorkerPlace DEF QInv, WInv, Worker, guestVars, RingInv, PosInv
<1>2. /\ Done \in 0 .. Taken /\ Taken \in 0 .. InUse
      /\ vring_packed_more_avail(vq)
  BY <1>1 DEF WorkPlace, AcquireBad, AcquireEnqueue, Acquiring
<1>3. /\ Taken < InUse /\ Off(vq.h.avail) = Taken /\ Taken \in 0 .. N - 1
      /\ vq.h.avail \in Slots
  BY <1>1, <1>2, AvailReads
<1>4. /\ Offered \in Packet \ sched /\ \A p \in sched : p.id # Offered.id
      /\ \A p \in sched : p \in Packet /\ hv_map[p.id] \in Slots
  BY <1>1, <1>2, <1>3, SlotOfPacket
<1>5. /\ vq' = vring_packed_advance_avail(vq)
      /\ pending_inuse' = pending_inuse + 1 /\ pending_used' = pending_used
      /\ hv_map' = IF AcquireEnqueue
                   THEN [hv_map EXCEPT ![Offered.id] = vq.h.avail] ELSE hv_map
      /\ sched' = IF AcquireEnqueue THEN sched \cup {Offered} ELSE sched
  <2>1. CASE AcquireEnqueue
    BY <2>1 DEF AcquireEnqueue, Acquired, Mapped, Rel, Leaves
  <2>2. CASE AcquireBad /\ ~AcquireEnqueue
    BY <2>2 DEF AcquireBad, Acquired, Rel, Leaves
  <2> QED BY <2>1, <2>2
<1>6. /\ RingInv' /\ InUse' = InUse /\ Done' = Done /\ Taken' = Taken + 1
      /\ vq'.desc = vq.desc /\ vq'.g = vq.g /\ vq'.h.used = vq.h.used
      /\ vq'.driver_event = vq.driver_event
      /\ \A i \in Slots : Off(i)' = Off(i)
  BY <1>1, <1>3, <1>5, AdvanceKeepsRing
<1>7. MapInv'
  <2>1. hv_map' \in [Slots -> Slots] /\ sched' \subseteq Packet
    BY <1>1, <1>3, <1>4, <1>5 DEF MapInv, Packet
  <2> SUFFICES ASSUME NEW p \in sched' PROVE Finds(hv_map, p)'
    BY <2>1 DEF MapInv
  <2>2. PICK m : m = hv_map'
    OBVIOUS
  <2>3. CASE p \in sched
    <3>1. m[p.id] = hv_map[p.id] /\ hv_map[p.id] \in Slots /\ Finds(hv_map, p)
      BY <2>2, <2>3, <1>1, <1>4, <1>5 DEF MapInv, Packet
    <3>2. Finds(m, p)'
      BY <3>1, <1>1, <1>2, <1>6, Offsets DEF Finds
    <3> QED BY <2>2, <3>2 DEF Finds
  <2>4. CASE p \notin sched
    <3>1. AcquireEnqueue /\ p = Offered
      BY <2>4, <1>5
    <3>2. PICK a : a = vq.h.avail
      OBVIOUS
    <3>3. m[p.id] = a /\ p.id = vq.desc[a].id /\ p.addr = vq.desc[a].addr
      BY <2>2, <3>1, <3>2, <1>1, <1>4, <1>5 DEF MapInv, Packet, Offered
    <3>4. Off(a)' = Taken
      BY <3>2, <1>3, <1>6
    <3>5. Finds(m, p)'
      BY <3>3, <3>4, <1>2, <1>6 DEF Finds
    <3> QED BY <2>2, <3>5 DEF Finds
  <2> QED BY <2>3, <2>4
<1>8. vq'.h.uwrap = vq.h.uwrap
  BY <1>1, <1>5 DEF vring_packed_advance_avail, Virtq
<1> QED BY <1>3, <1>5, <1>6, <1>7, <1>8

\* A packet leaves the scheduler: its descriptor is released.
LEMMA DequeueMoves ==
  ASSUME QInv, WInv, Dequeue
  PROVE  \E p \in sched, k \in Slots :
           /\ sched' = sched \ {p} /\ k = hv_map[p.id] /\ Finds(hv_map, p)
           /\ Releases(vq, vq', k)
           /\ Off(k) < InUse /\ Done <= Off(k)
           /\ vq'.h.avail = vq.h.avail /\ vq'.h.awrap = vq.h.awrap
           /\ RingInv' /\ InUse' = InUse /\ Done' = Done + 1 /\ Taken' = Taken
           /\ pending_inuse' = pending_inuse - 1
           /\ pending_used' = pending_used + 1 /\ MapInv'
<1>1. /\ ~Reclaiming /\ ~Reclaiming' /\ held' = held /\ RingInv /\ WorkPlace
      /\ MapInv /\ vq \in Virtq
  BY WorkerPlace DEF QInv, WInv, Worker, guestVars, RingInv, PosInv
<1>2. /\ Done \in 0 .. Taken /\ Taken \in 0 .. InUse /\ InUse \in 0 .. N
      /\ pending_inuse = Taken - Done /\ N \in Nat
  BY <1>1, PackedAssumption DEF WorkPlace, RingInv, PosInv
<1>3. PICK p \in sched :
        /\ sched' = sched \ {p}
        /\ Leaves(vring_packed_txq_release(Rel, p.id))
  BY DEF Dequeue
<1>4. /\ \A q \in sched : q \in Packet /\ hv_map[q.id] \in Slots
      /\ \A q \in sched : hv_map[p.id] = hv_map[q.id] => p = q
  BY <1>1, <1>2, SlotOfPacket
<1>5. PICK k, m, n, r, x :
        /\ k \in Slots /\ k = hv_map[p.id] /\ m = hv_map /\ n = hv_map' /\ r = Rel
        /\ x = vring_packed_txq_release(r, p.id)
  BY <1>4
<1>6. /\ Finds(m, p) /\ Done <= Off(k) /\ Off(k) < Taken /\ Off(k) < InUse
      /\ Off(k) \in Int
  <2>1. Finds(m, p) /\ Off(k) \in 0 .. N - 1
    BY <1>1, <1>3, <1>5, Offsets DEF MapInv
  <2> QED BY <2>1, <1>2, <1>5 DEF Finds
<1>7. /\ r.vq = vq /\ r.map = m /\ r.inuse = Taken - Done
      /\ r.used = pending_used /\ r.inuse # 0 /\ r.map[p.id] = k
  BY <1>2, <1>5, <1>6 DEF Rel
<1>8. /\ Releases(r.vq, x.vq, k)
      /\ x.vq.h.avail = r.vq.h.avail /\ x.vq.h.awrap = r.vq.h.awrap
      /\ x.map = Records(r.vq, r.map, k)
      /\ x.inuse = r.inuse - 1 /\ x.used = r.used + 1
  BY <1>1, <1>5, <1>7, ReleaseEffect
<1>9. /\ vq' = x.vq /\ n = x.map /\ pending_inuse' = x.inuse
      /\ pending_used' = x.used
  BY <1>3, <1>5 DEF Leaves
<1>10. /\ Releases(vq, vq', k) /\ n = Records(vq, m, k)
       /\ vq'.h.avail = vq.h.avail /\ vq'.h.awrap = vq.h.awrap
       /\ pending_inuse' = pending_inuse - 1
       /\ pending_used' = pending_used + 1
  BY <1>2, <1>7, <1>8, <1>9
<1>11. /\ RingInv' /\ InUse' = InUse /\ Done' = Done + 1
       /\ vq.h.used \in Slots
  BY <1>1, <1>5, <1>6, <1>10, ReleaseKeepsRing
<1>12. Taken' = Taken
  BY <1>10 DEF Taken, Ahead, Releases
<1>13. MapInv'
  <2>1. n \in [Slots -> Slots]
    <3>1. m \in [Slots -> Slots] /\ vq.desc[vq.h.used].id \in Slots
      BY <1>1, <1>5, <1>11 DEF MapInv, Virtq, Desc
    <3> QED BY <3>1, <1>5, <1>10 DEF Records
  <2> SUFFICES ASSUME NEW q \in sched' PROVE Finds(hv_map, q)'
    BY <2>1, <1>1, <1>3, <1>5 DEF MapInv
  <2>2. q \in sched /\ q # p /\ q \in Packet /\ m[q.id] # k /\ Finds(m, q)
        /\ m \in [Slots -> Slots]
    BY <1>1, <1>3, <1>4, <1>5 DEF MapInv
  <2>3. Off(k) < Taken' /\ Taken' \in {Taken, Taken + 1}
    BY <1>6, <1>12
  <2>4. Finds(n, q)'
    BY <2>2, <2>3, <1>1, <1>2, <1>5, <1>6, <1>10, ReleaseKeepsMap
  <2> QED BY <2>4, <1>5 DEF Finds
<1> QED BY <1>3, <1>5, <1>6, <1>10, <1>11, <1>12, <1>13

\* The next descriptor is acquired and its packet refused: it is released at
\* once, if the worker holds any other, and left where it is if not.
LEMMA DropMoves ==
  ASSUME QInv, WInv, AcquireDrop
  PROVE  /\ RingInv' /\ InUse' = InUse /\ Taken' = Taken + 1 /\ Taken < InUse
         /\ vq'.g = vq.g /\ vq'.driver_event = vq.driver_event
         /\ \/ /\ Taken = Done /\ Done' = Done /\ vq'.desc = vq.desc
               /\ vq'.h.used = vq.h.used /\ vq'.h.uwrap = vq.h.uwrap
               /\ pending_inuse' = pending_inuse + 1
               /\ pending_used' = pending_used
            \/ /\ Taken > Done /\ Done' = Done + 1
               /\ Releases(vq, vq', vq.h.avail)
               /\ pending_inuse' = pending_inuse
               /\ pending_used' = pending_used + 1
         /\ MapInv'
<1>1. /\ ~Reclaiming /\ ~Reclaiming' /\ held' = held /\ RingInv /\ WorkPlace
      /\ MapInv /\ vq \in Virtq /\ sched' = sched
  BY WorkerPlace
     DEF QInv, WInv, Worker, guestVars, RingInv, PosInv, AcquireDrop
<1>2. /\ Done \in 0 .. Taken /\ Taken \in 0 .. InUse /\ InUse \in 0 .. N
      /\ pending_inuse = Taken - Done /\ N \in Nat
      /\ vring_packed_more_avail(vq)
  BY <1>1, PackedAssumption DEF WorkPlace, RingInv, PosInv, AcquireDrop,
     Acquiring
<1>3. /\ Taken < InUse /\ Off(vq.h.avail) = Taken /\ Taken \in 0 .. N - 1
      /\ vq.h.avail \in Slots
  BY <1>1, <1>2, AvailReads
<1>4. /\ Offered \in Packet \ sched /\ \A p \in sched : p.id # Offered.id
      /\ \A p \in sched : p \in Packet /\ hv_map[p.id] \in Slots
  BY <1>1, <1>2, <1>3, SlotOfPacket
<1>5. PICK k, id, m, n, r, x :
        /\ k \in Slots /\ id \in Slots /\ k = vq.h.avail /\ id = Offered.id
        /\ m = [hv_map EXCEPT ![id] = k] /\ n = hv_map' /\ r = Mapped
        /\ x = vring_packed_txq_release(r, id)
  BY <1>3, <1>4 DEF Packet
<1>6. /\ r = [vq |-> vq, map |-> m, inuse |-> Taken - Done,
              used |-> pending_used]
      /\ m \in [Slots -> Slots] /\ m[id] = k
  BY <1>1, <1>2, <1>5 DEF Mapped, Rel, MapInv
<1>7. Leaves([x EXCEPT !.vq = vring_packed_advance_avail(@), !.inuse = @ + 1])
  BY <1>5 DEF AcquireDrop, Acquired
<1>8. ASSUME NEW p \in sched
      PROVE  /\ p \in Packet /\ Finds(m, p) /\ m[p.id] # k
             /\ m[p.id] \in Slots
  <2>1. /\ p.id # id /\ p \in Packet /\ hv_map[p.id] \in Slots
        /\ Finds(hv_map, p)
    BY <1>1, <1>4, <1>5 DEF MapInv
  <2>2. m[p.id] = hv_map[p.id]
    BY <2>1, <1>1, <1>5 DEF MapInv, Packet
  <2>3. Finds(m, p)
    BY <2>1, <2>2 DEF Finds
  <2>4. Off(k) = Taken /\ Off(m[p.id]) < Taken
    BY <2>3, <1>3, <1>5 DEF Finds
  <2>5. m[p.id] # k
    BY <2>4, <1>2
  <2> QED BY <2>1, <2>2, <2>3, <2>5
<1>9. CASE Taken = Done
  <2>1. x = r
    BY <1>2, <1>5, <1>6, <1>9 DEF vring_packed_txq_release
  <2>2. /\ vq' = vring_packed_advance_avail(vq) /\ n = m
        /\ pending_inuse' = pending_inuse + 1 /\ pending_used' = pending_used
    <3>1. /\ x = [vq |-> x.vq, map |-> x.map, inuse |-> x.inuse,
                  used |-> x.used]
          /\ x.vq = vq /\ x.map = m /\ x.inuse = Taken - Done
          /\ x.used = pending_used
      BY <2>1, <1>6
    <3>2. /\ vq' = vring_packed_advance_avail(x.vq) /\ n = x.map
          /\ pending_inuse' = x.inuse + 1 /\ pending_used' = x.used
      BY <3>1, <1>5, <1>7 DEF Leaves
    <3> QED BY <3>1, <3>2, <1>2
  <2>3. /\ RingInv' /\ InUse' = InUse /\ Done' = Done /\ Taken' = Taken + 1
        /\ vq'.desc = vq.desc /\ vq'.g = vq.g /\ vq'.h.used = vq.h.used
        /\ vq'.driver_event = vq.driver_event
        /\ \A i \in Slots : Off(i)' = Off(i)
    BY <2>2, <1>1, <1>3, AdvanceKeepsRing
  <2>4. vq'.h.uwrap = vq.h.uwrap
    BY <2>2, <1>1 DEF vring_packed_advance_avail, Virtq
  <2>5. MapInv'
    <3>0. hv_map' \in [Slots -> Slots] /\ sched' \subseteq Packet
      BY ZenonT(40), <2>2, <1>1, <1>5, <1>6 DEF MapInv
    <3> SUFFICES ASSUME NEW p \in sched PROVE Finds(hv_map, p)'
      BY <3>0, <1>1 DEF MapInv
    <3>1. Finds(m, p) /\ m[p.id] \in Slots
      BY <1>8
    <3>2. Off(m[p.id]) \in Int
      BY <3>1, <1>1, Offsets
    <3>3. PICK i : i = m[p.id]
      OBVIOUS
    <3>4. Off(i)' = Off(i) /\ Off(i) \in Int /\ Off(i) < Taken /\ Done <= Off(i)
      BY <2>3, <3>1, <3>2, <3>3 DEF Finds
    <3>5. Finds(m, p)'
      BY <2>3, <3>1, <3>3, <3>4, <1>2 DEF Finds
    <3> QED BY <2>2, <3>5, <1>5 DEF Finds
  <2> QED BY <2>2, <2>3, <2>4, <2>5, <1>3, <1>9
<1>10. CASE Taken > Done
  <2>1. r.vq = vq /\ r.map = m /\ r.inuse = Taken - Done /\ r.inuse # 0
        /\ r.used = pending_used /\ r.map[id] = k
    BY <1>2, <1>6, <1>10
  <2>2. /\ Releases(r.vq, x.vq, k)
        /\ x.vq.h.avail = r.vq.h.avail /\ x.vq.h.awrap = r.vq.h.awrap
        /\ x.map = Records(r.vq, r.map, k)
        /\ x.inuse = r.inuse - 1 /\ x.used = r.used + 1
    <3>1. x = vring_packed_txq_release(r, id) /\ r.vq \in Virtq
          /\ r.map[id] \in Slots
      BY <2>1, <1>1, <1>5
    <3>2. /\ Releases(r.vq, x.vq, r.map[id])
          /\ x.vq.h.avail = r.vq.h.avail /\ x.vq.h.awrap = r.vq.h.awrap
          /\ x.map = Records(r.vq, r.map, r.map[id])
          /\ x.inuse = r.inuse - 1 /\ x.used = r.used + 1
      BY <2>1, <3>1, ReleaseEffect
    <3> QED BY <2>1, <3>2
  <2>3. x = [vq |-> x.vq, inuse |-> x.inuse, used |-> x.used, map |-> x.map]
    BY <2>1, <1>5 DEF vring_packed_txq_release
  <2>4. /\ vq' = vring_packed_advance_avail(x.vq) /\ n = x.map
        /\ pending_inuse' = x.inuse + 1 /\ pending_used' = x.used
    BY <2>3, <1>5, <1>7 DEF Leaves
  <2>5. PICK y, w : y = x.vq /\ w = vq'
    OBVIOUS
  <2>6. Releases(vq, y, k) /\ y.h.avail = k /\ y.h.awrap = vq.h.awrap
        /\ y \in Virtq /\ w = vring_packed_advance_avail(y)
        /\ n = Records(vq, m, k)
    BY <2>1, <2>2, <2>4, <2>5, <1>5 DEF Releases
  <2>7. /\ w \in Virtq /\ w.desc = y.desc /\ w.g = y.g /\ w.state = y.state
        /\ w.driver_event = y.driver_event
        /\ w.device_event = y.device_event
        /\ w.h.used = y.h.used /\ w.h.uwrap = y.h.uwrap
        /\ w.h.avail = NextIdx(y.h.avail)
        /\ w.h.awrap = NextWrap(y.h.avail, y.h.awrap)
    BY <2>6, AdvanceEffect
  <2>8. Releases(vq, w, k)
    BY <2>6, <2>7 DEF Releases
  <2>9. Releases(vq, vq', k) /\ vq'.h.avail = NextIdx(vq.h.avail)
        /\ vq'.h.awrap = NextWrap(vq.h.avail, vq.h.awrap)
    BY <2>5, <2>6, <2>7, <2>8, <1>5
  <2>10. Done <= Off(k) /\ Off(k) < InUse /\ Off(k) = Taken
    BY <1>2, <1>3, <1>5
  <2>11. RingInv' /\ InUse' = InUse /\ Done' = Done + 1
         /\ vq.h.used \in Slots
    BY <2>9, <2>10, <1>1, <1>5, ReleaseKeepsRing
  <2>12. vq'.g = vq.g /\ vq'.driver_event = vq.driver_event
    BY <2>9 DEF Releases
  <2>13. Taken' = Taken + 1
    <3>1. vq.h.awrap \in {0, 1}
      BY <1>1 DEF Virtq
    <3> QED BY <2>9, <2>12, <3>1, <1>1, <1>3, AheadNext, UsedStays DEF Taken
  <2>14. MapInv'
    <3>1. n \in [Slots -> Slots]
      <4>1. vq.desc[vq.h.used].id \in Slots
        BY <2>11, <1>1 DEF Virtq, Desc
      <4> QED BY <2>6, <4>1, <1>5, <1>6 DEF Records
    <3> SUFFICES ASSUME NEW p \in sched PROVE Finds(hv_map, p)'
      BY <3>1, <1>1, <1>5 DEF MapInv
    <3>2. p \in Packet /\ Finds(m, p) /\ m[p.id] # k
      BY <1>8
    <3>3. Off(k) < Taken' /\ Taken' \in {Taken, Taken + 1}
      BY <2>10, <2>13, <1>2
    <3>4. Finds(n, p)'
      BY <2>6, <2>9, <2>10, <3>2, <3>3, <1>1, <1>2, <1>5, <1>6, ReleaseKeepsMap
    <3> QED BY <3>4, <1>5 DEF Finds
  <2>15. pending_inuse' = pending_inuse /\ pending_used' = pending_used + 1
    BY <2>1, <2>2, <2>4, <1>2
  <2> QED BY <2>9, <2>11, <2>12, <2>13, <2>14, <2>15, <1>3, <1>5, <1>10
<1> QED BY <1>2, <1>9, <1>10

\* The worker's steps that leave ring, map and scheduler alone.
Quiet ==
  \/ process_packets_spin_many \/ OthersDrop \/ AcquireEnds
  \/ AcquireOutOfBudget \/ DequeueEnds \/ vring_packed_txq_notify
  \/ sched_all_finish

\* They move no position.
LEMMA QuietMoves ==
  ASSUME QInv, WInv, Quiet
  PROVE  /\ UNCHANGED <<vq, hv_map, pending_inuse, sched, mbufs, skipped>>
         /\ RingInv' /\ InUse' = InUse /\ Done' = Done /\ Taken' = Taken
<1>1. UNCHANGED <<vq, hv_map, pending_inuse, sched, mbufs, skipped>>
  BY DEF Quiet, process_packets_spin_many, OthersDrop, AcquireEnds,
     AcquireOutOfBudget, DequeueEnds, vring_packed_txq_notify,
     sched_all_finish, schedVars
<1>2. /\ ~Reclaiming /\ ~Reclaiming' /\ held' = held /\ RingInv
      /\ vq \in Virtq
  BY WorkerPlace DEF QInv, WInv, Worker, Quiet, guestVars, RingInv, PosInv
<1>3. RingSame
  BY <1>1, <1>2 DEF RingSame
<1>4. RingInv' /\ InUse' = InUse /\ Done' = Done
  BY <1>2, <1>3, RingStays
<1>5. Taken' = Taken
  BY <1>1 DEF Taken, Ahead
<1> QED BY <1>1, <1>4, <1>5

\* The worker keeps the ring and its own invariant.
LEMMA WorkerKeeps ==
  ASSUME QInv, WInv, Worker
  PROVE  /\ QInv' /\ WInv' /\ InUse' = InUse /\ vq'.g = vq.g
         /\ vq'.driver_event = vq.driver_event
         /\ ~Reclaiming /\ ~Reclaiming'
<1>1. /\ bpc # "halted" /\ ~Reclaiming /\ ~Reclaiming'
      /\ UNCHANGED <<rigid, guestVars, stopreq>>
      /\ bpc' \in {"halted", "top", "acquire", "dequeue", "notify", "finish"}
      /\ bpc' = "finish" => stopreq
      /\ bpc' = "halted" => sched' = {}
      /\ PlaceInv' /\ WorkPlace /\ MapInv
  BY WorkerPlace DEF WInv
<1>2. /\ Done \in 0 .. Taken /\ Taken \in 0 .. InUse /\ InUse \in 0 .. N
      /\ pending_inuse = Taken - Done /\ N \in Nat
  BY <1>1, PackedAssumption DEF WorkPlace, QInv, RingInv, PosInv
<1>3. /\ RingInv' /\ InUse' = InUse /\ vq'.g = vq.g
      /\ vq'.driver_event = vq.driver_event /\ MapInv'
      /\ Done' \in 0 .. Taken' /\ Taken' \in 0 .. InUse'
      /\ pending_inuse' = Taken' - Done'
  <2>1. CASE Quiet
    <3>1. /\ UNCHANGED <<vq, hv_map, pending_inuse, sched, mbufs, skipped>>
          /\ RingInv' /\ InUse' = InUse /\ Done' = Done /\ Taken' = Taken
      BY <2>1, QuietMoves
    <3>2. MapInv'
      BY <3>1, <1>1 DEF MapInv, Finds, Off
    <3> QED BY <3>1, <3>2, <1>2
  <2>2. CASE AcquireBad \/ AcquireEnqueue
    BY <2>2, <1>2, AcquireMoves
  <2>3. CASE AcquireDrop
    <3>1. \/ Taken = Done /\ Done' = Done
             /\ pending_inuse' = pending_inuse + 1
          \/ Taken > Done /\ Done' = Done + 1
             /\ pending_inuse' = pending_inuse
      BY <2>3, DropMoves
    <3>2. /\ RingInv' /\ InUse' = InUse /\ vq'.g = vq.g
          /\ vq'.driver_event = vq.driver_event /\ MapInv'
          /\ Taken' = Taken + 1 /\ Taken < InUse
      BY <2>3, DropMoves
    <3> QED BY <3>1, <3>2, <1>2
  <2>4. CASE Dequeue
    <3>1. PICK k \in Slots :
            /\ Releases(vq, vq', k)
            /\ Off(k) < InUse /\ Done <= Off(k) /\ Off(k) < Taken
            /\ RingInv' /\ InUse' = InUse /\ Done' = Done + 1
            /\ Taken' = Taken /\ pending_inuse' = pending_inuse - 1
            /\ MapInv'
      BY <2>4, DequeueMoves DEF Finds
    <3>2. vq'.g = vq.g /\ vq'.driver_event = vq.driver_event
      BY <3>1 DEF Releases
    <3>3. Done < Taken
      <4>1. Off(k) \in Int
        BY Offsets DEF QInv, RingInv, PosInv
      <4> QED BY <3>1, <4>1, <1>2
    <3> QED BY <3>1, <3>2, <3>3, <1>2
  <2> QED BY <2>1, <2>2, <2>3, <2>4 DEF Worker, Quiet
<1>4. WorkPlace'
  <2>1. UNCHANGED <<dir, busy_wait, dev, stopreq>>
    BY <1>1 DEF rigid, guestVars
  <2> QED BY <2>1, <1>1, <1>3 DEF WorkPlace
<1> QED BY <1>1, <1>3, <1>4 DEF QInv, WInv, LastSwap

-----------------------------------------------------------------------------
\* The ring, the positions and the map, in every state of a device opened once.
LEMMA SchedInitInv == SchedInit => QInv /\ WInv
<1> SUFFICES ASSUME SchedInit PROVE QInv /\ WInv
  OBVIOUS
<1>1. Init /\ QInv /\ Served /\ InUse = 0 /\ Done = 0
  BY InitQInv DEF SchedInit
<1>2. Taken = 0
  BY <1>1 DEF Served, Taken, Done
<1>3. dir = "tx" /\ busy_wait = TRUE /\ bpc = "halted" /\ stopreq = FALSE
      /\ ~Reclaiming
  <2>1. dir \in Dirs /\ busy_wait \in BusyWaits
    BY <1>1 DEF Init
  <2>2. dir = "tx" /\ busy_wait = TRUE
    BY <2>1, SchedAssumption, Zenon
  <2> QED BY <2>2, <1>1 DEF Init, Reclaiming
<1>4. WorkPlace
  <2>1. /\ Done \in 0 .. Taken /\ Taken \in 0 .. InUse
        /\ pending_inuse = Taken - Done /\ sched = {}
    BY <1>1, <1>2 DEF SchedInit
  <2>2. bpc # "finish" /\ stopreq \in BOOLEAN /\ ~stopreq
    BY <1>3
  <2> QED BY <1>3, <2>1, <2>2, Zenon DEF WorkPlace
<1>5. MapInv
  <2>1. 0 \in Slots
    BY PackedAssumption DEF Slots
  <2> QED BY <2>1 DEF MapInv, SchedInit
<1> QED BY <1>1, <1>3, <1>4, <1>5 DEF WInv, LastSwap

\* A step of the whole is the guest's or the worker's.
LEMMA WhoSteps ==
  ASSUME PlaceInv, [SchedNext]_allVars
  PROVE  \/ Worker
         \/ /\ Away
            /\ UNCHANGED <<hv_map, pending_inuse, pending_used, sched, drops,
                           ndeq, dropped, skipped>>
            /\ mbufs' = IF ThreadStarts THEN N ELSE mbufs
<1>1. CASE Guest /\ UNCHANGED schedVars
  <2>1. Away /\ bpc' \in {bpc, "start"}
    BY <1>1 DEF Away, Guest, OpenEnable, bpfhv_open, bpfhv_start_xmit,
      bpfhv_close, bpfhv_intr, bpfhv_poll, vring_packed_xc, CleanDone,
      PublishOne, vring_packed_txp, vring_packed_xi, XiCheck,
      CloseNapiDisable, vring_packed_xr, CloseDone, beVars
  <2>2. ~ThreadStarts
    BY <2>1 DEF ThreadStarts
  <2> QED BY <1>1, <2>1, <2>2 DEF schedVars
<1>2. CASE WorkerStarts
  BY <1>2 DEF WorkerStarts, Away
<1>3. CASE UNCHANGED allVars
  <2>1. Away /\ bpc' = bpc
    BY <1>3 DEF allVars, vars, beVars, Away
  <2>2. ~ThreadStarts
    BY <2>1 DEF ThreadStarts
  <2> QED BY <1>3, <2>1, <2>2 DEF allVars, schedVars
<1> QED BY <1>1, <1>2, <1>3 DEF SchedNext

\* So both invariants hold always.
LEMMA SchedInvHolds == ASSUME ~MayReopen PROVE SchedSpec => [](QInv /\ WInv)
<1>1. SchedInit => QInv /\ WInv
  BY SchedInitInv
<1>2. QInv /\ WInv /\ [SchedNext]_allVars => (QInv /\ WInv)'
  BY WhoSteps, AwayKeeps, WorkerKeeps DEF QInv
<1> QED BY <1>1, <1>2, PTL DEF SchedSpec

\* The assertion at the end of vring_packed_desc_swap_acquired never fails: of
\* the slots the worker holds, the flags agree on one lap and are complemented
\* across the end of the ring, in whatever order packets were released.
THEOREM SwapAssertionHolds ==
  ASSUME ~MayReopen PROVE SchedSpec => []SwapAssertion
<1>1. QInv /\ WInv => SwapAssertion
  BY SwapOK DEF QInv, WInv, LastSwap, WorkPlace
<1> QED BY <1>1, SchedInvHolds, PTL

\* hv_map finds the descriptor of every packet in the scheduler, however often
\* descriptors were swapped and whatever the guest added or completed since.
THEOREM MapFindsDescriptorHolds ==
  ASSUME ~MayReopen PROVE SchedSpec => []MapFindsDescriptor
<1>1. ASSUME QInv, WInv PROVE MapFindsDescriptor
  <2>1. CASE sched = {}
    BY <2>1 DEF MapFindsDescriptor
  <2>2. CASE sched # {}
    <3>1. /\ bpc # "halted" /\ RingInv /\ WorkPlace /\ MapInv
      BY <2>2, <1>1 DEF QInv, WInv, WorkPlace
    <3>2. /\ ~Reclaiming /\ Done \in 0 .. Taken /\ Taken \in 0 .. InUse
      BY <3>1, <1>1 DEF QInv, PlaceInv, Reclaiming, WorkPlace
    <3>3. HeldSlots = {i \in Slots : Done <= Off(i) /\ Off(i) < Taken}
      BY <3>1, <3>2, HeldSlotsAre
    <3>4. /\ \A p \in sched : hv_map[p.id] \in Slots
          /\ \A p, q \in sched : hv_map[p.id] = hv_map[q.id] => p = q
      BY <3>1, <3>2, SlotOfPacket
    <3>5. \A p \in sched : Finds(hv_map, p)
      BY <3>1 DEF MapInv
    <3> QED BY <3>3, <3>4, <3>5 DEF MapFindsDescriptor, Finds
  <2> QED BY <2>1, <2>2
<1> QED BY <1>1, SchedInvHolds, PTL

-----------------------------------------------------------------------------
(***************************************************************************)
(* The cache of mbufs and the counters.                                    *)
(***************************************************************************)
\* No more packets in the scheduler than slots, and one fewer as long as a
\* descriptor is available.
LEMMA PacketCount ==
  ASSUME RingInv, ~Reclaiming, Done \in 0 .. Taken, Taken \in 0 .. InUse,
         MapInv
  PROVE  /\ IsFiniteSet(sched) /\ Cardinality(sched) \in 0 .. N
         /\ Taken < InUse => Cardinality(sched) < N
<1>1. N \in Nat /\ N >= 2 /\ Slots = 0 .. N - 1
  BY PackedAssumption, QueueAssumption DEF Slots
<1>2. IsFiniteSet(Slots) /\ Cardinality(Slots) = N
  <2>1. 0 \in Int /\ N - 1 \in Int /\ ~(0 > N - 1) /\ N - 1 - 0 + 1 = N
    BY <1>1
  <2> QED BY <2>1, <1>1, FS_Interval
<1> DEFINE f == [p \in sched |-> hv_map[p.id]]
<1>3. /\ \A p \in sched : f[p] \in Slots
      /\ \A p, q \in sched : f[p] = f[q] => p = q
  BY SlotOfPacket
<1>4. f \in Injection(sched, Slots)
  BY <1>3 DEF Injection, IsInjective
<1>5. IsFiniteSet(sched) /\ Cardinality(sched) <= N
  BY <1>2, <1>4, FS_Injection
<1>6. ASSUME Taken < InUse
      PROVE  Cardinality(sched) < N
  <2>1. PICK a \in Slots : a = vq.h.avail /\ Off(a) = Taken
    BY <1>6, AvailReads
  <2>2. \A p \in sched : f[p] # a
    <3> SUFFICES ASSUME NEW p \in sched PROVE hv_map[p.id] # a
      OBVIOUS
    <3>1. Off(hv_map[p.id]) < Taken
      BY DEF MapInv, Finds
    <3> QED BY <2>1, <3>1, <1>1
  <2>3. IsFiniteSet(Slots \ {a}) /\ Cardinality(Slots \ {a}) = N - 1
    BY <2>1, <1>2, FS_RemoveElement
  <2>4. f \in Injection(sched, Slots \ {a})
    BY <2>2, <1>3 DEF Injection, IsInjective
  <2>5. Cardinality(sched) <= N - 1
    BY <2>3, <2>4, FS_Injection
  <2>6. Cardinality(sched) \in Nat
    BY <1>5, FS_CardinalityType
  <2> QED BY <2>5, <2>6, <1>1
<1>7. Cardinality(sched) \in Nat
  BY <1>5, FS_CardinalityType
<1> QED BY <1>1, <1>5, <1>6, <1>7

\* A worker that is halted or has yet to start has no packets.
LEMMA PacketsOf ==
  ASSUME QInv, WInv
  PROVE  /\ IsFiniteSet(sched) /\ Cardinality(sched) \in 0 .. N
         /\ bpc \in {"halted", "start"} => Cardinality(sched) = 0
<1>1. CASE bpc \in {"halted", "start"}
  <2>1. sched = {} /\ N \in Nat
    BY <1>1, PackedAssumption DEF WInv, WorkPlace
  <2> QED BY <2>1, FS_EmptySet
<1>2. CASE bpc \notin {"halted", "start"}
  <2>1. ~Reclaiming
    BY <1>2 DEF QInv, PlaceInv, Reclaiming
  <2> QED BY <2>1, <1>2, PacketCount DEF QInv, WInv, WorkPlace
<1> QED BY <1>1, <1>2

\* No mbuf is lost, as long as the scheduling algorithm drops nothing.
LEMMA NextCache ==
  ASSUME QInv, WInv, CacheInv, [SchedNext]_allVars, "sched" \notin Drops
  PROVE  CacheInv'
<1>1. /\ IsFiniteSet(sched) /\ Cardinality(sched) \in 0 .. N /\ N \in Nat
      /\ bpc \in {"halted", "start"} => Cardinality(sched) = 0 /\ sched = {}
      /\ N >= 2 /\ mbufs \in Nat /\ PlaceInv /\ WorkPlace
  BY PacketsOf, PackedAssumption, QueueAssumption
     DEF WInv, WorkPlace, CacheInv, QInv
<1>2. CASE /\ Away /\ sched' = sched
           /\ mbufs' = IF ThreadStarts THEN N ELSE mbufs
  <2>1. Starts
    BY <1>1, <1>2, AwayIsStep
  <2>2. CASE ThreadStarts
    BY <2>1, <2>2, <1>1, <1>2 DEF CacheInv, Starts
  <2>3. CASE ~ThreadStarts
    BY <2>1, <2>3, <1>1, <1>2 DEF CacheInv, Starts
  <2> QED BY <2>2, <2>3
<1>3. CASE Worker
  <2>1. bpc \notin {"halted", "start"} /\ mbufs + Cardinality(sched) = N
        /\ bpc' # "start"
        /\ (bpc' = "halted" => sched' = {})
    BY <1>1, <1>3, WorkerPlace DEF CacheInv
  <2>2. CASE Quiet \/ AcquireBad \/ AcquireDrop
    <3>1. mbufs' = mbufs /\ sched' = sched
      <4>1. CASE Quiet
        BY <4>1, QuietMoves
      <4>2. CASE AcquireBad
        BY <4>2 DEF AcquireBad
      <4>3. CASE AcquireDrop
        <5>1. PICK why \in Drops :
                mbufs' = IF why = "sched" THEN mbufs - 1 ELSE mbufs
          BY <4>3 DEF AcquireDrop
        <5>2. sched' = sched
          BY <4>3 DEF AcquireDrop
        <5> QED BY <5>1, <5>2
      <4> QED BY <2>2, <4>1, <4>2, <4>3
    <3>2. bpc' = "halted" => Cardinality(sched) = 0
      BY <2>1, <3>1, FS_EmptySet
    <3> QED BY <2>1, <3>1, <3>2, <1>1 DEF CacheInv
  <2>3. CASE AcquireEnqueue
    <3>1. mbufs > 0 /\ mbufs' = mbufs - 1 /\ sched' = sched \cup {Offered}
          /\ bpc' = bpc
      BY <2>3 DEF AcquireEnqueue, Acquiring
    <3>2. Offered \notin sched
      <4>1. /\ Taken < InUse
        BY <2>3, AcquireMoves
      <4>2. ~Reclaiming /\ Taken \in 0 .. InUse
        BY <2>1 DEF QInv, PlaceInv, Reclaiming, WInv, WorkPlace
      <4> QED BY <4>1, <4>2, SlotOfPacket DEF QInv, WInv
    <3>3. Cardinality(sched') = Cardinality(sched) + 1
      BY <3>1, <3>2, <1>1, FS_AddElement
    <3> QED BY <2>1, <3>1, <3>3, <1>1 DEF CacheInv
  <2>4. CASE Dequeue
    <3>1. PICK p \in sched : sched' = sched \ {p}
      BY <2>4 DEF Dequeue
    <3>2. mbufs' = mbufs + 1 /\ bpc' = bpc
      BY <2>4 DEF Dequeue
    <3>3. Cardinality(sched') = Cardinality(sched) - 1
      BY <3>1, <1>1, FS_RemoveElement
    <3> QED BY <2>1, <3>2, <3>3, <1>1 DEF CacheInv
  <2> QED BY <2>2, <2>3, <2>4, <1>3 DEF Worker, Quiet
<1> QED BY <1>1, <1>2, <1>3, WhoSteps

\* "keep max mbufs equal to sum of cqueue sizes": as long as the scheduling
\* algorithm drops nothing, a guest's share of the cache, one mbuf for each
\* descriptor, is never exhausted when a descriptor is acquired.
THEOREM MbufsSufficeHolds ==
  ASSUME ~MayReopen, "sched" \notin Drops
  PROVE  SchedSpec => []MbufsSuffice
<1>1. SchedInit => CacheInv
  <2> SUFFICES ASSUME SchedInit PROVE CacheInv
    OBVIOUS
  <2>1. mbufs = 0 /\ bpc = "halted"
    BY DEF SchedInit, Init
  <2> QED BY <2>1 DEF CacheInv
<1>2. QInv /\ WInv /\ CacheInv /\ [SchedNext]_allVars => CacheInv'
  BY NextCache
<1>3. ASSUME QInv, WInv, CacheInv PROVE MbufsSuffice
  <2>1. /\ IsFiniteSet(sched) /\ Cardinality(sched) \in 0 .. N /\ N \in Nat
        /\ bpc \in {"halted", "start"} => Cardinality(sched) = 0
        /\ N >= 2 /\ mbufs \in Nat
    BY <1>3, PacketsOf, PackedAssumption, QueueAssumption DEF CacheInv
  <2>2. mbufs + Cardinality(sched)
          = IF bpc \in {"halted", "start"} /\ mbufs = 0 THEN 0 ELSE N
    BY <2>1, <1>3 DEF CacheInv
  <2>3. ASSUME bpc = "acquire", vring_packed_more_avail(vq)
        PROVE  mbufs > 0
    <3>1. ~Reclaiming
      BY <2>3, <1>3 DEF QInv, PlaceInv, Reclaiming
    <3>2. /\ RingInv /\ MapInv /\ Done \in 0 .. Taken /\ Taken \in 0 .. InUse
      BY <3>1, <1>3 DEF QInv, WInv, WorkPlace
    <3>3. Taken < InUse
      BY <2>3, <3>1, <3>2, AvailReads
    <3>4. Cardinality(sched) < N
      BY <3>1, <3>2, <3>3, PacketCount
    <3>5. mbufs + Cardinality(sched) = N
      BY <2>3, <1>3 DEF CacheInv
    <3> QED BY <2>1, <3>4, <3>5
  <2> QED BY <2>2, <2>3 DEF MbufsSuffice
<1> QED BY <1>1, <1>2, <1>3, SchedInvHolds, PTL DEF SchedSpec

-----------------------------------------------------------------------------
(***************************************************************************)
(* What is released and not yet notified.                                  *)
(***************************************************************************)
\* The life of the device, as the guest's steps change it.
LEMMA AwayDev ==
  ASSUME ~MayReopen, PlaceInv, Away
  PROVE  /\ dev' \in {"new", "opening"} => dev \in {"new", "opening"}
         /\ OpenEnable => dev = "opening"
<1>1. CASE OpenEnable
  BY <1>1 DEF OpenEnable, PlaceInv
<1>2. CASE bpfhv_open
  BY <1>1, <1>2 DEF bpfhv_open
<1>3. CASE \/ bpfhv_start_xmit \/ bpfhv_close \/ bpfhv_intr \/ bpfhv_poll
           \/ vring_packed_xc \/ CleanDone \/ PublishOne
           \/ vring_packed_txp \/ vring_packed_xi \/ XiCheck
           \/ CloseNapiDisable \/ vring_packed_xr \/ CloseDone
           \/ ThreadStarts \/ UNCHANGED vars
  <2>1. dev' = dev \/ dev' \in {"closing", "down"}
    BY <1>3 DEF ThreadStarts, bpfhv_start_xmit, bpfhv_close, bpfhv_intr,
      bpfhv_poll,
      vring_packed_xc, CleanDone, PublishOne, vring_packed_txp,
      vring_packed_xi, XiCheck, CloseNapiDisable, vring_packed_xr,
      CloseDone, vars, guestVars
  <2> QED BY <2>1, <1>1
<1> QED BY <1>1, <1>2, <1>3 DEF Away, Guest

\* The counters of the worker: what it may have released and not notified is
\* bounded, because packets are dequeued only in a round that will notify.
LEMMA NextPending ==
  ASSUME ~MayReopen, QInv, WInv, PendingInv, [SchedNext]_allVars
  PROVE  PendingInv'
<1>1. /\ QInv' /\ WInv' /\ PlaceInv /\ WorkPlace /\ N \in Nat
      /\ MaxPending \in Nat
      /\ IsFiniteSet(sched) /\ Cardinality(sched) \in 0 .. N
  <2>1. QInv' /\ WInv'
    BY WhoSteps, AwayKeeps, WorkerKeeps DEF QInv
  <2>2. N \in Nat
    BY PackedAssumption
  <2>3. MaxPending \in Nat
    BY SchedAssumption
  <2> QED BY <2>1, <2>2, <2>3, PacketsOf DEF QInv, WInv
<1>2. CASE /\ Away
           /\ UNCHANGED <<hv_map, pending_inuse, pending_used, sched, drops,
                          ndeq, dropped, skipped>>
  <2>1. /\ dev' \in {"new", "opening"} => dev \in {"new", "opening"}
        /\ OpenEnable => dev = "opening"
    BY <1>1, <1>2, AwayDev
  <2>2. Starts
    BY <1>1, <1>2, AwayIsStep
  <2> QED BY <2>1, <2>2, <1>1, <1>2 DEF PendingInv, Starts
<1>3. CASE Worker
  <2>1. /\ bpc # "halted" /\ dev' = dev /\ dev \notin {"new", "opening"}
        /\ pending_inuse' \in 0 .. N
    <3>1. bpc # "halted" /\ ~Reclaiming' /\ dev' = dev
      BY <1>1, <1>3, WorkerPlace DEF guestVars
    <3>2. /\ Done' \in 0 .. Taken' /\ Taken' \in 0 .. InUse'
          /\ InUse' \in 0 .. N /\ pending_inuse' = Taken' - Done'
      BY <3>1, <1>1 DEF WInv, WorkPlace, QInv, RingInv, PosInv
    <3>3. PICK d, t, n : d = Done' /\ t = Taken' /\ n = InUse'
      OBVIOUS
    <3>4. /\ d \in Nat /\ t \in Nat /\ n \in Nat /\ N \in Nat
          /\ d <= t /\ t <= n /\ n <= N
      BY <3>2, <3>3, <1>1
    <3>5. t - d \in 0 .. N
      BY <3>4
    <3>6. pending_inuse' \in 0 .. N
      BY <3>2, <3>3, <3>5
    <3> QED BY <3>1, <3>6, <1>1 DEF PlaceInv
  <2>2. CASE process_packets_spin_many \/ OthersDrop
    <3>1. /\ pending_used' = pending_used /\ sched' = sched /\ drops' = drops
          /\ skipped' = skipped
          /\ dropped' \in BOOLEAN /\ ndeq' \in BOOLEAN
          /\ \/ bpc = "top" /\ bpc' \in {"finish", "acquire"}
             \/ bpc' = bpc /\ ndeq' = ndeq
      BY <2>2 DEF process_packets_spin_many, OthersDrop, PendingInv
    <3> QED BY <2>1, <3>1, <1>1 DEF PendingInv
  <2>3. CASE AcquireEnds \/ AcquireOutOfBudget
    <3>1. /\ pending_used' = pending_used /\ sched' = sched /\ drops' = 0
          /\ skipped' = skipped
          /\ dropped' \in BOOLEAN /\ ndeq' = ndeq
          /\ bpc = "acquire" /\ bpc' = "dequeue"
      BY <2>3 DEF AcquireEnds, AcquireOutOfBudget, PendingInv
    <3> QED BY <2>1, <3>1, <1>1 DEF PendingInv
  <2>4. CASE AcquireBad \/ AcquireEnqueue
    <3>1. /\ bpc = "acquire" /\ bpc' = bpc /\ ndeq' = ndeq
          /\ dropped' = dropped /\ drops' = drops
          /\ skipped' \in {skipped, skipped + 1}
          /\ sched' = sched \/ sched' = sched \cup {Offered}
      BY <2>4 DEF AcquireBad, AcquireEnqueue, Acquiring
    <3>2. pending_used' = pending_used /\ Taken < InUse
      BY <2>4, AcquireMoves
    <3>3. Cardinality(sched) < N
      <4>1. ~Reclaiming
        BY <2>1, <1>1 DEF PlaceInv, Reclaiming
      <4> QED BY <3>2, <4>1, <1>1, PacketCount DEF QInv, WInv, WorkPlace
    <3>4. Cardinality(sched') \in 0 .. N
      <4>1. Cardinality(sched \cup {Offered})
              \in {Cardinality(sched), Cardinality(sched) + 1}
        BY <1>1, FS_AddElement
      <4>2. PICK c \in 0 .. N - 1 : c = Cardinality(sched)
        BY <3>3, <1>1
      <4> QED BY <3>1, <4>1, <4>2, <1>1
    <3> QED BY <2>1, <3>1, <3>2, <3>4, <1>1 DEF PendingInv
  <2>5. CASE AcquireDrop
    <3>1. /\ bpc = "acquire" /\ bpc' = bpc /\ ndeq' = ndeq
          /\ dropped' = dropped /\ drops' = drops + 1
          /\ skipped' = skipped /\ pending_used < MaxPending
          /\ sched' = sched
      BY <2>5 DEF AcquireDrop, Acquiring
    <3>2. pending_used' \in {pending_used, pending_used + 1}
      BY <2>5, DropMoves
    <3> QED BY <2>1, <3>1, <3>2, <1>1 DEF PendingInv
  <2>6. CASE Dequeue
    <3>1. /\ bpc \in {"dequeue", "finish"} /\ bpc' = bpc /\ ndeq' = TRUE
          /\ dropped' = dropped /\ drops' = drops /\ skipped' = skipped
      BY <2>6 DEF Dequeue
    <3>2. PICK p \in sched : sched' = sched \ {p}
                             /\ pending_used' = pending_used + 1
      BY <2>6, DequeueMoves
    <3>3. Cardinality(sched') = Cardinality(sched) - 1
      BY <3>2, <1>1, FS_RemoveElement
    <3> QED BY <2>1, <3>1, <3>2, <3>3, <1>1 DEF PendingInv
  <2>7. CASE DequeueEnds
    <3>1. /\ pending_used' = pending_used /\ sched' = sched /\ drops' = drops
          /\ skipped' = skipped /\ dropped' = dropped /\ bpc = "dequeue"
      BY <2>7 DEF DequeueEnds
    <3>2. PICK others \in BOOLEAN :
            /\ ndeq' = (ndeq \/ others)
            /\ bpc' = IF ndeq \/ others \/ dropped THEN "notify" ELSE "top"
      BY <2>7 DEF DequeueEnds
    <3>3. ndeq' \in BOOLEAN /\ bpc' \in {"notify", "top"}
          /\ (bpc' = "top" => ~ndeq)
      BY <3>2 DEF PendingInv
    <3> QED BY <2>1, <3>1, <3>3, <1>1 DEF PendingInv
  <2>8. CASE vring_packed_txq_notify
    <3>1. /\ pending_used' = 0 /\ sched' = sched /\ drops' = drops
          /\ UNCHANGED <<skipped, ndeq, dropped>>
      BY <2>8 DEF vring_packed_txq_notify
    <3> QED BY <2>1, <3>1, <1>1 DEF PendingInv
  <2>9. CASE sched_all_finish
    <3>1. UNCHANGED <<pending_used, sched, drops, skipped, ndeq, dropped>>
          /\ bpc' = "halted"
      BY <2>9 DEF sched_all_finish, schedVars
    <3> QED BY <2>1, <3>1, <1>1 DEF PendingInv
  <2> QED BY <2>2, <2>3, <2>4, <2>5, <2>6, <2>7, <2>8, <2>9, <1>3 DEF Worker
<1> QED BY <1>1, <1>2, <1>3, WhoSteps

\* Types: with a device opened once, and an algorithm that drops nothing, the
\* counters stay in their ranges: what is acquired and what is in the cache
\* never exceed the descriptors, and what waits to be notified is at most the
\* bound on dropped packets and one packet for each descriptor.
THEOREM SchedTypes ==
  ASSUME ~MayReopen, "sched" \notin Drops
  PROVE  SchedSpec => []SchedTypeOK
<1> DEFINE Inv == CacheInv /\ PendingInv
<1>1. SchedInit => Inv
  <2> SUFFICES ASSUME SchedInit PROVE Inv
    OBVIOUS
  <2>1. mbufs = 0 /\ bpc = "halted" /\ N \in Nat /\ MaxPending \in Nat
    BY PackedAssumption, SchedAssumption DEF SchedInit, Init
  <2>2. Cardinality(sched) = 0
    BY FS_EmptySet DEF SchedInit
  <2>3. CacheInv
    BY <2>1 DEF CacheInv
  <2>4. /\ pending_inuse = 0 /\ pending_used = 0 /\ drops = 0 /\ skipped = 0
    BY DEF SchedInit
  <2>5. ndeq \in BOOLEAN /\ dropped \in BOOLEAN
    BY Zenon DEF SchedInit
  <2>6. PendingInv
    BY <2>1, <2>2, <2>4, <2>5 DEF PendingInv
  <2> QED BY <2>3, <2>6
<1>2. QInv /\ WInv /\ Inv /\ [SchedNext]_allVars => Inv'
  BY NextCache, NextPending
<1>3. ASSUME QInv, WInv, Inv PROVE SchedTypeOK
  <2>1. /\ Cardinality(sched) \in 0 .. N /\ N \in Nat /\ MaxPending \in Nat
    BY <1>3, PacketsOf, PackedAssumption, SchedAssumption
  <2>2. /\ hv_map \in [Slots -> Slots] /\ sched \subseteq Packet
    BY <1>3 DEF WInv, MapInv
  <2>3. mbufs \in 0 .. N
    BY <2>1, <1>3 DEF CacheInv
  <2>4. pending_used \in 0 .. MaxPending + N
    BY <2>1, <1>3 DEF PendingInv
  <2> QED BY <2>2, <2>3, <2>4, <1>3 DEF SchedTypeOK, PendingInv
<1> QED BY <1>1, <1>2, <1>3, SchedInvHolds, PTL DEF SchedSpec

-----------------------------------------------------------------------------
(***************************************************************************)
(* Interrupts.                                                             *)
(***************************************************************************)
\* What the worker releases it counts, until it notifies.
LEMMA WorkerCounts ==
  ASSUME QInv, WInv, Worker
  PROVE  /\ count' \in {0, count, count + 1}
         /\ UNCHANGED <<guestVars, rigid>>
         /\ bpc # "halted" /\ dev \notin {"new", "opening"}
         /\ ~vring_packed_txq_notify => irq' = irq
         /\ \/ Done' = Done /\ (pending_used' = pending_used
                                \/ vring_packed_txq_notify)
            \/ /\ Done' = Done + 1 /\ pending_used' = pending_used + 1
               /\ ~vring_packed_txq_notify
<1>1. UNCHANGED <<guestVars, rigid>> /\ bpc # "halted" /\ PlaceInv
  BY WorkerPlace DEF QInv, WInv
<1>2. dev \notin {"new", "opening"}
  BY <1>1 DEF PlaceInv
<1>3. /\ count' \in {0, count, count + 1}
      /\ ~vring_packed_txq_notify => irq' = irq
  BY DEF Worker, process_packets_spin_many, OthersDrop, AcquireEnds,
     AcquireOutOfBudget, AcquireBad, AcquireEnqueue, AcquireDrop, Acquiring,
     Dequeue, DequeueEnds, vring_packed_txq_notify, sched_all_finish
<1>4. \/ Done' = Done /\ (pending_used' = pending_used
                          \/ vring_packed_txq_notify)
      \/ /\ Done' = Done + 1 /\ pending_used' = pending_used + 1
         /\ ~vring_packed_txq_notify
  <2>1. CASE Quiet
    <3>1. Done' = Done
      BY <2>1, QuietMoves
    <3>2. pending_used' = pending_used \/ vring_packed_txq_notify
      BY <2>1 DEF Quiet, process_packets_spin_many, OthersDrop, AcquireEnds,
         AcquireOutOfBudget, DequeueEnds, sched_all_finish, schedVars
    <3> QED BY <3>1, <3>2
  <2>2. CASE AcquireBad \/ AcquireEnqueue
    BY <2>2, AcquireMoves
  <2>3. CASE AcquireDrop
    <3>1. ~vring_packed_txq_notify
      BY <2>3 DEF AcquireDrop, Acquiring, vring_packed_txq_notify
    <3> QED BY <2>3, <3>1, DropMoves
  <2>4. CASE Dequeue
    <3>1. ~vring_packed_txq_notify
      BY <2>4 DEF Dequeue, vring_packed_txq_notify
    <3> QED BY <2>4, <3>1, DequeueMoves
  <2> QED BY <2>1, <2>2, <2>3, <2>4 DEF Worker, Quiet
<1> QED BY <1>1, <1>2, <1>3, <1>4

\* The guest's side of a new device.
LEMMA InitArmed == SchedInit => KickPlace /\ EventPlace /\ EventOff = 0
<1> SUFFICES ASSUME SchedInit PROVE KickPlace /\ EventPlace /\ EventOff = 0
  OBVIOUS
<1>1. QInv /\ Served /\ InUse = 0 /\ Done = 0
  BY InitQInv DEF SchedInit
<1>2. KickPlace
  BY InitKick DEF SchedInit, KickInv
<1>3. EventOff = 0 /\ ArmedAt = 0 /\ Armed
  <2>1. PICK b \in Bufs : vq = vring_packed_init(b)
    BY DEF SchedInit, Init
  <2>2. /\ vq.driver_event.idx = 0 /\ vq.driver_event.wrap = 1 /\ Armed
        /\ vq.g.used = 0 /\ vq.g.uwrap = 1
    BY <2>1 DEF vring_packed_init, Armed
  <2> QED BY <1>1, <2>2 DEF EventOff, ArmedAt
<1>4. EventPlace
  BY <1>1, <1>3 DEF SchedInit, Init, EventPlace, Live
<1> QED BY <1>2, <1>3, <1>4

\* Where the guest is and where it put its event.
LEMMA NextArmed ==
  ASSUME ~MayReopen, QInv, WInv, KickPlace, EventPlace, [SchedNext]_allVars
  PROVE  KickPlace' /\ EventPlace'
<1>1. CASE Away
  <2>1. Step /\ dir = "tx"
    BY <1>1, AwayIsStep DEF QInv, WInv, WorkPlace
  <2> QED BY <2>1, NextKickPlace, NextEventPlace
<1>2. CASE Worker
  <2>1. /\ InUse' = InUse /\ vq'.g = vq.g
        /\ vq'.driver_event = vq.driver_event
        /\ ~Reclaiming /\ ~Reclaiming'
    BY <1>2, WorkerKeeps
  <2>2. /\ count' \in {0, count, count + 1}
        /\ UNCHANGED <<guestVars, rigid>> /\ dev \notin {"new", "opening"}
    BY <1>2, WorkerCounts
  <2>3. EventOff' = EventOff /\ (Armed' <=> Armed)
    BY <2>1, EventStays
  <2>4. UNCHANGED <<dir, dev, gpc, op, napi, left, num, min, kick_pending>>
    BY <2>2 DEF guestVars, rigid, batchVars
  <2>5. ArmedAt' = ArmedAt
    BY <2>1, <2>4 DEF ArmedAt
  <2>6. KickPlace'
    BY <2>2, <2>4 DEF KickPlace
  <2>7. EventPlace'
    BY <2>1, <2>2, <2>3, <2>4, <2>5 DEF EventPlace, Live, Alert
  <2> QED BY <2>6, <2>7
<1> QED BY <1>1, <1>2, WhoSteps DEF QInv

\* What may wait to be notified fits the 16 bits of vring_need_event.
PendingFits == MaxPending + N < 65536

\* Somebody knows that the event was passed: as in PackedQueue, with the
\* releases of all rounds since the last notification for those of one round.
LEMMA NextSchedTold ==
  ASSUME ~MayReopen, QInv, WInv, KickPlace, NoticeInv, [SchedNext]_allVars,
         PendingFits
  PROVE  SchedTold'
<1> SUFFICES ASSUME Live', Armed', EventOff' < Done'
             PROVE  \/ irq' \/ Alert'
                    \/ Done' - pending_used' <= EventOff'
                    \/ op' = "poll" /\ gpc' = "check"
  BY DEF SchedTold
<1>1. /\ PlaceInv /\ RingInv /\ vq \in Virtq /\ InUse \in 0 .. N
      /\ N \in Nat /\ N >= 2 /\ pending_used \in Nat /\ EventPlace
      /\ SchedTold /\ WorkPlace /\ pending_used < 65536
  <2>1. N \in Nat /\ N >= 2 /\ MaxPending \in Nat
    BY PackedAssumption, QueueAssumption, SchedAssumption
  <2>2. Cardinality(sched) \in 0 .. N
    BY PacketsOf
  <2>3. pending_used \in Nat /\ pending_used < 65536
    BY <2>1, <2>2 DEF NoticeInv, PendingInv, PendingFits
  <2> QED BY <2>1, <2>3 DEF QInv, WInv, RingInv, PosInv, NoticeInv
<1>2. CASE Away /\ pending_used' = pending_used
  <2>1. Step /\ (ThreadStarts \/ ~BackendStep)
    BY <1>1, <1>2, AwayIsStep
  <2>2. PICK c \in Int, r \in BOOLEAN : c = pending_used /\ (r <=> TRUE)
    <3>1. pending_used \in Int
      BY <1>1
    <3>2. \E r \in BOOLEAN : r <=> TRUE
      BY Zenon
    <3> QED BY <3>1, <3>2
  <2>3. Live /\ Armed /\ EventOff < Done => Tells(c, r)
    BY <2>2, <1>1 DEF SchedTold, Tells
  <2>4. Tells(c, r)'
    <3>1. CASE ~HostStep
      BY <2>1, <2>3, <3>1, <1>1, GuestTold
    <3>2. CASE HostStep
      <4>1. ~Reclaiming /\ Live
        BY <2>1, <1>1, PassedPlace
      <4>2. /\ UNCHANGED <<rigid, guestVars>> /\ EventOff' = EventOff
            /\ (Armed' <=> Armed) /\ Done' = Done
        <5>1. ~UseOne
          BY <2>1, StartsOnly DEF BackendStep
        <5> QED BY <2>1, <3>2, <4>1, <5>1, HostSteps
      <4>3. UNCHANGED <<gpc, op, napi>>
        BY <4>2 DEF guestVars
      <4>4. irq' = irq
        BY <2>1, <3>2, StartsOnly DEF HostStep, BackendStep, PacketArrives,
           PollOther, WakeUp, vars, beVars, fds, loopVars
      <4> QED BY <2>3, <4>1, <4>2, <4>3, <4>4 DEF Tells, Alert
    <3> QED BY <3>1, <3>2
  <2> QED BY <2>2, <2>4, <1>2 DEF Tells
<1>3. CASE Worker
  <2>1. /\ vq'.g = vq.g /\ vq'.driver_event = vq.driver_event
        /\ ~Reclaiming /\ ~Reclaiming' /\ InUse' = InUse
    BY <1>3, WorkerKeeps
  <2>2. /\ UNCHANGED guestVars /\ dev \notin {"new", "opening"}
        /\ ~vring_packed_txq_notify => irq' = irq
        /\ \/ Done' = Done /\ (pending_used' = pending_used
                               \/ vring_packed_txq_notify)
           \/ /\ Done' = Done + 1 /\ pending_used' = pending_used + 1
              /\ ~vring_packed_txq_notify
    BY <1>3, WorkerCounts
  <2>3. EventOff' = EventOff /\ (Armed' <=> Armed)
    BY <2>1, EventStays
  <2>4. UNCHANGED <<dev, gpc, op, napi>> /\ (Alert' <=> Alert) /\ Live /\ Armed
    BY <2>2, <2>3 DEF guestVars, Alert, Live
  <2>5. EventOff \in (-N) .. (N - 1) /\ Done \in 0 .. InUse
    BY <2>1, <1>1, EventRange DEF RingInv, PosInv
  <2>6. CASE Done' = Done + 1 /\ pending_used' = pending_used + 1
    <3>1. CASE EventOff < Done
      BY <2>2, <2>3, <2>4, <2>5, <2>6, <3>1, <1>1 DEF SchedTold
    <3>2. CASE ~(EventOff < Done)
      BY <2>3, <2>5, <2>6, <3>2, <1>1
    <3> QED BY <3>1, <3>2
  <2>7. CASE Done' = Done /\ pending_used' = pending_used
             /\ ~vring_packed_txq_notify
    BY <2>2, <2>3, <2>4, <2>7, <1>1 DEF SchedTold
  <2>8. CASE vring_packed_txq_notify
    <3>1. EventOff < Done
      BY <2>2, <2>3, <2>8
    <3>2. Done - EventOff <= N
      <4>1. CASE op = "xmit"
        <5>1. EventOff >= InUse - (N + 1) \div 2 - 1
          BY <4>1, <2>4, <2>5, <1>1 DEF EventPlace
        <5>2. (N + 1) \div 2 + 1 <= N
          BY <1>1
        <5> QED BY <5>1, <5>2, <2>5, <1>1
      <4>2. CASE op # "xmit"
        <5>1. EventOff = ArmedAt /\ ArmedAt >= 0
          <6>1. InUse \div 2 >= 0
            BY <1>1
          <6> QED BY <6>1, <4>2, <2>4, <1>1 DEF EventPlace, ArmedAt
        <5> QED BY <5>1, <2>5, <1>1
      <4> QED BY <4>1, <4>2
    <3>3. irq' = (irq \/ (pending_used > 0
                           /\ vring_packed_intr_needed(vq, pending_used)))
      BY <2>8 DEF vring_packed_txq_notify
    <3>4. Done - pending_used <= EventOff => irq'
      <4>1. Done - pending_used <= EventOff =>
              /\ pending_used > 0
              /\ vring_packed_intr_needed(vq, pending_used)
        BY <3>1, <3>2, <2>1, <2>4, <1>1, IntrNeeded
      <4> QED BY <3>3, <4>1
    <3>5. irq => irq'
      BY <3>3
    <3> QED BY <2>4, <3>1, <3>4, <3>5, <1>1 DEF SchedTold
  <2> QED BY <2>2, <2>6, <2>7, <2>8
<1> QED BY <1>1, <1>2, <1>3, WhoSteps

\* A worker that is not about to notify has packets left or knows, within the
\* round, that it has dropped or dequeued some.
LEMMA NextLaterRound ==
  ASSUME ~MayReopen, QInv, WInv, PendingInv, LaterRound, [SchedNext]_allVars
  PROVE  LaterRound'
<1> SUFFICES ASSUME pending_used' > 0, skipped' = 0,
                    bpc' \in {"top", "acquire", "dequeue"}
             PROVE  \/ Taken' < InUse' \/ sched' # {}
                    \/ bpc' = "acquire" /\ drops' > 0
                    \/ bpc' = "dequeue" /\ (dropped' \/ ndeq')
  BY DEF LaterRound
<1>1. /\ PlaceInv /\ WorkPlace /\ RingInv /\ pending_used \in Nat
      /\ drops \in Nat /\ skipped \in Nat
  BY DEF QInv, WInv, PendingInv
<1>2. CASE /\ Away
           /\ UNCHANGED <<hv_map, pending_inuse, pending_used, sched, drops,
                          ndeq, dropped, skipped>>
  <2>1. ~OpenEnable /\ ~ThreadStarts
    <3>1. OpenEnable => dev = "opening"
      BY <1>1, <1>2, AwayDev
    <3> QED BY <3>1, <1>2, StartsOnly DEF PendingInv
  <2>2. bpc' = bpc
    BY <2>1, <1>1, <1>2, AwayIsStep DEF Starts
  <2>3. QInv' /\ WInv'
    BY <1>2, AwayKeeps
  <2>4. ~Reclaiming'
    BY <2>3 DEF QInv, PlaceInv, Reclaiming
  <2>5. /\ ~Reclaiming /\ InUse' - Taken' >= InUse - Taken
        /\ Done' \in 0 .. Taken' /\ Taken' \in 0 .. InUse'
    BY <2>4, <1>1, <1>2, AwayMoves
  <2>6. Taken < InUse => Taken' < InUse'
    <3>1. /\ Taken \in 0 .. InUse /\ InUse \in Int /\ Taken' \in 0 .. InUse'
          /\ InUse' \in Int
      BY <2>3, <2>5, <1>1, PackedAssumption
         DEF WorkPlace, RingInv, PosInv, QInv
    <3>2. PICK n \in Int, b \in Int : n = InUse /\ b = InUse'
      BY <3>1
    <3>3. PICK t \in Int, a \in Int : t = Taken /\ a = Taken'
      BY <3>1, <3>2
    <3>4. b - a >= n - t
      BY <2>5, <3>2, <3>3
    <3>5. t < n => a < b
      BY <3>4
    <3> QED BY <3>2, <3>3, <3>5
  <2>7. \/ Taken < InUse \/ sched # {}
        \/ bpc = "acquire" /\ drops > 0
        \/ bpc = "dequeue" /\ (dropped \/ ndeq)
    BY <2>2, <1>2 DEF LaterRound
  <2> QED BY <2>2, <2>6, <2>7, <1>2
<1>3. CASE Worker
  <2>1. CASE Quiet /\ ~AcquireOutOfBudget /\ ~vring_packed_txq_notify
    <3>1. /\ UNCHANGED <<sched, skipped>> /\ InUse' = InUse
          /\ Taken' = Taken
      BY <2>1, QuietMoves
    <3>2. CASE process_packets_spin_many
      <4>1. bpc = "top" /\ pending_used' = pending_used
        BY <3>2 DEF process_packets_spin_many
      <4>2. Taken < InUse \/ sched # {}
        BY <3>1, <4>1 DEF LaterRound
      <4> QED BY <3>1, <4>2
    <3>3. CASE OthersDrop
      <4>1. bpc' = bpc /\ dropped' = TRUE /\ drops' = drops
            /\ pending_used' = pending_used
        BY <3>3 DEF OthersDrop
      <4>2. \/ Taken < InUse \/ sched # {}
            \/ bpc = "acquire" /\ drops > 0
            \/ bpc = "dequeue"
        BY <3>1, <4>1 DEF LaterRound
      <4> QED BY <3>1, <4>1, <4>2
    <3>4. CASE AcquireEnds
      <4>1. /\ bpc = "acquire" /\ bpc' = "dequeue"
            /\ dropped' = (dropped \/ drops > 0)
            /\ pending_used' = pending_used
        BY <3>4 DEF AcquireEnds
      <4>2. Taken < InUse \/ sched # {} \/ drops > 0
        BY <3>1, <4>1 DEF LaterRound
      <4> QED BY <3>1, <4>1, <4>2
    <3>5. CASE DequeueEnds
      <4>1. bpc = "dequeue" /\ pending_used' = pending_used
        BY <3>5 DEF DequeueEnds
      <4>2. ~ndeq /\ ~dropped
        BY <3>5 DEF DequeueEnds
      <4>3. Taken < InUse \/ sched # {}
        BY <3>1, <4>1, <4>2 DEF LaterRound
      <4> QED BY <3>1, <4>3
    <3>6. ~sched_all_finish
      BY DEF sched_all_finish
    <3> QED BY <2>1, <3>2, <3>3, <3>4, <3>5, <3>6 DEF Quiet
  <2>2. CASE AcquireOutOfBudget
    <3>1. InUse' = InUse /\ Taken' = Taken
      BY <2>2, QuietMoves DEF Quiet
    <3>2. ~Reclaiming
      BY <1>1, <1>3, WorkerPlace
    <3>3. Taken < InUse
      BY <2>2, <3>2, <1>1, AvailReads DEF AcquireOutOfBudget, WorkPlace
    <3> QED BY <3>1, <3>3
  <2>3. CASE AcquireBad
    BY <2>3, <1>1 DEF AcquireBad
  <2>4. CASE AcquireEnqueue
    BY <2>4 DEF AcquireEnqueue
  <2>5. CASE AcquireDrop
    BY <2>5, <1>1 DEF AcquireDrop, Acquiring
  <2>6. CASE Dequeue
    BY <2>6 DEF Dequeue
  <2>7. CASE vring_packed_txq_notify
    BY <2>7 DEF vring_packed_txq_notify
  <2> QED BY <2>1, <2>2, <2>3, <2>4, <2>5, <2>6, <2>7, <1>3 DEF Worker, Quiet
<1> QED BY <1>1, <1>2, <1>3, WhoSteps

\* No release goes unnoticed: on a device opened once, as long as what waits
\* to be notified fits the 16 bits of vring_need_event, a worker at the top of
\* its loop that has passed the guest's event without an interrupt still
\* counts those releases, and has packets that make a later round notify.
THEOREM NoReleaseUnnoticedHolds ==
  ASSUME ~MayReopen, PendingFits PROVE SchedSpec => []NoReleaseUnnoticed
<1> DEFINE Inv == KickPlace /\ NoticeInv
<1>1. SchedInit => Inv
  <2> SUFFICES ASSUME SchedInit PROVE Inv
    OBVIOUS
  <2>1. QInv /\ Served /\ InUse = 0 /\ Done = 0
    BY InitQInv DEF SchedInit
  <2>2. KickPlace /\ EventPlace /\ EventOff = 0
    BY InitArmed
  <2>3. PendingInv
    <3>1. bpc = "halted" /\ N \in Nat /\ MaxPending \in Nat
      BY PackedAssumption, SchedAssumption DEF SchedInit, Init
    <3>2. Cardinality(sched) = 0
      BY FS_EmptySet DEF SchedInit
    <3>3. /\ pending_inuse = 0 /\ pending_used = 0 /\ drops = 0
          /\ skipped = 0
      BY DEF SchedInit
    <3>4. ndeq \in BOOLEAN /\ dropped \in BOOLEAN
      BY Zenon DEF SchedInit
    <3> QED BY <3>1, <3>2, <3>3, <3>4 DEF PendingInv
  <2>4. SchedTold /\ LaterRound
    BY <2>1, <2>2 DEF SchedInit, SchedTold, LaterRound
  <2> QED BY <2>2, <2>3, <2>4 DEF NoticeInv
<1>2. QInv /\ WInv /\ Inv /\ [SchedNext]_allVars => Inv'
  BY NextArmed, NextPending, NextSchedTold, NextLaterRound DEF NoticeInv
<1>3. ASSUME QInv, WInv, Inv PROVE NoReleaseUnnoticed
  <2> SUFFICES ASSUME bpc = "top", dev = "up", gpc = "idle", napi = "idle",
                      ~irq, vq.driver_event.flags = "DESC", skipped = 0,
                      Dist(GUsed(vq), HUsed(vq))
                        > Dist(GUsed(vq), Pos(vq.driver_event.idx,
                                              vq.driver_event.wrap))
               PROVE  /\ pending_used > 0
                      /\ vring_packed_more_avail(vq) \/ sched # {}
    BY DEF NoReleaseUnnoticed
  <2> DEFINE i == vq.driver_event.idx
             w == vq.driver_event.wrap
  <2>1. /\ RingInv /\ ~Reclaiming /\ vq \in Virtq /\ op = "none" /\ Live
        /\ Armed /\ Done \in 0 .. InUse /\ InUse \in 0 .. N /\ N \in Nat
        /\ Done \in 0 .. Taken /\ Taken \in 0 .. InUse
        /\ pending_used \in Nat
    BY <1>3, PackedAssumption
       DEF QInv, RingInv, PosInv, PlaceInv, Reclaiming, Live, Armed, WInv,
           WorkPlace, NoticeInv, PendingInv
  <2>2. EventOff = ArmedAt
    BY <2>1, <1>3 DEF NoticeInv, EventPlace
  <2>3. ArmedAt \in 0 .. N
    BY <2>1 DEF ArmedAt
  <2>4. i \in Slots /\ w \in {0, 1} /\ vq.g.used \in Slots
        /\ vq.g.uwrap \in {0, 1}
    BY <2>1 DEF Virtq, Event
  <2>5. Ahead(i, w) = EventOff
    BY <2>1, <2>2, <2>3, <2>4 DEF Ahead, EventOff, Slots
  <2>6. Dist(GUsed(vq), Pos(i, w)) = EventOff
    <3> HIDE DEF i, w
    <3> QED BY <2>1, <2>2, <2>3, <2>4, <2>5, DistAhead
  <2>7. Dist(GUsed(vq), HUsed(vq)) = Done
    BY <2>1, Segments
  <2>8. EventOff < Done
    BY <2>1, <2>2, <2>3, <2>6, <2>7
  <2>9. Done - pending_used <= EventOff
    BY <2>1, <2>8, <1>3 DEF NoticeInv, SchedTold, Alert
  <2>10. pending_used > 0
    BY <2>1, <2>2, <2>3, <2>8, <2>9
  <2>11. Taken < InUse \/ sched # {}
    BY <2>10, <1>3 DEF NoticeInv, LaterRound
  <2>12. vring_packed_more_avail(vq) <=> Taken < InUse
    BY <2>1, AvailReads
  <2> QED BY <2>10, <2>11, <2>12
<1> QED BY <1>1, <1>2, <1>3, SchedInvHolds, PTL DEF SchedSpec

-----------------------------------------------------------------------------
(***************************************************************************)
(* The abstract queue.  Its two sequences and its set are three stretches  *)
(* of one sequence, the addresses in the ring by their offset: handed back *)
(* below a, taken from a to b, posted from b to c.                         *)
(***************************************************************************)
Slice(f, m, n) == [k \in 1 .. n - m |-> f[m + k - 1]]
Stretch(f, m, n) == {f[k] : k \in m .. n - 1}

Within(f, n, S) == \A k \in 0 .. n - 1 : f[k] \in S
Spells(s, f, m, n, S) ==
  /\ s \in Seq(S) /\ Len(s) = n - m
  /\ \A k \in 1 .. n - m : s[k] = f[m + k - 1]

\* A slice is a sequence, which only depends on what is in it.
LEMMA SliceIs ==
  ASSUME NEW S, NEW f, NEW n \in Nat, NEW m \in 0 .. n, Within(f, n, S),
         NEW s, s = Slice(f, m, n)
  PROVE  Spells(s, f, m, n, S)
<1>1. \A k \in 1 .. n - m : m + k - 1 \in 0 .. n - 1
  OBVIOUS
<1>2. n - m \in Nat
  OBVIOUS
<1> QED BY <1>1, <1>2 DEF Slice, Within, Spells

\* g is f moved by d.
Shifted(f, g, m, n, d) == \A k \in m .. n - 1 : g[k - d] = f[k]

\* Two slices with the same elements, d offsets apart, are the same.
LEMMA SliceSame ==
  ASSUME NEW f, NEW g, NEW n \in Int, NEW m \in Int, NEW d \in Int,
         NEW x, x = m - d, NEW y, y = n - d, Shifted(f, g, m, n, d)
  PROVE  Slice(g, x, y) = Slice(f, m, n)
<1>1. y - x = n - m
  OBVIOUS
<1>2. ASSUME NEW k \in 1 .. n - m PROVE g[x + k - 1] = f[m + k - 1]
  <2>1. m + k - 1 \in m .. n - 1 /\ x + k - 1 = (m + k - 1) - d
    OBVIOUS
  <2> QED BY <2>1 DEF Shifted
<1> QED BY <1>1, <1>2 DEF Slice

\* One more at the end, ...
LEMMA SliceAppend ==
  ASSUME NEW S, NEW f, NEW n \in Nat, NEW m \in 0 .. n, NEW j, j = n + 1,
         Within(f, j, S)
  PROVE  Slice(f, m, j) = Append(Slice(f, m, n), f[n])
<1>1. PICK s, t : s = Slice(f, m, n) /\ t = Slice(f, m, j)
  OBVIOUS
<1>2. Within(f, n, S) /\ f[n] \in S
  BY DEF Within
<1>3. j \in Nat /\ m \in 0 .. j
  OBVIOUS
<1>4. Spells(s, f, m, n, S) /\ Spells(t, f, m, j, S)
  BY <1>1, <1>2, <1>3, SliceIs
<1>5. Len(t) = Len(s) + 1 /\ s \in Seq(S) /\ t \in Seq(S)
  BY <1>4 DEF Spells
<1>6. \A k \in 1 .. Len(s) : t[k] = s[k]
  BY <1>4 DEF Spells
<1>7. t[Len(s) + 1] = f[n]
  <2>1. n - m + 1 \in 1 .. j - m /\ m + (n - m + 1) - 1 = n
    OBVIOUS
  <2> QED BY <2>1, <1>4 DEF Spells
<1> QED BY <1>1, <1>2, <1>5, <1>6, <1>7, AppendIs

\* ... one less at the front, ...
LEMMA SliceTail ==
  ASSUME NEW S, NEW f, NEW n \in Nat, NEW m \in 0 .. n - 1, NEW j, j = m + 1,
         Within(f, n, S)
  PROVE  /\ Slice(f, m, n) # <<>> /\ Slice(f, j, n) = Tail(Slice(f, m, n))
         /\ Head(Slice(f, m, n)) = f[m]
<1>1. PICK s, t : s = Slice(f, m, n) /\ t = Slice(f, j, n)
  OBVIOUS
<1>2. m \in 0 .. n /\ j \in 0 .. n
  OBVIOUS
<1>3. Spells(s, f, m, n, S) /\ Spells(t, f, j, n, S)
  BY <1>1, <1>2, SliceIs
<1>4. Len(s) >= 1 /\ Len(t) = Len(s) - 1 /\ s \in Seq(S) /\ t \in Seq(S)
  BY <1>3 DEF Spells
<1>5. ASSUME NEW k \in 1 .. Len(t) PROVE t[k] = s[k + 1]
  <2>1. k + 1 \in 1 .. n - m /\ m + (k + 1) - 1 = j + k - 1 /\ k \in 1 .. n - j
    BY <1>3 DEF Spells
  <2> QED BY <2>1, <1>3 DEF Spells
<1>6. s # <<>> /\ t = Tail(s) /\ Head(s) = s[1]
  BY <1>4, <1>5, TailIs
<1>7. s[1] = f[m]
  <2>1. 1 \in 1 .. n - m /\ m + 1 - 1 = m
    OBVIOUS
  <2> QED BY <2>1, <1>3 DEF Spells
<1> QED BY <1>1, <1>6, <1>7

\* ... and two of them in a row.
LEMMA SliceConcat ==
  ASSUME NEW S, NEW f, NEW n \in Nat, NEW j \in 0 .. n, NEW m \in 0 .. j,
         Within(f, n, S)
  PROVE  Slice(f, m, n) = Slice(f, m, j) \o Slice(f, j, n)
<1>1. PICK s, t, u : s = Slice(f, m, j) /\ t = Slice(f, j, n)
                     /\ u = Slice(f, m, n)
  OBVIOUS
<1>2. j \in Nat /\ m \in 0 .. n /\ Within(f, j, S)
  BY DEF Within
<1>3. Spells(s, f, m, j, S) /\ Spells(t, f, j, n, S) /\ Spells(u, f, m, n, S)
  BY <1>1, <1>2, SliceIs
<1>4. /\ s \in Seq(S) /\ t \in Seq(S) /\ u \in Seq(S)
      /\ Len(s) = j - m /\ Len(t) = n - j /\ Len(u) = n - m
  BY <1>3 DEF Spells
<1>5. /\ s \o t \in Seq(S) /\ Len(s \o t) = Len(s) + Len(t)
      /\ \A i \in 1 .. Len(s) + Len(t) :
           (s \o t)[i] = IF i <= Len(s) THEN s[i] ELSE t[i - Len(s)]
  BY <1>4, ConcatProperties
<1>6. Len(s \o t) = Len(u) /\ Len(s) + Len(t) = n - m
  BY <1>4, <1>5
<1>7. ASSUME NEW i \in 1 .. Len(u) PROVE u[i] = (s \o t)[i]
  <2>1. i \in 1 .. n - m
    BY <1>4
  <2>2. u[i] = f[m + i - 1]
    BY <2>1, <1>3 DEF Spells
  <2>3. CASE i <= j - m
    <3>1. (s \o t)[i] = s[i] /\ i \in 1 .. j - m
      BY <2>1, <2>3, <1>4, <1>5, <1>6
    <3> QED BY <2>2, <3>1, <1>3 DEF Spells
  <2>4. CASE ~(i <= j - m)
    <3>1. /\ i - (j - m) \in 1 .. n - j
          /\ j + (i - (j - m)) - 1 = m + i - 1
      BY <2>1, <2>4
    <3>2. (s \o t)[i] = t[i - (j - m)]
      BY <2>1, <2>4, <1>4, <1>5, <1>6
    <3> QED BY <2>2, <3>1, <3>2, <1>3 DEF Spells
  <2> QED BY <2>3, <2>4
<1>8. u = s \o t
  BY <1>4, <1>5, <1>6, <1>7, SeqEqual
<1> QED BY <1>1, <1>8

\* The addresses by offset, and the offset of the oldest posted buffer.
Addr == [k \in 0 .. N - 1 |-> AddrAt(k)]
Posting == IF Reclaiming THEN 0 ELSE IF bpc = "halted" THEN Done ELSE Taken

\* The state of the abstract queue is what f, a, b and c say.
View(f, a, b, c) ==
  /\ a \in 0 .. b /\ b \in 0 .. c /\ c \in 0 .. N
  /\ Within(f, c, Bufs)
  /\ \A j, k \in 0 .. c - 1 : f[j] = f[k] => j = k
  /\ Handed = Slice(f, 0, a)
  /\ SchedTaken = Stretch(f, a, b)
  /\ SchedPosted = Slice(f, b, c)

\* The three stretches of the ring.
LEMMA Seen == QInv /\ WInv => View(Addr, From, Posting, InUse)
<1> SUFFICES ASSUME QInv, WInv PROVE View(Addr, From, Posting, InUse)
  OBVIOUS
<1>0. /\ RingInv /\ PlaceInv /\ WorkPlace /\ vq \in Virtq /\ N \in Nat
      /\ InUse \in 0 .. N
      /\ ~Reclaiming => /\ Done \in 0 .. Taken /\ Taken \in 0 .. InUse
                        /\ Done \in 0 .. InUse
  BY PackedAssumption DEF QInv, WInv, RingInv, PosInv, WorkPlace
<1>1. Reclaiming => bpc = "halted"
  BY <1>0 DEF PlaceInv, Reclaiming
<1>2. From \in 0 .. Posting /\ Posting \in 0 .. InUse
  <2>1. CASE Reclaiming
    <3>1. From = 0 /\ Posting = 0
      BY <2>1 DEF From, Posting
    <3> QED BY <3>1, <1>0
  <2>2. CASE ~Reclaiming /\ bpc = "halted"
    <3>1. From = Done /\ Posting = Done
      BY <2>2 DEF From, Posting
    <3> QED BY <2>2, <3>1, <1>0
  <2>3. CASE ~Reclaiming /\ bpc # "halted"
    <3>1. From = Done /\ Posting = Taken
      BY <2>3 DEF From, Posting
    <3> QED BY <2>3, <3>1, <1>0
  <2> QED BY <2>1, <2>2, <2>3
<1>3. ASSUME NEW k \in 0 .. InUse - 1
      PROVE  /\ Addr[k] = vq.desc[At(k)].addr /\ At(k) \in Slots
             /\ Off(At(k)) = k /\ Addr[k] \in Bufs
  <2>1. k \in 0 .. N - 1
    BY <1>0
  <2>2. Addr[k] = vq.desc[At(k)].addr
    BY <2>1 DEF Addr, AddrAt
  <2>3. At(k) \in Slots /\ Off(At(k)) = k
    BY <2>1, <1>0, SlotAt
  <2> QED BY <2>2, <2>3, <1>0 DEF Virtq, Desc
<1>4. Within(Addr, InUse, Bufs)
  BY <1>3 DEF Within
<1>5. ASSUME NEW j \in 0 .. InUse - 1, NEW k \in 0 .. InUse - 1,
             Addr[j] = Addr[k]
      PROVE  j = k
  <2>1. At(j) = At(k)
    <3>1. Off(At(j)) < InUse /\ Off(At(k)) < InUse
      BY <1>0, <1>3
    <3> QED BY <3>1, <1>0, <1>3, <1>5 DEF RingInv, HeldInv
  <2> QED BY <2>1, <1>3
<1>6. Handed = Slice(Addr, 0, From)
  <2>1. CASE Reclaiming
    <3>1. From = 0 /\ Handed = <<>>
      BY <2>1 DEF From, Handed, Addrs
    <3>2. Slice(Addr, 0, 0) = <<>>
      BY DEF Slice
    <3> QED BY <3>1, <3>2
  <2>2. CASE ~Reclaiming
    <3>1. From = Done /\ From - 0 = From /\ From \in 0 .. InUse
      BY <2>2, <1>0 DEF From
    <3>2. DescsFrom(vq, GUsed(vq), HUsed(vq)) =
            [k \in 1 .. Done |-> vq.desc[At(k - 1)]]
      BY <2>2, <1>0, Segments
    <3>3. Handed = [k \in 1 .. From |-> vq.desc[At(k - 1)].addr]
      BY <2>2, <3>1, <3>2 DEF Handed, Addrs
    <3>4. ASSUME NEW k \in 1 .. From
          PROVE  vq.desc[At(k - 1)].addr = Addr[0 + k - 1]
      <4>1. k - 1 \in 0 .. InUse - 1 /\ 0 + k - 1 = k - 1
        BY <3>1, <1>0
      <4> QED BY <4>1, <1>3
    <3> QED BY <3>1, <3>3, <3>4 DEF Slice
  <2> QED BY <2>1, <2>2
<1>7. SchedTaken = Stretch(Addr, From, Posting)
  <2>1. CASE bpc = "halted"
    <3>1. From = Posting /\ From \in Int
      BY <2>1, <1>0, <1>2 DEF From, Posting
    <3> QED BY <2>1, <3>1 DEF SchedTaken, Stretch
  <2>2. CASE bpc # "halted"
    <3>1. ~Reclaiming /\ From = Done /\ Posting = Taken
      BY <2>2, <1>1 DEF From, Posting
    <3>2. Held = [k \in 1 .. Taken - Done |-> vq.desc[At(Done + k - 1)]]
      BY <3>1, <1>0, HeldSlotsAre
    <3>3. SchedTaken = {vq.desc[At(Done + k - 1)].addr : k \in 1 .. Taken - Done}
      BY <2>2, <3>2 DEF SchedTaken
    <3>4. PICK d, t : d = Done /\ t = Taken
      OBVIOUS
    <3>5. d \in 0 .. t /\ t \in 0 .. InUse
      BY <3>1, <3>4, <1>0
    <3>6. ASSUME NEW k \in 1 .. t - d
          PROVE  vq.desc[At(d + k - 1)].addr \in Stretch(Addr, d, t)
      <4>1. d + k - 1 \in d .. t - 1 /\ d + k - 1 \in 0 .. InUse - 1
        BY <3>5, <1>0
      <4> QED BY <4>1, <1>3 DEF Stretch
    <3>7. ASSUME NEW i \in d .. t - 1
          PROVE  \E k \in 1 .. t - d : Addr[i] = vq.desc[At(d + k - 1)].addr
      <4>1. /\ i \in 0 .. InUse - 1 /\ i - d + 1 \in 1 .. t - d
            /\ d + (i - d + 1) - 1 = i
        BY <3>5, <1>0
      <4> QED BY <4>1, <1>3
    <3> QED BY <3>1, <3>3, <3>4, <3>6, <3>7 DEF Stretch
  <2> QED BY <2>1, <2>2
<1>8. SchedPosted = Slice(Addr, Posting, InUse)
  <2>1. ASSUME NEW m \in 0 .. InUse, Posting = m,
               SchedPosted = [k \in 1 .. InUse - m |-> vq.desc[At(m + k - 1)].addr]
        PROVE  SchedPosted = Slice(Addr, Posting, InUse)
    <3>1. ASSUME NEW k \in 1 .. InUse - m
          PROVE  vq.desc[At(m + k - 1)].addr = Addr[m + k - 1]
      <4>1. m + k - 1 \in 0 .. InUse - 1
        BY <1>0
      <4> QED BY <4>1, <1>3
    <3> QED BY <2>1, <3>1 DEF Slice
  <2>2. CASE Reclaiming
    <3>1. /\ Posting = 0 /\ InUse - 0 = InUse
          /\ \A k \in 1 .. InUse : 0 + k - 1 = k - 1
      BY <2>2, <1>0 DEF Posting
    <3>2. InRing = [k \in 1 .. InUse |-> vq.desc[At(k - 1)]]
      BY <1>0, Segments
    <3>3. SchedPosted = Addrs(InRing)
      BY <2>2 DEF SchedPosted
    <3>4. SchedPosted = [k \in 1 .. InUse |-> vq.desc[At(k - 1)].addr]
      BY <3>2, <3>3 DEF Addrs
    <3>5. SchedPosted = [k \in 1 .. InUse - 0 |-> vq.desc[At(0 + k - 1)].addr]
      BY <3>1, <3>4
    <3> QED BY <3>1, <3>5, <2>1, <1>0
  <2>3. CASE ~Reclaiming /\ bpc = "halted"
    <3>1. Posting = Done /\ Done \in 0 .. InUse
      BY <2>3, <1>0 DEF Posting
    <3>2. DescsFrom(vq, HUsed(vq), GAvail(vq)) =
            [k \in 1 .. InUse - Done |-> vq.desc[At(Done + k - 1)]]
      BY <2>3, <1>0, Segments
    <3>3. SchedPosted = Addrs(DescsFrom(vq, HUsed(vq), GAvail(vq)))
      BY <2>3 DEF SchedPosted
    <3>4. SchedPosted =
            [k \in 1 .. InUse - Done |-> vq.desc[At(Done + k - 1)].addr]
      BY <3>2, <3>3 DEF Addrs
    <3> QED BY <3>1, <3>4, <2>1
  <2>4. CASE ~Reclaiming /\ bpc # "halted"
    <3>1. Posting = Taken /\ Taken \in 0 .. InUse
      BY <2>4, <1>0 DEF Posting
    <3>2. PICK m, n, i, w, j, x :
            /\ m = Taken /\ n = InUse /\ i = vq.h.avail /\ w = vq.h.awrap
            /\ j = vq.g.avail /\ x = vq.g.awrap
      OBVIOUS
    <3>3. /\ m = Ahead(i, w) /\ n = Ahead(j, x) /\ m \in 0 .. n
          /\ n \in 0 .. N /\ HAvail(vq) = Pos(i, w) /\ GAvail(vq) = Pos(j, x)
          /\ i \in Slots /\ j \in Slots /\ w \in {0, 1} /\ x \in {0, 1}
      BY <3>1, <3>2, <1>0 DEF Taken, InUse, HAvail, GAvail, Virtq
    <3>4. DescsFrom(vq, HAvail(vq), GAvail(vq)) =
            [k \in 1 .. n - m |-> vq.desc[At(m + k - 1)]]
      BY <3>3, <1>0, Segment
    <3>5. SchedPosted = Addrs(DescsFrom(vq, HAvail(vq), GAvail(vq)))
      BY <2>4 DEF SchedPosted
    <3>6. SchedPosted = [k \in 1 .. n - m |-> vq.desc[At(m + k - 1)].addr]
      BY <3>4, <3>5 DEF Addrs
    <3> QED BY <3>1, <3>2, <3>6, <2>1
  <2> QED BY <2>2, <2>3, <2>4
<1> QED BY <1>0, <1>2, <1>4, <1>5, <1>6, <1>7, <1>8 DEF View

\* And in the state a step leads to.
LEMMA SeenNext ==
  ASSUME QInv', WInv',
         NEW g, NEW x, NEW y, NEW z,
         g = Addr', x = From', y = Posting', z = InUse'
  PROVE  View(g, x, y, z)'
<1>1. View(Addr, From, Posting, InUse)'
  BY Seen, PTL
<1> QED BY <1>1 DEF View

\* A stretch only depends on what is in it.
LEMMA StretchSame ==
  ASSUME NEW f, NEW g, NEW n \in Int, NEW m \in Int, NEW d \in Int,
         NEW x, x = m - d, NEW y, y = n - d, Shifted(f, g, m, n, d)
  PROVE  Stretch(g, x, y) = Stretch(f, m, n)
<1>1. \A k \in m .. n - 1 : k - d \in x .. y - 1
  OBVIOUS
<1>2. \A i \in x .. y - 1 : i + d \in m .. n - 1 /\ (i + d) - d = i
  OBVIOUS
<1> QED BY <1>1, <1>2 DEF Stretch, Shifted

\* Nothing moves.
LEMMA MoveNone ==
  ASSUME NEW f, NEW g, NEW a, NEW b, NEW c, View(f, a, b, c),
         View(g, a, b, c)', \A k \in 0 .. c - 1 : g[k] = f[k]
  PROVE  SchedPosted' = SchedPosted /\ SchedTaken' = SchedTaken
         /\ Handed' = Handed
<1>1. a \in 0 .. b /\ b \in 0 .. c /\ c \in 0 .. N /\ N \in Nat
  BY PackedAssumption DEF View
<1>2. /\ \A k \in 1 .. c - b : b + k - 1 \in 0 .. c - 1
      /\ \A k \in 1 .. a - 0 : 0 + k - 1 \in 0 .. c - 1
      /\ \A k \in a .. b - 1 : k \in 0 .. c - 1
  BY <1>1
<1>3. /\ Slice(g, b, c) = Slice(f, b, c) /\ Slice(g, 0, a) = Slice(f, 0, a)
      /\ Stretch(g, a, b) = Stretch(f, a, b)
  BY <1>2 DEF Slice, Stretch
<1> QED BY <1>3 DEF View

\* Publish: one more at the end.
LEMMA MovePublish ==
  ASSUME NEW f, NEW g, NEW a, NEW b, NEW c, NEW z, View(f, a, b, c),
         View(g, a, b, z)', z = c + 1, \A k \in 0 .. c - 1 : g[k] = f[k]
  PROVE  SchedPosted' = Append(SchedPosted, g[c]) /\ SchedTaken' = SchedTaken
         /\ Handed' = Handed
<1>1. a \in 0 .. b /\ b \in 0 .. c /\ c \in 0 .. N /\ N \in Nat
  BY PackedAssumption DEF View
<1>2. /\ \A k \in 1 .. c - b : b + k - 1 \in 0 .. c - 1
      /\ \A k \in 1 .. a - 0 : 0 + k - 1 \in 0 .. c - 1
      /\ \A k \in a .. b - 1 : k \in 0 .. c - 1
  BY <1>1
<1>3. /\ Slice(g, b, c) = Slice(f, b, c) /\ Slice(g, 0, a) = Slice(f, 0, a)
      /\ Stretch(g, a, b) = Stretch(f, a, b)
  BY <1>2 DEF Slice, Stretch
<1>4. Within(g, z, Bufs) /\ c \in Nat
  BY <1>1 DEF View
<1>5. Slice(g, b, z) = Append(Slice(g, b, c), g[c])
  BY <1>1, <1>4, SliceAppend
<1> QED BY <1>3, <1>5 DEF View

\* Complete: the oldest one handed back leaves, and everything is one nearer.
LEMMA MoveComplete ==
  ASSUME NEW f, NEW g, NEW a, NEW b, NEW c, NEW x, NEW y, NEW z,
         View(f, a, b, c), View(g, x, y, z)', a >= 1,
         x = a - 1, y = b - 1, z = c - 1,
         \A k \in 0 .. c - 2 : g[k] = f[k + 1]
  PROVE  /\ SchedPosted' = SchedPosted /\ SchedTaken' = SchedTaken
         /\ Handed # <<>> /\ Head(Handed) = f[0] /\ Handed' = Tail(Handed)
<1>1. a \in 0 .. b /\ b \in 0 .. c /\ c \in 0 .. N /\ N \in Nat
      /\ Within(f, c, Bufs)
  BY PackedAssumption DEF View
<1>2. \A k \in 1 .. c - 1 : g[k - 1] = f[k]
  <2>1. \A k \in 1 .. c - 1 : k - 1 \in 0 .. c - 2 /\ (k - 1) + 1 = k
    BY <1>1
  <2> QED BY <2>1
<1>3. Slice(g, y, z) = Slice(f, b, c)
  <2>1. \A k \in b .. c - 1 : k \in 1 .. c - 1
    BY <1>1
  <2>2. Shifted(f, g, b, c, 1)
    BY <2>1, <1>2 DEF Shifted
  <2> QED BY <2>2, <1>1, SliceSame
<1>4. Stretch(g, x, y) = Stretch(f, a, b)
  <2>1. \A k \in a .. b - 1 : k \in 1 .. c - 1
    BY <1>1
  <2>2. Shifted(f, g, a, b, 1)
    BY <2>1, <1>2 DEF Shifted
  <2> QED BY <2>2, <1>1, StretchSame
<1>5. Slice(g, 0, x) = Slice(f, 1, a)
  <2>1. \A k \in 1 .. a - 1 : k \in 1 .. c - 1
    BY <1>1
  <2>2. Shifted(f, g, 1, a, 1)
    BY <2>1, <1>2 DEF Shifted
  <2> QED BY <2>2, <1>1, SliceSame
<1>6. /\ Slice(f, 0, a) # <<>> /\ Slice(f, 1, a) = Tail(Slice(f, 0, a))
      /\ Head(Slice(f, 0, a)) = f[0]
  <2>1. a \in Nat /\ Within(f, a, Bufs)
    BY <1>1 DEF Within
  <2>2. PICK m \in 0 .. a - 1, j \in Int : m = 0 /\ j = 1 /\ j = m + 1
    BY <1>1
  <2>3. /\ Slice(f, m, a) # <<>> /\ Slice(f, j, a) = Tail(Slice(f, m, a))
        /\ Head(Slice(f, m, a)) = f[m]
    BY <2>1, <2>2, SliceTail
  <2> QED BY <2>2, <2>3
<1> QED BY <1>3, <1>4, <1>5, <1>6 DEF View

\* Reclaim: the same, when all there is is posted.
LEMMA MoveReclaim ==
  ASSUME NEW f, NEW g, NEW c, NEW z,
         View(f, 0, 0, c), View(g, 0, 0, z)', c >= 1, z = c - 1,
         \A k \in 0 .. c - 2 : g[k] = f[k + 1]
  PROVE  /\ SchedTaken' = SchedTaken /\ Handed' = Handed /\ Handed = <<>>
         /\ SchedPosted # <<>> /\ Head(SchedPosted) = f[0]
         /\ SchedPosted' = Tail(SchedPosted)
<1>1. c \in 0 .. N /\ N \in Nat /\ Within(f, c, Bufs) /\ c \in Nat
  BY PackedAssumption DEF View
<1>2. PICK m \in 0 .. c - 1, j \in Int : m = 0 /\ j = 1 /\ j = m + 1
                                         /\ j - 1 = 0
  BY <1>1
<1>3. Shifted(f, g, j, c, 1)
  <2>1. \A k \in j .. c - 1 : k - 1 \in 0 .. c - 2 /\ (k - 1) + 1 = k
    BY <1>1, <1>2
  <2> QED BY <2>1 DEF Shifted
<1>4. Slice(g, 0, z) = Slice(f, j, c)
  BY <1>1, <1>2, <1>3, SliceSame
<1>5. /\ Slice(f, m, c) # <<>> /\ Slice(f, j, c) = Tail(Slice(f, m, c))
      /\ Head(Slice(f, m, c)) = f[m]
  BY <1>1, <1>2, SliceTail
<1>6. /\ Slice(f, 0, 0) = <<>> /\ Slice(g, 0, 0) = <<>>
      /\ Stretch(f, 0, 0) = {} /\ Stretch(g, 0, 0) = {}
  BY DEF Slice, Stretch
<1> QED BY <1>2, <1>4, <1>5, <1>6 DEF View

\* Take: the oldest posted one is the worker's.
LEMMA MoveTake ==
  ASSUME NEW f, NEW g, NEW a, NEW b, NEW c, NEW y, View(f, a, b, c),
         View(g, a, y, c)', y = b + 1, b < c,
         \A k \in 0 .. c - 1 : g[k] = f[k]
  PROVE  /\ SchedPosted # <<>> /\ SchedPosted' = Tail(SchedPosted)
         /\ SchedTaken' = SchedTaken \cup {Head(SchedPosted)}
         /\ Handed' = Handed
<1>1. a \in 0 .. b /\ b \in 0 .. c /\ c \in 0 .. N /\ N \in Nat
      /\ Within(f, c, Bufs) /\ c \in Nat /\ b \in 0 .. c - 1
  BY PackedAssumption DEF View
<1>2. /\ \A k \in 1 .. c - y : y + k - 1 \in 0 .. c - 1
      /\ \A k \in 1 .. a - 0 : 0 + k - 1 \in 0 .. c - 1
      /\ \A k \in a .. y - 1 : k \in 0 .. c - 1
  BY <1>1
<1>3. /\ Slice(g, y, c) = Slice(f, y, c) /\ Slice(g, 0, a) = Slice(f, 0, a)
      /\ Stretch(g, a, y) = Stretch(f, a, y)
  BY <1>2 DEF Slice, Stretch
<1>4. /\ Slice(f, b, c) # <<>> /\ Slice(f, y, c) = Tail(Slice(f, b, c))
      /\ Head(Slice(f, b, c)) = f[b]
  BY <1>1, SliceTail
<1>5. Stretch(f, a, y) = Stretch(f, a, b) \cup {f[b]}
  <2>1. \A k : k \in a .. y - 1 <=> k \in a .. b - 1 \/ k = b
    BY <1>1
  <2> QED BY <2>1 DEF Stretch
<1> QED BY <1>3, <1>4, <1>5 DEF View

\* g is f with the elements at a and j exchanged.
Exchanged(f, g, a, j, c) ==
  /\ g[a] = f[j] /\ g[j] = f[a]
  /\ \A k \in 0 .. c - 1 : k # a /\ k # j => g[k] = f[k]

\* Consume: the oldest posted one is exchanged with the first that the worker
\* holds, and handed back.
LEMMA MoveConsume ==
  ASSUME NEW f, NEW g, NEW a, NEW b, NEW c, NEW x, NEW y, View(f, a, b, c),
         View(g, x, y, c)', x = a + 1, y = b + 1, a < b, b < c,
         Exchanged(f, g, a, b, c)
  PROVE  /\ SchedPosted # <<>> /\ SchedPosted' = Tail(SchedPosted)
         /\ SchedTaken' = SchedTaken
         /\ Handed' = Append(Handed, Head(SchedPosted))
<1>1. a \in 0 .. b /\ b \in 0 .. c /\ c \in 0 .. N /\ N \in Nat
      /\ Within(f, c, Bufs) /\ c \in Nat /\ b \in 0 .. c - 1 /\ a \in Nat
      /\ Within(g, c, Bufs)
  BY PackedAssumption DEF View
<1>2. Slice(g, y, c) = Slice(f, y, c)
  <2>1. \A k \in 1 .. c - y : /\ y + k - 1 \in 0 .. c - 1
                              /\ y + k - 1 # a /\ y + k - 1 # b
    BY <1>1
  <2> QED BY <2>1 DEF Slice, Exchanged
<1>3. /\ Slice(f, b, c) # <<>> /\ Slice(f, y, c) = Tail(Slice(f, b, c))
      /\ Head(Slice(f, b, c)) = f[b]
  BY <1>1, SliceTail
<1>4. Slice(g, 0, x) = Append(Slice(f, 0, a), f[b])
  <2>1. Within(g, x, Bufs) /\ 0 \in 0 .. a
    BY <1>1 DEF Within
  <2>2. Slice(g, 0, x) = Append(Slice(g, 0, a), g[a])
    BY <2>1, <1>1, SliceAppend
  <2>3. \A k \in 1 .. a - 0 : /\ 0 + k - 1 \in 0 .. c - 1
                              /\ 0 + k - 1 # a /\ 0 + k - 1 # b
    BY <1>1
  <2>4. Slice(g, 0, a) = Slice(f, 0, a)
    BY <2>3 DEF Slice, Exchanged
  <2> QED BY <2>2, <2>4 DEF Exchanged
<1>5. Stretch(g, x, y) = Stretch(f, a, b)
  <2>1. \A k \in x .. y - 1 : k = b \/ (k \in a .. b - 1 /\ k \in 0 .. c - 1
                                        /\ k # a /\ k # b)
    BY <1>1
  <2>2. \A k \in a .. b - 1 : k = a \/ (k \in x .. y - 1 /\ k \in 0 .. c - 1
                                        /\ k # a /\ k # b)
    BY <1>1
  <2>3. a \in a .. b - 1 /\ b \in x .. y - 1
    BY <1>1
  <2>4. \A k \in x .. y - 1 : \E i \in a .. b - 1 : g[k] = f[i]
    BY <2>1, <2>3 DEF Exchanged
  <2>5. \A i \in a .. b - 1 : \E k \in x .. y - 1 : g[k] = f[i]
    BY <2>2, <2>3 DEF Exchanged
  <2> QED BY <2>4, <2>5 DEF Stretch
<1> QED BY <1>2, <1>3, <1>4, <1>5 DEF View

\* HandBack: the same, with any one that the worker holds.
LEMMA MoveHandBack ==
  ASSUME NEW f, NEW g, NEW a, NEW b, NEW c, NEW x, View(f, a, b, c),
         View(g, x, b, c)', x = a + 1, NEW j \in a .. b - 1,
         Exchanged(f, g, a, j, c)
  PROVE  /\ f[j] \in SchedTaken /\ f[j] \in Bufs
         /\ SchedTaken' = SchedTaken \ {f[j]}
         /\ SchedPosted' = SchedPosted /\ Handed' = Append(Handed, f[j])
<1>1. a \in 0 .. b /\ b \in 0 .. c /\ c \in 0 .. N /\ N \in Nat
      /\ Within(f, c, Bufs) /\ c \in Nat /\ a \in Nat /\ Within(g, c, Bufs)
  BY PackedAssumption DEF View
<1>2. Slice(g, b, c) = Slice(f, b, c)
  <2>1. \A k \in 1 .. c - b : /\ b + k - 1 \in 0 .. c - 1
                              /\ b + k - 1 # a /\ b + k - 1 # j
    BY <1>1
  <2> QED BY <2>1 DEF Slice, Exchanged
<1>3. f[j] \in Bufs /\ j \in 0 .. c - 1
  BY <1>1 DEF Within
<1>4. Slice(g, 0, x) = Append(Slice(f, 0, a), f[j])
  <2>1. Within(g, x, Bufs) /\ 0 \in 0 .. a
    BY <1>1 DEF Within
  <2>2. Slice(g, 0, x) = Append(Slice(g, 0, a), g[a])
    BY <2>1, <1>1, SliceAppend
  <2>3. \A k \in 1 .. a - 0 : /\ 0 + k - 1 \in 0 .. c - 1
                              /\ 0 + k - 1 # a /\ 0 + k - 1 # j
    BY <1>1
  <2>4. Slice(g, 0, a) = Slice(f, 0, a)
    BY <2>3 DEF Slice, Exchanged
  <2> QED BY <2>2, <2>4 DEF Exchanged
<1>5. Stretch(g, x, b) = Stretch(f, a, b) \ {f[j]}
  <2>0. \A i, k \in 0 .. c - 1 : f[i] = f[k] => i = k
    BY DEF View
  <2>1. ASSUME NEW k \in x .. b - 1
        PROVE  \E i \in a .. b - 1 : g[k] = f[i] /\ f[i] # f[j]
    <3>1. k \in 0 .. c - 1 /\ k # a /\ k \in a .. b - 1 /\ a \in a .. b - 1
          /\ a \in 0 .. c - 1
      BY <1>1
    <3>2. CASE k = j
      BY <2>0, <3>1, <3>2, <1>3 DEF Exchanged
    <3>3. CASE k # j
      BY <2>0, <3>1, <3>3, <1>3 DEF Exchanged
    <3> QED BY <3>2, <3>3
  <2>2. ASSUME NEW i \in a .. b - 1, f[i] # f[j]
        PROVE  \E k \in x .. b - 1 : g[k] = f[i]
    <3>1. i \in 0 .. c - 1 /\ i # j /\ (i # a => i \in x .. b - 1)
      BY <2>2, <1>1
    <3>2. CASE i = a
      <4>1. j \in x .. b - 1
        BY <3>1, <3>2, <1>1
      <4> QED BY <3>2, <4>1 DEF Exchanged
    <3>3. CASE i # a
      BY <3>1, <3>3 DEF Exchanged
    <3> QED BY <3>2, <3>3
  <2> QED BY <2>1, <2>2 DEF Stretch
<1>6. f[j] \in Stretch(f, a, b)
  BY DEF Stretch
<1> QED BY <1>2, <1>3, <1>4, <1>5, <1>6 DEF View

\* Disable: what the worker holds goes to the front of what is posted.
LEMMA MoveDisable ==
  ASSUME NEW f, NEW g, NEW a, NEW b, NEW c, View(f, a, b, c),
         View(g, a, a, c)', \A k \in 0 .. c - 1 : g[k] = f[k]
  PROVE  /\ SchedTaken' = {} /\ Handed' = Handed
         /\ \E s \in [1 .. Cardinality(SchedTaken) -> SchedTaken] :
              /\ {s[k] : k \in DOMAIN s} = SchedTaken
              /\ SchedPosted' = s \o SchedPosted
<1>1. a \in 0 .. b /\ b \in 0 .. c /\ c \in 0 .. N /\ N \in Nat
      /\ Within(f, c, Bufs) /\ c \in Nat /\ a \in Nat
  BY PackedAssumption DEF View
<1>2. /\ \A k \in 1 .. c - a : a + k - 1 \in 0 .. c - 1
      /\ \A k \in 1 .. a - 0 : 0 + k - 1 \in 0 .. c - 1
  BY <1>1
<1>3. /\ Slice(g, a, c) = Slice(f, a, c) /\ Slice(g, 0, a) = Slice(f, 0, a)
      /\ Stretch(g, a, a) = {}
  BY <1>1, <1>2 DEF Slice, Stretch
<1>4. Slice(f, a, c) = Slice(f, a, b) \o Slice(f, b, c)
  BY <1>1, SliceConcat
<1> DEFINE s == Slice(f, a, b)
           T == Stretch(f, a, b)
<1>5. /\ s \in [1 .. b - a -> T] /\ DOMAIN s = 1 .. b - a
      /\ {s[k] : k \in 1 .. b - a} = T
  <2>1. \A k \in 1 .. b - a : a + k - 1 \in a .. b - 1
    BY <1>1
  <2>2. \A i \in a .. b - 1 : i - a + 1 \in 1 .. b - a /\ a + (i - a + 1) - 1 = i
    BY <1>1
  <2>3. \A k \in 1 .. b - a : s[k] = f[a + k - 1]
    BY DEF Slice
  <2>4. s = [k \in 1 .. b - a |-> f[a + k - 1]]
    BY DEF Slice
  <2>5. \A k \in 1 .. b - a : f[a + k - 1] \in T
    BY <2>1 DEF Stretch
  <2>6. s \in [1 .. b - a -> T] /\ DOMAIN s = 1 .. b - a
    BY <2>4, <2>5
  <2>7. ASSUME NEW e \in T PROVE \E k \in 1 .. b - a : e = s[k]
    <3>1. PICK i \in a .. b - 1 : e = f[i]
      BY <2>7 DEF Stretch
    <3> QED BY <3>1, <2>2, <2>3
  <2>8. ASSUME NEW k \in 1 .. b - a PROVE s[k] \in T
    BY <2>3, <2>5
  <2> HIDE DEF s, T
  <2> QED BY <2>6, <2>7, <2>8
<1>6. Cardinality(T) = b - a
  <2>1. \A j, k \in 1 .. b - a : s[j] = s[k] => j = k
    <3> SUFFICES ASSUME NEW j \in 1 .. b - a, NEW k \in 1 .. b - a,
                        s[j] = s[k]
                 PROVE  j = k
      OBVIOUS
    <3>1. a + j - 1 \in 0 .. c - 1 /\ a + k - 1 \in 0 .. c - 1
      BY <1>1
    <3>2. f[a + j - 1] = f[a + k - 1]
      BY DEF Slice
    <3>3. a + j - 1 = a + k - 1
      BY <3>1, <3>2 DEF View
    <3> QED BY <3>3, <1>1
  <2>2. IsFiniteSet(1 .. b - a) /\ Cardinality(1 .. b - a) = b - a
    <3>1. PICK n \in Int : n = b - a /\ n >= 0
      BY <1>1
    <3>2. CASE n = 0
      <4>1. 1 .. n = {}
        BY <3>2
      <4> QED BY <3>1, <3>2, <4>1, FS_EmptySet
    <3>3. CASE n >= 1
      <4>1. 1 \in Int /\ n \in Int /\ ~(1 > n) /\ n - 1 + 1 = n
        BY <3>3
      <4>2. IsFiniteSet(1 .. n) /\ Cardinality(1 .. n) = n
        BY <4>1, FS_Interval
      <4> QED BY <3>1, <4>2
    <3> QED BY <3>1, <3>2, <3>3
  <2> HIDE DEF s, T
  <2>3. s \in Injection(1 .. b - a, T) /\ s \in Surjection(1 .. b - a, T)
    BY <2>1, <1>5 DEF Injection, IsInjective, Surjection
  <2> QED BY <2>2, <2>3, FS_Surjection
<1>7. SchedTaken = T /\ SchedPosted = Slice(f, b, c)
  BY DEF View
<1>8. SchedTaken' = {} /\ Handed' = Handed /\ SchedPosted' = s \o SchedPosted
  BY <1>3, <1>4 DEF View
<1> HIDE DEF s, T
<1>9. s \in [1 .. Cardinality(SchedTaken) -> SchedTaken]
      /\ {s[k] : k \in DOMAIN s} = SchedTaken
  BY <1>5, <1>6, <1>7
<1> QED BY <1>8, <1>9

-----------------------------------------------------------------------------
(***************************************************************************)
(* The steps.                                                              *)
(***************************************************************************)
\* Nothing moves when the ring and the ends of the stretches stay, but for the
\* worker that starts.
LEMMA SchedQuiet ==
  ASSUME QInv, WInv, QInv', WInv', RingSame, From' = From, Posting' = Posting,
         bpc' = "halted" => bpc = "halted"
  PROVE  [SQ!Next]_(SQ!bqVars)
<1>1. PICK f, a, b, c, g :
        /\ f = Addr /\ a = From /\ b = Posting /\ c = InUse /\ g = Addr'
  OBVIOUS
<1>2. InUse' = InUse /\ \A k : AddrAt(k)' = AddrAt(k)
  BY DEF RingSame, InUse, Ahead, AddrAt, At
<1>3. View(f, a, b, c)
  BY <1>1, Seen
<1>4. View(g, a, b, c)'
  BY <1>1, <1>2, SeenNext
<1>5. \A k \in 0 .. c - 1 : k \in 0 .. N - 1
  BY <1>3, PackedAssumption DEF View
<1>6. \A k \in 0 .. c - 1 : g[k] = f[k]
  BY <1>1, <1>2, <1>5 DEF Addr
<1>7. SchedPosted' = SchedPosted /\ SchedTaken' = SchedTaken
      /\ Handed' = Handed /\ held' = held
  BY <1>3, <1>4, <1>6, MoveNone DEF RingSame
<1>8. CASE (bpc' # "halted") <=> (bpc # "halted")
  BY <1>7, <1>8 DEF SQ!bqVars
<1>9. CASE bpc = "halted" /\ bpc' # "halted"
  <2>1. SQ!Enable
    BY <1>7, <1>9 DEF SQ!Enable
  <2> QED BY <2>1 DEF SQ!Next
<1> QED BY <1>8, <1>9

\* txp: Publish.
LEMMA SchedPublishes ==
  ASSUME QInv, WInv, QInv', WInv', ~Reclaiming, ~Reclaiming', bpc' = bpc,
         NEW e \in held, NEW bad \in BOOLEAN,
         vq' = vring_packed_add(vq, e, bad), held' = held \ {e}
  PROVE  SQ!Next
<1>1. PICK f, a, b, c, g, z :
        /\ f = Addr /\ a = From /\ b = Posting /\ c = InUse /\ g = Addr'
        /\ z = InUse'
  OBVIOUS
<1>2. /\ InUse' = InUse + 1 /\ Done' = Done
      /\ vq'.h = vq.h /\ vq'.g.used = vq.g.used /\ vq'.g.uwrap = vq.g.uwrap
      /\ InUse \in 0 .. N - 1 /\ e \in Bufs
      /\ \A k \in 0 .. InUse - 1 : AddrAt(k)' = AddrAt(k)
      /\ \A k : k = InUse => AddrAt(k)' = e
  BY AddrAdds DEF QInv
<1>3. From' = From /\ Posting' = Posting
  <2>1. Taken' = Taken
    BY <1>2 DEF Taken, Ahead
  <2> QED BY <2>1, <1>2 DEF From, Posting
<1>4. View(f, a, b, c)
  BY <1>1, Seen
<1>5. View(g, a, b, z)'
  BY <1>1, <1>3, SeenNext
<1>6. /\ \A k \in 0 .. c - 1 : k \in 0 .. N - 1
      /\ c \in 0 .. N - 1 /\ z = c + 1
  BY <1>1, <1>2, PackedAssumption
<1>7. (\A k \in 0 .. c - 1 : g[k] = f[k]) /\ g[c] = e
  BY <1>1, <1>2, <1>6 DEF Addr
<1>8. SchedPosted' = Append(SchedPosted, e) /\ SchedTaken' = SchedTaken
      /\ Handed' = Handed
  BY <1>4, <1>5, <1>6, <1>7, MovePublish
<1>9. SQ!Publish(e)
  BY <1>8 DEF SQ!Publish
<1> QED BY <1>2, <1>9 DEF SQ!Next

\* txc: Complete.
LEMMA SchedCompletes ==
  ASSUME QInv, WInv, QInv', WInv', ~Reclaiming, ~Reclaiming', bpc' = bpc,
         Done >= 1, InUse >= 1, Taken' - Done' = Taken - Done,
         vq' = vring_packed_get(vq), held' = held \cup {GotCookie(vq)}
  PROVE  SQ!Next
<1>1. PICK f, a, b, c, g, x, y, z :
        /\ f = Addr /\ a = From /\ b = Posting /\ c = InUse /\ g = Addr'
        /\ x = From' /\ y = Posting' /\ z = InUse'
  OBVIOUS
<1>2. /\ InUse' = InUse - 1 /\ InUse \in 1 .. N /\ Done' = Done - 1
      /\ \A k \in 0 .. InUse - 2 : AddrAt(k)' = AddrAt(k + 1)
      /\ held' = held \cup {AddrAt(0)}
  BY AddrGets DEF QInv
<1>3. View(f, a, b, c)
  BY <1>1, Seen
<1>4. View(g, x, y, z)'
  BY <1>1, SeenNext
<1>5. /\ a = Done /\ x = a - 1 /\ y = b - 1 /\ z = c - 1 /\ a >= 1
  <2>1. /\ Done \in 0 .. Taken /\ Taken \in 0 .. InUse
        /\ Done' \in 0 .. Taken' /\ Taken' \in 0 .. InUse'
    BY DEF WInv, WorkPlace
  <2>2. PICK m, n, i, j \in Int :
          m = Done /\ n = Taken /\ i = Done' /\ j = Taken'
    BY <2>1
  <2>3. i = m - 1 /\ j - i = n - m
    BY <2>2, <1>2
  <2>4. j = n - 1
    BY <2>3
  <2> QED BY <2>2, <2>3, <2>4, <1>1, <1>2 DEF From, Posting
<1>6. /\ \A k \in 0 .. c - 2 : k \in 0 .. N - 1 /\ k + 1 \in 0 .. N - 1
      /\ 0 \in 0 .. N - 1
  BY <1>1, <1>2, PackedAssumption
<1>7. (\A k \in 0 .. c - 2 : g[k] = f[k + 1]) /\ f[0] = AddrAt(0)
  BY <1>1, <1>2, <1>6 DEF Addr
<1>8. /\ SchedPosted' = SchedPosted /\ SchedTaken' = SchedTaken
      /\ Handed # <<>> /\ Head(Handed) = f[0] /\ Handed' = Tail(Handed)
  BY <1>3, <1>4, <1>5, <1>7, MoveComplete
<1>9. SQ!Complete
  BY <1>2, <1>7, <1>8 DEF SQ!Complete
<1> QED BY <1>9 DEF SQ!Next

\* txr: Reclaim.
LEMMA SchedReclaims ==
  ASSUME QInv, WInv, QInv', WInv', Reclaiming, Reclaiming', bpc' = bpc,
         bpc = "halted", InUse >= 1,
         vq' = vring_packed_get(vq), held' = held \cup {GotCookie(vq)}
  PROVE  SQ!Next
<1>1. PICK f, c, g, z : f = Addr /\ c = InUse /\ g = Addr' /\ z = InUse'
  OBVIOUS
<1>2. /\ InUse' = InUse - 1 /\ InUse \in 1 .. N
      /\ \A k \in 0 .. InUse - 2 : AddrAt(k)' = AddrAt(k + 1)
      /\ held' = held \cup {AddrAt(0)}
  BY AddrGets DEF QInv
<1>3. From = 0 /\ From' = 0 /\ Posting = 0 /\ Posting' = 0
  BY DEF From, Posting
<1>4. View(f, 0, 0, c)
  BY <1>1, <1>3, Seen
<1>5. View(g, 0, 0, z)'
  BY <1>1, <1>3, SeenNext
<1>6. /\ \A k \in 0 .. c - 2 : k \in 0 .. N - 1 /\ k + 1 \in 0 .. N - 1
      /\ 0 \in 0 .. N - 1 /\ c >= 1 /\ z = c - 1
  BY <1>1, <1>2, PackedAssumption
<1>7. (\A k \in 0 .. c - 2 : g[k] = f[k + 1]) /\ f[0] = AddrAt(0)
  BY <1>1, <1>2, <1>6 DEF Addr
<1>8. /\ SchedTaken' = SchedTaken /\ Handed' = Handed /\ Handed = <<>>
      /\ SchedPosted # <<>> /\ Head(SchedPosted) = f[0]
      /\ SchedPosted' = Tail(SchedPosted)
  BY <1>4, <1>5, <1>6, <1>7, MoveReclaim
<1>9. SQ!Reclaim
  BY <1>2, <1>7, <1>8 DEF SQ!Reclaim
<1> QED BY <1>9 DEF SQ!Next

\* The guest's steps are steps of the abstract queue.
LEMMA AwayRefines ==
  ASSUME ~MayReopen, QInv, WInv, KickPlace, Away,
         UNCHANGED <<hv_map, pending_inuse, sched>>
  PROVE  [SQ!Next]_(SQ!bqVars)
<1>0. /\ PlaceInv /\ RingInv /\ vq \in Virtq /\ held \subseteq Bufs
      /\ QInv' /\ WInv' /\ WorkPlace /\ PlaceInv'
      /\ Starts
      /\ InUse \in 0 .. N /\ (~Reclaiming => Done \in 0 .. InUse)
  BY AwayKeeps, AwayIsStep DEF QInv, WInv, RingInv, PosInv, HeldInv
<1>1. CASE PublishOne
  <2>1. ~Reclaiming /\ ~Reclaiming' /\ bpc' = bpc
    BY <1>0, <1>1 DEF PublishOne, Reclaiming, PlaceInv, beVars
  <2>2. PICK b \in held, bad \in {FALSE, BadBufs} :
          vq' = vring_packed_add(vq, b, bad) /\ held' = held \ {b}
    BY <1>1 DEF PublishOne
  <2>3. bad \in BOOLEAN
    BY QueueAssumption
  <2> QED BY <2>1, <2>2, <2>3, <1>0, SchedPublishes
<1>2. CASE vring_packed_xc
  <2>1. ~Reclaiming /\ ~Reclaiming' /\ bpc' = bpc
    BY <1>0, <1>2 DEF vring_packed_xc, Reclaiming, PlaceInv, beVars
  <2>2. Done >= 1 /\ InUse >= 1
    BY <2>1, <1>0, <1>2, Reads DEF vring_packed_xc
  <2>3. Taken' - Done' = Taken - Done
    BY <2>1, <1>0, AwayMoves
  <2>4. vq' = vring_packed_get(vq) /\ held' = held \cup {GotCookie(vq)}
    BY <1>2 DEF vring_packed_xc
  <2> QED BY <2>1, <2>2, <2>3, <2>4, <1>0, SchedCompletes
<1>3. CASE vring_packed_xr
  <2>1. Reclaiming /\ Reclaiming' /\ bpc' = bpc /\ bpc = "halted"
    BY <1>0, <1>3 DEF vring_packed_xr, Reclaiming, beVars, PlaceInv
  <2>2. InUse >= 1
    BY <2>1, <1>0, <1>3, Reads DEF vring_packed_xr
  <2>3. vq' = vring_packed_get(vq) /\ held' = held \cup {GotCookie(vq)}
    BY <1>3 DEF vring_packed_xr
  <2> QED BY <2>1, <2>2, <2>3, <1>0, SchedReclaims
<1>4. ASSUME RingSame
      PROVE  Done' = Done /\ Taken' = Taken /\ InUse' = InUse
  BY <1>4 DEF RingSame, InUse, Done, Taken, Ahead
<1>5. CASE CleanDone
  <2>1. ~Reclaiming /\ bpc' = bpc /\ RingSame
    BY <1>0, <1>5 DEF CleanDone, Reclaiming, PlaceInv, RingSame, beVars
  <2>2. op = "close" => Done = 0 /\ bpc = "halted"
    <3>1. /\ vring_packed_more_used(vq) <=> Done >= 1
          /\ Done >= 1 => ~vring_packed_get_fails(vq)
          /\ Done \in 0 .. N
      BY <2>1, <1>0, Reads, PackedAssumption
    <3> QED BY <3>1, <1>0, <1>5, PackedAssumption
            DEF CleanDone, BudgetLeft, PlaceInv
  <2>3. Reclaiming' => op = "close"
    BY <2>1, <1>5 DEF CleanDone, Reclaiming, Return
  <2>4. From' = From /\ Posting' = Posting
    BY <2>1, <2>2, <2>3, <1>4 DEF From, Posting
  <2> QED BY <2>1, <2>4, <1>0, SchedQuiet
<1>6. ASSUME RingSame, Reclaiming' <=> Reclaiming, bpc' = bpc
      PROVE  [SQ!Next]_(SQ!bqVars)
  <2>1. From' = From /\ Posting' = Posting
    BY <1>4, <1>6 DEF From, Posting
  <2> QED BY <2>1, <1>0, <1>6, SchedQuiet
<1>7. CASE bpfhv_poll \/ vring_packed_xi
  <2>1. PICK n \in 0 .. N : vq' = vring_packed_intr(vq, n)
    BY <1>0, <1>7, PackedAssumption
       DEF bpfhv_poll, vring_packed_xi, PlaceInv
  <2>2. RingSame
    BY <2>1, <1>0, <1>7, IntrSame DEF bpfhv_poll, vring_packed_xi
  <2>3. bpc' = bpc
    BY <1>7 DEF bpfhv_poll, vring_packed_xi, beVars
  <2> QED BY <2>2, <2>3, <1>6, <1>7
          DEF bpfhv_poll, vring_packed_xi, Reclaiming
<1>8. CASE OpenEnable
  <2>1. ~Reclaiming /\ ~Reclaiming' /\ dev = "opening"
    BY <1>0, <1>8 DEF OpenEnable, Reclaiming, Return, PlaceInv
  <2>2. RingSame
    BY <1>0, <1>8 DEF OpenEnable, RingSame
  <2>3. InUse = 0
    BY <2>1, <1>0 DEF KickPlace, WorkPlace
  <2>4. Done = 0 /\ Taken = 0
    BY <2>1, <2>3, <1>0 DEF WorkPlace
  <2>5. From' = From /\ Posting' = Posting
    BY <2>1, <2>2, <2>4, <1>0, <1>4, <1>8 DEF From, Posting
  <2> QED BY <2>2, <2>5, <1>0, <1>8, SchedQuiet DEF Starts
<1>10. CASE ThreadStarts
  <2>1. RingSame
    <3>1. (~busy_wait) \in BOOLEAN
      BY <1>0 DEF PlaceInv
    <3> QED BY <3>1, <1>0, <1>10, NotificationEffect
            DEF ThreadStarts, RingSame, guestVars
  <2>2. /\ bpc = "start" /\ bpc' = "top" /\ (Reclaiming' <=> Reclaiming)
    BY <1>10, StartsOnly DEF Reclaiming, guestVars
  <2>3. From' = From /\ Posting' = Posting
    BY <2>1, <2>2, <1>4 DEF From, Posting
  <2> QED BY <2>1, <2>2, <2>3, <1>0, SchedQuiet
<1>9. CASE \/ bpfhv_open \/ bpfhv_start_xmit \/ bpfhv_close \/ bpfhv_intr
           \/ vring_packed_txp \/ XiCheck \/ CloseNapiDisable \/ CloseDone
           \/ UNCHANGED vars
  <2>1. vq' = vq /\ held' = held /\ bpc' = bpc
    BY <1>9 DEF bpfhv_open, bpfhv_start_xmit, bpfhv_close, bpfhv_intr,
      vring_packed_txp, XiCheck, CloseNapiDisable, CloseDone, vars, guestVars,
      beVars
  <2>2. RingSame
    BY <2>1, <1>0 DEF RingSame
  <2>3. Reclaiming' <=> Reclaiming
    BY <1>9, <1>0 DEF bpfhv_open, bpfhv_start_xmit, bpfhv_close,
      bpfhv_intr, vring_packed_txp, XiCheck, CloseNapiDisable, CloseDone,
      Reclaiming, Return, PlaceInv, WorkPlace, vars, guestVars
  <2> QED BY <2>1, <2>2, <2>3, <1>6
<1> QED BY <1>1, <1>2, <1>3, <1>5, <1>7, <1>8, <1>9, <1>10 DEF Away, Guest

\* A release exchanges two addresses.
LEMMA ReleaseExchanges ==
  ASSUME RingInv, ~Reclaiming, ~Reclaiming', NEW i \in Slots,
         Done <= Off(i), Off(i) < InUse, Releases(vq, vq', i), held' = held,
         NEW f, NEW g, NEW a, NEW j, NEW c,
         f = Addr, g = Addr', a = Done, j = Off(i), c = InUse
  PROVE  Exchanged(f, g, a, j, c)
<1>1. /\ vq \in Virtq /\ N \in Nat /\ InUse \in 0 .. N
      /\ Off(vq.h.used) = Done /\ vq.h.used \in Slots
      /\ Off(vq.h.used) \in 0 .. N - 1 /\ Off(i) \in 0 .. N - 1
  BY PackedAssumption, ReleaseKeepsRing, Offsets DEF RingInv, PosInv
<1>2. PICK u : u = vq.h.used
  OBVIOUS
<1>3. /\ \A k \in 0 .. N - 1 : At(k) \in Slots /\ Off(At(k)) = k
      /\ At(a) = u /\ At(j) = i
  BY <1>1, <1>2, SlotAt
<1>4. \A k : At(k)' = At(k)
  BY DEF At, Releases
<1>5. a \in 0 .. N - 1 /\ j \in 0 .. N - 1 /\ 0 .. c - 1 \subseteq 0 .. N - 1
  BY <1>1
<1>6. \A k \in 0 .. N - 1 :
        f[k] = vq.desc[At(k)].addr /\ g[k] = vq'.desc[At(k)].addr
  <2> SUFFICES ASSUME NEW k \in 0 .. N - 1
               PROVE  f[k] = vq.desc[At(k)].addr
                      /\ g[k] = vq'.desc[At(k)].addr
    OBVIOUS
  <2>1. f[k] = AddrAt(k) /\ g[k] = AddrAt(k)'
    BY DEF Addr
  <2> QED BY <2>1, <1>4 DEF AddrAt
<1>7. /\ vq'.desc[u].addr = vq.desc[i].addr
      /\ vq'.desc[i].addr = vq.desc[u].addr
      /\ \A k \in Slots : k # u /\ k # i => vq'.desc[k] = vq.desc[k]
  BY <1>2 DEF Releases
<1>8. g[a] = f[j] /\ g[j] = f[a]
  BY <1>3, <1>5, <1>6, <1>7
<1>9. ASSUME NEW k \in 0 .. c - 1, k # a, k # j PROVE g[k] = f[k]
  <2>1. k \in 0 .. N - 1
    BY <1>5
  <2>2. At(k) \in Slots /\ At(k) # u /\ At(k) # i
    BY <2>1, <1>1, <1>2, <1>3, <1>9
  <2> QED BY <2>1, <2>2, <1>6, <1>7
<1> QED BY <1>8, <1>9 DEF Exchanged

\* A worker that goes on.
LEMMA WorkerView ==
  ASSUME QInv, WInv, Worker, bpc' # "halted"
  PROVE  /\ QInv' /\ WInv' /\ ~Reclaiming /\ ~Reclaiming' /\ held' = held
         /\ bpc # "halted" /\ From = Done /\ Posting = Taken
         /\ From' = Done' /\ Posting' = Taken' /\ InUse' = InUse
         /\ RingInv /\ Done \in 0 .. Taken /\ Taken \in 0 .. InUse
<1>1. /\ bpc # "halted" /\ ~Reclaiming /\ ~Reclaiming'
      /\ UNCHANGED <<rigid, guestVars, stopreq>>
  BY WorkerPlace DEF WInv
<1>2. QInv' /\ WInv' /\ InUse' = InUse /\ held' = held
  BY <1>1, WorkerKeeps DEF guestVars
<1>3. RingInv /\ Done \in 0 .. Taken /\ Taken \in 0 .. InUse
  BY <1>1 DEF QInv, WInv, WorkPlace
<1> QED BY <1>1, <1>2, <1>3 DEF From, Posting

\* A descriptor is acquired and stays the worker's: Take.
LEMMA SchedTakes ==
  ASSUME QInv, WInv, Worker, bpc' # "halted",
         Done' = Done, Taken' = Taken + 1, Taken < InUse,
         vq'.g = vq.g, vq'.desc = vq.desc
  PROVE  SQ!Next
<1>0. /\ QInv' /\ WInv' /\ ~Reclaiming /\ ~Reclaiming' /\ held' = held
      /\ bpc # "halted" /\ From = Done /\ Posting = Taken
      /\ From' = Done' /\ Posting' = Taken' /\ InUse' = InUse
  BY WorkerView
<1>1. PICK f, a, b, c, g, y :
        /\ f = Addr /\ a = From /\ b = Posting /\ c = InUse /\ g = Addr'
        /\ y = Posting'
  OBVIOUS
<1>2. \A k : AddrAt(k)' = AddrAt(k)
  BY DEF AddrAt, At
<1>3. View(f, a, b, c)
  BY <1>1, Seen
<1>4. View(g, a, y, c)'
  BY <1>0, <1>1, SeenNext
<1>5. /\ \A k \in 0 .. c - 1 : k \in 0 .. N - 1
      /\ y = b + 1 /\ b < c
  BY <1>0, <1>1, <1>3, PackedAssumption DEF View
<1>6. \A k \in 0 .. c - 1 : g[k] = f[k]
  BY <1>1, <1>2, <1>5 DEF Addr
<1>7. /\ SchedPosted # <<>> /\ SchedPosted' = Tail(SchedPosted)
      /\ SchedTaken' = SchedTaken \cup {Head(SchedPosted)}
      /\ Handed' = Handed
  BY <1>3, <1>4, <1>5, <1>6, MoveTake
<1>8. SQ!Take
  BY <1>0, <1>7 DEF SQ!Take
<1> QED BY <1>8 DEF SQ!Next

\* A descriptor is acquired and another slot's place released with it: Consume.
LEMMA SchedConsumes ==
  ASSUME QInv, WInv, Worker, bpc' # "halted",
         Done' = Done + 1, Taken' = Taken + 1, Taken < InUse, Done < Taken,
         vq.h.avail \in Slots, Off(vq.h.avail) = Taken,
         Releases(vq, vq', vq.h.avail)
  PROVE  SQ!Next
<1>0. /\ QInv' /\ WInv' /\ ~Reclaiming /\ ~Reclaiming' /\ held' = held
      /\ bpc # "halted" /\ From = Done /\ Posting = Taken
      /\ From' = Done' /\ Posting' = Taken' /\ InUse' = InUse
      /\ RingInv /\ Done \in 0 .. Taken /\ Taken \in 0 .. InUse
  BY WorkerView
<1>1. PICK f, a, b, c, g, x, y, i :
        /\ f = Addr /\ a = From /\ b = Posting /\ c = InUse /\ g = Addr'
        /\ x = From' /\ y = Posting' /\ i = vq.h.avail
  OBVIOUS
<1>2. View(f, a, b, c)
  BY <1>1, Seen
<1>3. View(g, x, y, c)'
  BY <1>0, <1>1, SeenNext
<1>4. x = a + 1 /\ y = b + 1 /\ a < b /\ b < c
  BY <1>0, <1>1
<1>5. Exchanged(f, g, a, b, c)
  <2>1. i \in Slots /\ Done <= Off(i) /\ Off(i) < InUse
        /\ Releases(vq, vq', i) /\ a = Done /\ b = Off(i)
    BY <1>0, <1>1
  <2> QED BY <2>1, <1>0, <1>1, ReleaseExchanges
<1>6. /\ SchedPosted # <<>> /\ SchedPosted' = Tail(SchedPosted)
      /\ SchedTaken' = SchedTaken
      /\ Handed' = Append(Handed, Head(SchedPosted))
  BY <1>2, <1>3, <1>4, <1>5, MoveConsume
<1>7. SQ!Consume
  BY <1>0, <1>6 DEF SQ!Consume
<1> QED BY <1>7 DEF SQ!Next

\* A packet's descriptor is released: HandBack.
LEMMA SchedHandsBack ==
  ASSUME QInv, WInv, Worker, bpc' # "halted", NEW i \in Slots,
         Done' = Done + 1, Taken' = Taken, Done <= Off(i), Off(i) < Taken,
         Releases(vq, vq', i)
  PROVE  SQ!Next
<1>0. /\ QInv' /\ WInv' /\ ~Reclaiming /\ ~Reclaiming' /\ held' = held
      /\ bpc # "halted" /\ From = Done /\ Posting = Taken
      /\ From' = Done' /\ Posting' = Taken' /\ InUse' = InUse
      /\ RingInv /\ Done \in 0 .. Taken /\ Taken \in 0 .. InUse
  BY WorkerView
<1>1. PICK f, a, b, c, g, x, j :
        /\ f = Addr /\ a = From /\ b = Posting /\ c = InUse /\ g = Addr'
        /\ x = From' /\ j = Off(i)
  OBVIOUS
<1>2. View(f, a, b, c)
  BY <1>1, Seen
<1>3. View(g, x, b, c)'
  BY <1>0, <1>1, SeenNext
<1>4. Off(i) \in 0 .. N - 1 /\ InUse \in 0 .. N /\ N \in Nat
  BY <1>0, PackedAssumption, Offsets DEF RingInv, PosInv
<1>5. x = a + 1 /\ j \in a .. b - 1 /\ Off(i) < InUse
  BY <1>0, <1>1, <1>4
<1>6. Exchanged(f, g, a, j, c)
  BY <1>0, <1>1, <1>5, ReleaseExchanges
<1>7. /\ f[j] \in SchedTaken /\ f[j] \in Bufs
      /\ SchedTaken' = SchedTaken \ {f[j]}
      /\ SchedPosted' = SchedPosted /\ Handed' = Append(Handed, f[j])
  BY <1>2, <1>3, <1>5, <1>6, MoveHandBack
<1>8. SQ!HandBack(f[j])
  BY <1>0, <1>7 DEF SQ!HandBack
<1> QED BY <1>7, <1>8 DEF SQ!Next

\* The worker halts: Disable.
LEMMA SchedDisables ==
  ASSUME QInv, WInv, sched_all_finish
  PROVE  SQ!Next
<1>0. /\ QInv' /\ WInv' /\ ~Reclaiming /\ ~Reclaiming' /\ held' = held
      /\ bpc # "halted" /\ bpc' = "halted" /\ InUse' = InUse
      /\ Done' = Done /\ vq' = vq
  <2>1. Worker /\ Quiet /\ bpc' = "halted"
    BY DEF Worker, Quiet, sched_all_finish
  <2>2. /\ bpc # "halted" /\ ~Reclaiming /\ ~Reclaiming'
        /\ UNCHANGED <<rigid, guestVars, stopreq>>
    BY <2>1, WorkerPlace DEF WInv
  <2> QED BY <2>1, <2>2, WorkerKeeps, QuietMoves DEF guestVars
<1>1. PICK f, a, b, c, g :
        /\ f = Addr /\ a = From /\ b = Posting /\ c = InUse /\ g = Addr'
  OBVIOUS
<1>2. From' = From /\ Posting' = From
  BY <1>0 DEF From, Posting
<1>3. View(f, a, b, c)
  BY <1>1, Seen
<1>4. View(g, a, a, c)'
  BY <1>0, <1>1, <1>2, SeenNext
<1>5. \A k \in 0 .. c - 1 : g[k] = f[k]
  BY <1>0, <1>1 DEF Addr, AddrAt, At
<1>6. /\ SchedTaken' = {} /\ Handed' = Handed
      /\ \E s \in [1 .. Cardinality(SchedTaken) -> SchedTaken] :
           /\ {s[k] : k \in DOMAIN s} = SchedTaken
           /\ SchedPosted' = s \o SchedPosted
  BY <1>3, <1>4, <1>5, MoveDisable
<1>7. (bpc' # "halted") = FALSE
  BY <1>0
<1>8. SQ!Cardinality(SchedTaken) = Cardinality(SchedTaken)
  BY DEF SQ!Cardinality, Cardinality
<1>9. SQ!Disable
  BY <1>0, <1>6, <1>7, <1>8 DEF SQ!Disable
<1> QED BY <1>9 DEF SQ!Next

\* The worker's steps are steps of the abstract queue.
LEMMA WorkerRefines ==
  ASSUME QInv, WInv, Worker
  PROVE  [SQ!Next]_(SQ!bqVars)
<1>1. CASE sched_all_finish
  BY <1>1, SchedDisables
<1>2. CASE ~sched_all_finish
  <2>1. bpc' # "halted"
    <3>1. bpc # "halted"
      BY WorkerPlace DEF WInv
    <3>2. CASE \/ process_packets_spin_many \/ AcquireEnds
               \/ AcquireOutOfBudget \/ DequeueEnds
               \/ vring_packed_txq_notify
      BY <3>2 DEF process_packets_spin_many, AcquireEnds, AcquireOutOfBudget,
         DequeueEnds, vring_packed_txq_notify
    <3>3. CASE \/ OthersDrop \/ AcquireBad \/ AcquireEnqueue \/ AcquireDrop
               \/ Dequeue
      BY <3>1, <3>3 DEF OthersDrop, AcquireBad, AcquireEnqueue, AcquireDrop,
         Acquiring, Dequeue
    <3> QED BY <3>2, <3>3, <1>2 DEF Worker
  <2>2. /\ QInv' /\ WInv' /\ ~Reclaiming /\ ~Reclaiming' /\ held' = held
        /\ bpc # "halted" /\ From = Done /\ Posting = Taken
        /\ From' = Done' /\ Posting' = Taken' /\ InUse' = InUse
        /\ RingInv /\ Done \in 0 .. Taken /\ Taken \in 0 .. InUse
    BY <2>1, WorkerView
  <2>3. CASE Quiet
    <3>1. vq' = vq /\ Done' = Done /\ Taken' = Taken
      BY <2>3, QuietMoves
    <3>2. RingSame
      BY <2>2, <3>1 DEF RingSame, RingInv, PosInv
    <3> QED BY <2>1, <2>2, <3>1, <3>2, SchedQuiet
  <2>4. CASE AcquireBad \/ AcquireEnqueue
    <3>1. /\ Done' = Done /\ Taken' = Taken + 1 /\ Taken < InUse
          /\ vq'.g = vq.g /\ vq'.desc = vq.desc
      BY <2>4, AcquireMoves
    <3> QED BY <2>1, <3>1, SchedTakes
  <2>5. CASE AcquireDrop
    <3>1. Taken' = Taken + 1 /\ Taken < InUse /\ vq'.g = vq.g
      BY <2>5, DropMoves
    <3>2. CASE Taken = Done /\ Done' = Done /\ vq'.desc = vq.desc
      BY <2>1, <3>1, <3>2, SchedTakes
    <3>3. CASE /\ Taken > Done /\ Done' = Done + 1
               /\ Releases(vq, vq', vq.h.avail)
      <4>1. Off(vq.h.avail) = Taken /\ vq.h.avail \in Slots
        BY <2>2, <3>1, AvailReads
      <4>2. Done < Taken
        BY <2>2, <3>3
      <4> QED BY <2>1, <3>1, <3>3, <4>1, <4>2, SchedConsumes
    <3>4. \/ Taken = Done /\ Done' = Done /\ vq'.desc = vq.desc
          \/ Taken > Done /\ Done' = Done + 1 /\ Releases(vq, vq', vq.h.avail)
      BY <2>5, DropMoves
    <3> QED BY <3>2, <3>3, <3>4
  <2>6. CASE Dequeue
    <3>1. PICK i \in Slots :
            /\ Releases(vq, vq', i) /\ Done <= Off(i) /\ Off(i) < Taken
            /\ Done' = Done + 1 /\ Taken' = Taken
      BY <2>6, DequeueMoves DEF Finds
    <3> QED BY <2>1, <3>1, SchedHandsBack
  <2> QED BY <2>3, <2>4, <2>5, <2>6 DEF Worker, Quiet
<1> QED BY <1>1, <1>2

\* Served through the packet scheduler, a vring_packed device that is opened
\* once keeps the contract of bpfhv.h: the worker acquires buffers in the order
\* of posting, and hands them back in whatever order the algorithm, the marks
\* and the swaps of descriptors make; each comes back once and complete, and
\* what the worker never released is the guest's to reclaim after it halted.
THEOREM SchedImplementsQueueHolds ==
  ASSUME ~MayReopen PROVE SchedSpec => SchedImplementsQueue
<1> DEFINE Inv == QInv /\ WInv /\ KickPlace /\ EventPlace
<1>1. SchedInit => Inv
  BY SchedInitInv, InitArmed
<1>2. Inv /\ [SchedNext]_allVars => Inv'
  <2>1. QInv /\ WInv /\ [SchedNext]_allVars => (QInv /\ WInv)'
    BY WhoSteps, AwayKeeps, WorkerKeeps DEF QInv
  <2> QED BY <2>1, NextArmed
<1>3. SchedInit => SQ!Init
  <2> SUFFICES ASSUME SchedInit PROVE SQ!Init
    OBVIOUS
  <2>1. QInv /\ WInv /\ InUse = 0 /\ bpc = "halted" /\ held = Bufs
    BY SchedInitInv, InitQInv DEF SchedInit, Init
  <2>2. PICK f, a, b, c :
          f = Addr /\ a = From /\ b = Posting /\ c = InUse
    OBVIOUS
  <2>3. View(f, a, b, c)
    BY <2>1, <2>2, Seen
  <2>4. a = 0 /\ b = 0 /\ c = 0
    BY <2>1, <2>2, <2>3 DEF View
  <2>5. Slice(f, 0, 0) = <<>> /\ Stretch(f, 0, 0) = {}
    BY DEF Slice, Stretch
  <2>6. SchedPosted = <<>> /\ SchedTaken = {} /\ Handed = <<>>
    BY <2>3, <2>4, <2>5 DEF View
  <2>7. (bpc # "halted") = FALSE
    BY <2>1
  <2> QED BY <2>1, <2>6, <2>7 DEF SQ!Init
<1>4. Inv /\ [SchedNext]_allVars => [SQ!Next]_(SQ!bqVars)
  <2> SUFFICES ASSUME Inv, [SchedNext]_allVars PROVE [SQ!Next]_(SQ!bqVars)
    OBVIOUS
  <2>1. \/ Worker \/ (Away /\ UNCHANGED <<hv_map, pending_inuse, sched>>)
    BY WhoSteps DEF QInv
  <2> QED BY <2>1, AwayRefines, WorkerRefines
<1> QED BY <1>1, <1>2, <1>3, <1>4, PTL
        DEF SchedSpec, SchedImplementsQueue, SQ!Spec
=============================================================================
