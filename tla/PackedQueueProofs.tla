-------------------------- MODULE PackedQueueProofs --------------------------
(***************************************************************************)
(* Proofs about PackedQueue, for a ring of any size the device may have    *)
(* and any number of laps, on a device that is opened once: the ring is    *)
(* consistent, no kick and no interrupt is lost, and the queue implements  *)
(* BufferQueue.                                                            *)
(*                                                                         *)
(* QInv says what the two sides' positions, the flags of every descriptor, *)
(* the identifiers and the free list have to do with each other; KickInv   *)
(* and EventInv say where the two event areas may point.                   *)
(***************************************************************************)
EXTENDS PackedQueue, FiniteSetTheorems, SequenceTheorems,
        WellFoundedInduction, TLAPS

(***************************************************************************)
(* The ring as the guest sees it: everything is counted from the next      *)
(* descriptor it will complete.  Ahead is how far a position of either     *)
(* side lies ahead of it, Off and Lap are the place and the lap of a slot. *)
(***************************************************************************)
Ahead(i, w) == IF w = vq.g.uwrap THEN i - vq.g.used ELSE i - vq.g.used + N
Off(i) == IF i >= vq.g.used THEN i - vq.g.used ELSE i - vq.g.used + N
Lap(i) == IF i >= vq.g.used THEN vq.g.uwrap ELSE 1 - vq.g.uwrap

\* Descriptors in the ring, and those of them the backend is done with.
InUse == Ahead(vq.g.avail, vq.g.awrap)
Done  == Ahead(vq.h.used, vq.h.uwrap)

\* The positions of the two sides.
PosInv ==
  /\ vq \in Virtq
  /\ InUse \in 0 .. N
  /\ ~Reclaiming => Done \in 0 .. InUse

\* The flags of every slot spell where it is: AVAIL follows the guest's
\* position, USED the backend's.
FlagInv ==
  \A i \in Slots :
    /\ vq.desc[i].avail = IF Off(i) < InUse THEN Lap(i) ELSE 1 - Lap(i)
    /\ ~Reclaiming =>
         vq.desc[i].used = IF Off(i) < Done THEN Lap(i) ELSE 1 - Lap(i)
    /\ Reclaiming /\ Off(i) < InUse => vq.desc[i].used = 1 - Lap(i)

\* What the driver holds and what the ring holds.
HeldInv ==
  /\ held \subseteq Bufs /\ InUse = N - Cardinality(held)
  /\ \A i \in Slots : Off(i) < InUse => vq.desc[i].addr \notin held
  /\ \A i, j \in Slots : Off(i) < InUse /\ Off(j) < InUse /\ i # j
                           => vq.desc[i].addr # vq.desc[j].addr

\* Every descriptor in the ring has an identifier of its own.
IdInv ==
  /\ \A i \in Slots : Off(i) < InUse =>
       /\ vq.state[vq.desc[i].id].busy
       /\ vq.state[vq.desc[i].id].cookie = vq.desc[i].addr
  /\ \A i, j \in Slots : Off(i) < InUse /\ Off(j) < InUse /\ i # j
                           => vq.desc[i].id # vq.desc[j].id
  /\ \A x \in Slots : vq.state[x].busy =>
       \E i \in Slots : Off(i) < InUse /\ vq.desc[i].id = x

\* f enumerates the free list from next_free_id on.
Lists(f) ==
  /\ \A j, k \in 0 .. N - InUse - 1 : j # k => f[j] # f[k]
  /\ \A k \in 0 .. N - InUse - 1 : ~vq.state[f[k]].busy
  /\ \A x \in Slots : ~vq.state[x].busy =>
       \E k \in 0 .. N - InUse - 1 : f[k] = x
  /\ InUse < N => f[0] = vq.g.free_id
  /\ \A k \in 0 .. N - InUse - 2 : vq.state[f[k]].next = f[k + 1]

FreeInv == \E f \in [0 .. N - 1 -> Slots] : Lists(f)

RingInv == PosInv /\ FlagInv /\ HeldInv /\ IdInv /\ FreeInv

\* Who is where in the life of the device.
PlaceInv ==
  /\ dir \in {"tx", "rx"} /\ busy_wait \in BOOLEAN
  /\ polled \in Nat /\ min \in 0 .. N
  /\ dev \in {"new", "opening", "up", "closing", "down", "leaked"}
  /\ gpc = "idle" <=> op = "none"
  /\ op \in {"none", "xmit", "poll", "open", "close"}
  /\ napi \in {"off", "idle", "sched", "missed"}
  /\ op = "open" <=> dev = "opening"
  /\ op = "open" => gpc \in {"publish", "kick", "enable"}
  /\ gpc = "enable" => op = "open"
  /\ op = "xmit" => dir = "tx" /\ dev = "up"
  /\ op = "poll" => dev \in {"up", "closing"}
  /\ dev \in {"new", "opening"} => bpc = "halted" /\ napi = "off"
  /\ op = "close" => dev = "closing" /\ bpc = "halted" /\ napi = "off"
  /\ gpc \in {"dealloc", "reclaim"} => op = "close"
  /\ gpc \in {"complete", "arm", "check"} => op \in {"xmit", "poll"}
  /\ gpc = "complete" => dir = "rx" /\ op = "poll"
  /\ gpc = "arm" /\ dir = "rx" => op = "poll"
  /\ gpc \in {"publish", "kick"} /\ dir = "tx" => op = "xmit"
  /\ dev \in {"new", "down", "leaked"} =>
       gpc = "idle" /\ bpc = "halted" /\ napi = "off"
  /\ gpc = "idle" => polled = 0
  /\ op = "close" /\ dir = "rx" /\ gpc # "reclaim" => polled + Done <= N
  /\ bpc \in {"use", "remute"} => Done < InUse
  /\ dev = "down" => InUse = 0
  /\ lost \subseteq held
  /\ dir = "tx" \/ ~AllocFails =>
       lost = {} /\ gpc # "dealloc" /\ dev # "leaked"
  /\ ~broken

QInv == PlaceInv /\ RingInv

\* The backend that serves in order uses a descriptor as soon as it takes it.
Served == vq.h.used = vq.h.avail /\ vq.h.uwrap = vq.h.awrap

\* QInv does not ask for that, so that a step of the guest, and the start of
\* the thread, may be looked at whoever the backend is.
Step == [Next]_vars /\ (BackendStep /\ ~ThreadStarts => Served)

\* A used buffer leaves the ring, counted or not.
Gets == vring_packed_xc \/ RxAllocFails

\* The backend's position is published as the event the guest kicks at.
Listening ==
  vq.device_event = [flags |-> "DESC", idx |-> vq.h.avail, wrap |-> vq.h.awrap]

\* Transmit: start_xmit publishes one buffer, and owes a kick only until its
\* doorbell; before the device is up nothing is in the ring, and the kicks are
\* on as vring_packed_init left them.
KickPlace ==
  dir = "tx" =>
    /\ count \in Nat
    /\ gpc = "publish" => left = 1 /\ num = 0
    /\ gpc = "kick" => num = 1
    /\ kick_pending => op = "xmit" /\ gpc \in {"arm", "check"}
    /\ dev \in {"new", "opening"} => InUse = 0 /\ Listening

\* The kicks are on and the polling backend will go to sleep, or starts, or
\* looks once more before it sleeps.
MaySleep ==
  /\ ~busy_wait /\ ~stopreq /\ can_send
  /\ bpc \in {"start", "recheck"} \/ (bpc = "notify" /\ count < Budget)
     \/ (bpc = "top" /\ ~again)

\* Transmit: then its position is published, and unless it still looks it has
\* been told, or will be, of what came after it.
KickTold ==
  dir = "tx" /\ MaySleep =>
    /\ Listening
    /\ bpc # "recheck" /\ Done < InUse =>
         kickfd \/ kick_pending \/ (gpc = "kick" /\ InUse = Done + 1)

KickInv == KickPlace /\ KickTold

\* How far the guest's event is ahead of its used position, in -N .. N - 1: an
\* event of another lap that is not ahead lies a turn back.
EventOff ==
  LET i == vq.driver_event.idx
  IN  IF vq.driver_event.wrap = vq.g.uwrap THEN i - vq.g.used
      ELSE IF i < vq.g.used THEN i - vq.g.used + N ELSE i - vq.g.used - N

\* Where the guest puts it.
ArmedAt == IF dir = "tx" THEN InUse \div 2 ELSE 0

InRound == bpc \in {"look", "enable", "recheck", "remute", "use", "notify"}

Live  == dev \in {"new", "opening", "up"}
Armed == vq.driver_event.flags = "DESC"
Alert == napi \in {"sched", "missed"}

\* The backend counts the buffers of a round.
CountPlace == count \in 0 .. Budget /\ (~InRound => count = 0)

\* The event is where it was put, and moves back only as start_xmit completes
\* buffers before it puts it anew.
EventPlace ==
  /\ gpc \in {"arm", "check"} => min = 1 + ArmedAt
  /\ dev \in {"new", "opening"} => Done = 0
  /\ dev = "up" => napi # "off"
  /\ Live =>
       /\ gpc = "check" => Armed
       /\ op = "poll" /\ gpc # "check" => ~Armed
       /\ ~Armed => Alert \/ op = "poll"
       /\ op = "poll" /\ gpc \in {"clean", "publish", "kick", "complete"}
            => Alert
       /\ Armed =>
            /\ EventOff <= ArmedAt
            /\ op # "xmit" \/ gpc = "check" => EventOff = ArmedAt
            /\ op = "xmit" =>
                 EventOff >=
                   InUse - (N + 1) \div 2
                     - (IF gpc \in {"clean", "publish"} THEN 0 ELSE 1)

\* Somebody knows that the event was passed.
Told ==
  \/ irq \/ Alert
  \/ InRound /\ Done - count <= EventOff
  \/ op = "poll" /\ gpc = "check"

\* The count of a round fits the 16 bits of vring_need_event.
BudgetFits == Budget < 65536

EventTold == Live /\ Armed /\ EventOff < Done => Told

EventInv == CountPlace /\ EventPlace /\ EventTold

-----------------------------------------------------------------------------
(***************************************************************************)
(* What the functions of the ring do, field by field.                      *)
(***************************************************************************)
GuestSide == [free_id : Slots, avail : Slots, used : Slots, awrap : {0, 1},
              uwrap : {0, 1}]
HostSide == [avail : Slots, used : Slots, awrap : {0, 1}, uwrap : {0, 1}]
IdState == [busy : BOOLEAN, next : Slots, cookie : Bufs]

\* The next index of a ring is an index, and its lap a lap.
LEMMA NextType ==
  ASSUME NEW i \in Slots, NEW w \in {0, 1}
  PROVE  NextIdx(i) \in Slots /\ NextWrap(i, w) \in {0, 1}
BY PackedAssumption DEF Slots, NextIdx, NextWrap

\* vring_packed_add.
LEMMA AddEffect ==
  ASSUME NEW v \in Virtq, NEW b \in Bufs, NEW bad \in BOOLEAN, NEW w,
         w = vring_packed_add(v, b, bad)
  PROVE  /\ w \in Virtq
         /\ w.desc = [v.desc EXCEPT ![v.g.avail] =
                        [addr |-> b, id |-> v.g.free_id, bad |-> bad,
                         avail |-> v.g.awrap, used |-> 1 - v.g.awrap]]
         /\ w.state = [v.state EXCEPT ![v.g.free_id] =
                        [busy |-> TRUE, next |-> v.state[v.g.free_id].next,
                         cookie |-> b]]
         /\ w.g.free_id = v.state[v.g.free_id].next
         /\ w.g.avail = NextIdx(v.g.avail)
         /\ w.g.awrap = NextWrap(v.g.avail, v.g.awrap)
         /\ w.g.used = v.g.used /\ w.g.uwrap = v.g.uwrap
         /\ w.h = v.h /\ w.driver_event = v.driver_event
         /\ w.device_event = v.device_event
<1> DEFINE a  == v.g.avail
           id == v.g.free_id
           d  == [v.desc EXCEPT ![a] =
                   [addr |-> b, id |-> id, bad |-> bad,
                    avail |-> v.g.awrap, used |-> 1 - v.g.awrap]]
           s  == [v.state EXCEPT ![id] =
                   [busy |-> TRUE, next |-> v.state[id].next, cookie |-> b]]
           g  == [v.g EXCEPT !.free_id = v.state[id].next,
                             !.avail = NextIdx(a), !.awrap = NextWrap(a, @)]
<1>1. /\ v.g \in GuestSide /\ v.state \in [Slots -> IdState]
      /\ v.desc \in [Slots -> Desc]
      /\ a \in Slots /\ id \in Slots /\ v.g.awrap \in {0, 1}
      /\ v.state[id].next \in Slots
  BY DEF Virtq, GuestSide, IdState
<1>2. d \in [Slots -> Desc]
  BY <1>1 DEF Desc
<1>3. s \in [Slots -> IdState]
  BY <1>1 DEF IdState
<1>4. /\ g \in GuestSide
      /\ g.free_id = v.state[id].next /\ g.avail = NextIdx(a)
      /\ g.awrap = NextWrap(a, v.g.awrap)
      /\ g.used = v.g.used /\ g.uwrap = v.g.uwrap
  BY <1>1, NextType DEF GuestSide
<1>5. w.desc = d /\ w.state = s
      /\ w.g = g /\ w.h = v.h /\ w.driver_event = v.driver_event
      /\ w.device_event = v.device_event
  <2>1. w.desc = d
    BY DEF vring_packed_add, Virtq
  <2>2. w.state = s
    BY <1>1 DEF vring_packed_add, Virtq
  <2>3. w.g = g
    BY <1>1 DEF vring_packed_add, Virtq
  <2>4. w.h = v.h /\ w.driver_event = v.driver_event
      /\ w.device_event = v.device_event
    BY <1>1 DEF vring_packed_add, Virtq
  <2> QED BY <2>1, <2>2, <2>3, <2>4
<1>6. w = [x \in {"g", "h", "driver_event", "device_event", "desc", "state"}
             |-> w[x]]
  BY DEF vring_packed_add, Virtq
<1> HIDE DEF d, s, g
<1>7. w \in Virtq
  BY <1>2, <1>3, <1>4, <1>5, <1>6 DEF Virtq, GuestSide, IdState
<1> QED BY <1>4, <1>5, <1>7 DEF d, s

\* vring_packed_get.
LEMMA GetEffect ==
  ASSUME NEW v \in Virtq, NEW id, id = v.desc[v.g.used].id, NEW w,
         w = vring_packed_get(v)
  PROVE  /\ w \in Virtq /\ id \in Slots
         /\ w.desc = v.desc
         /\ ~w.state[id].busy /\ w.state[id].next = v.g.free_id
         /\ \A x \in Slots : x # id => w.state[x] = v.state[x]
         /\ w.g.free_id = id
         /\ w.g.used = NextIdx(v.g.used)
         /\ w.g.uwrap = NextWrap(v.g.used, v.g.uwrap)
         /\ w.g.avail = v.g.avail /\ w.g.awrap = v.g.awrap
         /\ w.h = v.h /\ w.driver_event = v.driver_event
         /\ w.device_event = v.device_event
<1> DEFINE u == v.g.used
           s == [v.state EXCEPT ![id] =
                   [busy |-> FALSE, next |-> v.g.free_id,
                    cookie |-> v.state[id].cookie]]
           g == [v.g EXCEPT !.free_id = id,
                            !.used = NextIdx(u), !.uwrap = NextWrap(u, @)]
<1>1. /\ v.g \in GuestSide /\ v.state \in [Slots -> IdState]
      /\ v.desc \in [Slots -> Desc] /\ u \in Slots /\ v.g.free_id \in Slots
      /\ v.g.uwrap \in {0, 1}
  BY DEF Virtq, GuestSide, IdState
<1>2. id \in Slots /\ v.state[id].cookie \in Bufs
  BY <1>1 DEF Desc, IdState
<1>3. s \in [Slots -> IdState]
  BY <1>1, <1>2 DEF IdState
<1>4. /\ g \in GuestSide
      /\ g.free_id = id /\ g.used = NextIdx(u)
      /\ g.uwrap = NextWrap(u, v.g.uwrap)
      /\ g.avail = v.g.avail /\ g.awrap = v.g.awrap
  BY <1>1, <1>2, NextType DEF GuestSide
<1>5. w.desc = v.desc /\ w.state = s
      /\ w.g = g /\ w.h = v.h /\ w.driver_event = v.driver_event
      /\ w.device_event = v.device_event
  <2>1. w.state = s
    BY <1>1 DEF vring_packed_get, Virtq
  <2>2. w.g = g
    BY <1>1 DEF vring_packed_get, Virtq
  <2>3. w.desc = v.desc /\ w.h = v.h /\ w.driver_event = v.driver_event
        /\ w.device_event = v.device_event
    BY DEF vring_packed_get, Virtq
  <2> QED BY <2>1, <2>2, <2>3
<1>6. w = [x \in {"g", "h", "driver_event", "device_event", "desc", "state"}
             |-> w[x]]
  BY DEF vring_packed_get, Virtq
<1> HIDE DEF s, g
<1>7. w \in Virtq
  BY <1>1, <1>3, <1>4, <1>5, <1>6 DEF Virtq, GuestSide, IdState
<1>8. /\ ~s[id].busy /\ s[id].next = v.g.free_id
      /\ \A x \in Slots : x # id => s[x] = v.state[x]
  BY <1>1, <1>2 DEF s
<1> QED BY <1>2, <1>4, <1>5, <1>7, <1>8

\* One descriptor used in order, by txq_drain or rxq_push.
LEMMA UseEffect ==
  ASSUME NEW v \in Virtq, v.h.used = v.h.avail, v.h.uwrap = v.h.awrap, NEW w,
         w = UseInOrder(v)
  PROVE  /\ w \in Virtq
         /\ \A i \in Slots : i # v.h.avail => w.desc[i] = v.desc[i]
         /\ w.desc[v.h.avail].addr = v.desc[v.h.avail].addr
         /\ w.desc[v.h.avail].id = v.desc[v.h.avail].id
         /\ w.desc[v.h.avail].avail = v.h.awrap
         /\ w.desc[v.h.avail].used = v.h.awrap
         /\ w.h.avail = NextIdx(v.h.avail) /\ w.h.used = NextIdx(v.h.avail)
         /\ w.h.awrap = NextWrap(v.h.avail, v.h.awrap)
         /\ w.h.uwrap = NextWrap(v.h.avail, v.h.awrap)
         /\ w.g = v.g /\ w.state = v.state /\ w.driver_event = v.driver_event
         /\ w.device_event = v.device_event
<1> DEFINE a  == v.h.avail
           d1 == [v.desc[a] EXCEPT !.bad = FALSE]
           v1 == [v EXCEPT !.desc[a] = d1]
           d2 == [d1 EXCEPT !.avail = v.h.awrap, !.used = v.h.awrap]
           v2 == [v1 EXCEPT !.desc[a] = d2]
           v3 == vring_packed_advance_used(v2)
<1>1. /\ v.h \in HostSide /\ v.desc \in [Slots -> Desc] /\ a \in Slots
      /\ v.desc[a] \in Desc /\ v.h.awrap \in {0, 1}
  BY DEF Virtq, HostSide
<1>2. /\ d1 \in Desc /\ d1.addr = v.desc[a].addr /\ d1.id = v.desc[a].id
  BY <1>1 DEF Desc
<1>3. /\ d2 \in Desc /\ d2.addr = d1.addr /\ d2.id = d1.id
      /\ d2.avail = v.h.awrap /\ d2.used = v.h.awrap
  <2> HIDE DEF d1
  <2> QED BY <1>1, <1>2 DEF Desc
<1>4. /\ v1 \in Virtq /\ v1.desc[a] = d1 /\ v1.h = v.h /\ v1.g = v.g
      /\ v1.state = v.state /\ v1.driver_event = v.driver_event
      /\ v1.device_event = v.device_event
      /\ \A i \in Slots : i # a => v1.desc[i] = v.desc[i]
  <2> HIDE DEF d1
  <2> QED BY <1>1, <1>2 DEF Virtq
<1>5. /\ v2 \in Virtq /\ v2.desc[a] = d2 /\ v2.h = v.h /\ v2.g = v.g
      /\ v2.state = v.state /\ v2.driver_event = v.driver_event
      /\ v2.device_event = v.device_event
      /\ \A i \in Slots : i # a => v2.desc[i] = v.desc[i]
  <2> HIDE DEF d2, d1, v1
  <2> QED BY <1>1, <1>3, <1>4 DEF Virtq
<1>6. v2 = [v1 EXCEPT !.desc[v1.h.used] = [@ EXCEPT !.avail = v1.h.uwrap,
                                                    !.used = v1.h.uwrap]]
  <2> HIDE DEF d1, v1
  <2> QED BY <1>4
<1>7. w = vring_packed_advance_avail(v3)
  <2>1. w = vring_packed_advance_avail(ExposeUsed(v1))
    BY DEF UseInOrder
  <2> HIDE DEF v1, v2
  <2>2. ExposeUsed(v1) = v3
    BY <1>6 DEF ExposeUsed
  <2> QED BY <2>1, <2>2
<1> HIDE DEF v2
<1>8. /\ v3 \in Virtq /\ v3.desc = v2.desc /\ v3.g = v2.g
      /\ v3.state = v2.state /\ v3.driver_event = v2.driver_event
      /\ v3.device_event = v2.device_event
      /\ v3.h \in HostSide
      /\ v3.h.avail = a /\ v3.h.awrap = v.h.awrap
      /\ v3.h.used = NextIdx(a) /\ v3.h.uwrap = NextWrap(a, v.h.awrap)
  <2> DEFINE h == [v2.h EXCEPT !.used = NextIdx(@),
                               !.uwrap = NextWrap(v2.h.used, @)]
  <2>1. /\ h \in HostSide
        /\ h.avail = a /\ h.awrap = v.h.awrap
        /\ h.used = NextIdx(a) /\ h.uwrap = NextWrap(a, v.h.awrap)
    BY <1>1, <1>5, NextType DEF HostSide
  <2>2. v3 = [v2 EXCEPT !.h = h]
    BY DEF vring_packed_advance_used
  <2> HIDE DEF h, v3
  <2>3. v3 \in Virtq
    BY <2>1, <2>2, <1>5 DEF Virtq, HostSide
  <2> QED BY <2>1, <2>2, <2>3, <1>5 DEF Virtq
<1> HIDE DEF v3
<1>9. /\ w \in Virtq /\ w.desc = v3.desc /\ w.g = v3.g
      /\ w.state = v3.state /\ w.driver_event = v3.driver_event
      /\ w.device_event = v3.device_event
      /\ w.h.used = v3.h.used /\ w.h.uwrap = v3.h.uwrap
      /\ w.h.avail = NextIdx(a) /\ w.h.awrap = NextWrap(a, v.h.awrap)
  <2> DEFINE h == [v3.h EXCEPT !.avail = NextIdx(@),
                               !.awrap = NextWrap(v3.h.avail, @)]
  <2>1. /\ h \in HostSide
        /\ h.used = v3.h.used /\ h.uwrap = v3.h.uwrap
        /\ h.avail = NextIdx(a) /\ h.awrap = NextWrap(a, v.h.awrap)
    BY <1>1, <1>8, NextType DEF HostSide
  <2>2. w = [v3 EXCEPT !.h = h]
    BY <1>7 DEF vring_packed_advance_avail
  <2> HIDE DEF h
  <2>3. w \in Virtq
    BY <2>1, <2>2, <1>8 DEF Virtq, HostSide
  <2> QED BY <2>1, <2>2, <2>3, <1>8 DEF Virtq
<1> HIDE DEF d1, d2
<1> QED BY <1>2, <1>3, <1>5, <1>8, <1>9

\* vring_packed_notification touches nothing but the event area of the device.
LEMMA NotificationEffect ==
  ASSUME NEW v \in Virtq, NEW e \in BOOLEAN, NEW w,
         w = vring_packed_notification(v, e)
  PROVE  /\ w \in Virtq /\ w.desc = v.desc /\ w.g = v.g /\ w.h = v.h
         /\ w.state = v.state /\ w.driver_event = v.driver_event
         /\ e => w.device_event = [flags |-> "DESC", idx |-> v.h.avail,
                                   wrap |-> v.h.awrap]
BY DEF vring_packed_notification, Virtq, Event

\* vring_packed_intr touches nothing but the event area of the driver ...
LEMMA IntrEffect ==
  ASSUME NEW v \in Virtq, NEW n \in 0 .. N, NEW w, w = vring_packed_intr(v, n)
  PROVE  /\ w \in Virtq /\ w.desc = v.desc /\ w.g = v.g /\ w.h = v.h
         /\ w.state = v.state /\ w.device_event = v.device_event
<1>1. v.driver_event \in Event /\ v.g.used \in Slots /\ v.g.uwrap \in {0, 1}
  BY DEF Virtq
<1>2. EventIdx(v, n) \in Slots /\ EventWrap(v, n) \in {0, 1}
  BY <1>1, PackedAssumption DEF EventIdx, EventWrap, Slots
<1> QED BY <1>1, <1>2 DEF vring_packed_intr, Virtq, Event

\* ... where it stores the event, or turns the interrupts off.
LEMMA IntrEvent ==
  ASSUME NEW v \in Virtq, NEW n, NEW w, w = vring_packed_intr(v, n)
  PROVE  /\ n = 0 => w.driver_event.flags = "DISABLE"
         /\ n # 0 => w.driver_event = [flags |-> "DESC",
                                       idx |-> EventIdx(v, n),
                                       wrap |-> EventWrap(v, n)]
BY DEF vring_packed_intr, Virtq, Event

-----------------------------------------------------------------------------
(***************************************************************************)
(* The geometry of the ring.                                               *)
(***************************************************************************)
\* Slots and offsets correspond, and a position's offset is its slot's.
LEMMA Offsets ==
  ASSUME vq \in Virtq
  PROVE  /\ \A i \in Slots : Off(i) \in 0 .. N - 1 /\ Lap(i) \in {0, 1}
         /\ \A i, j \in Slots : Off(i) = Off(j) => i = j
         /\ \A i \in Slots, w \in {0, 1} : Ahead(i, w) \in 0 .. N - 1
              => Off(i) = Ahead(i, w) /\ Lap(i) = w
         /\ \A i \in Slots, w \in {0, 1} : Ahead(i, w) = N
              => i = vq.g.used /\ w = 1 - vq.g.uwrap
         /\ vq.g.used \in Slots /\ vq.g.uwrap \in {0, 1}
         /\ Off(vq.g.used) = 0 /\ Lap(vq.g.used) = vq.g.uwrap
         /\ vq.g.avail \in Slots /\ vq.g.awrap \in {0, 1}
         /\ vq.h.avail \in Slots /\ vq.h.awrap \in {0, 1}
         /\ vq.h.used \in Slots /\ vq.h.uwrap \in {0, 1}
         /\ N \in Nat /\ N >= 2
<1>1. /\ vq.g.used \in Slots /\ vq.g.uwrap \in {0, 1}
      /\ vq.g.avail \in Slots /\ vq.g.awrap \in {0, 1}
      /\ vq.h.avail \in Slots /\ vq.h.awrap \in {0, 1}
      /\ vq.h.used \in Slots /\ vq.h.uwrap \in {0, 1}
  BY DEF Virtq
<1> QED
  BY <1>1, PackedAssumption, QueueAssumption DEF Off, Lap, Ahead, Slots

\* A position that moves by one descriptor is one further ahead.
LEMMA AheadNext ==
  ASSUME vq \in Virtq, NEW i \in Slots, NEW w \in {0, 1},
         Ahead(i, w) \in 0 .. N - 1
  PROVE  Ahead(NextIdx(i), NextWrap(i, w)) = Ahead(i, w) + 1
<1>1. vq.g.used \in Slots /\ vq.g.uwrap \in {0, 1}
  BY DEF Virtq
<1> QED
  BY <1>1, PackedAssumption DEF Ahead, Slots, NextIdx, NextWrap

\* As long as the guest's used position stays, offsets stay.
LEMMA UsedStays ==
  ASSUME vq'.g.used = vq.g.used, vq'.g.uwrap = vq.g.uwrap
  PROVE  /\ \A i \in Slots : Off(i)' = Off(i) /\ Lap(i)' = Lap(i)
         /\ \A i, w : Ahead(i, w)' = Ahead(i, w)
BY DEF Off, Lap, Ahead

\* When it moves on, every offset is one less, and the slot it leaves becomes
\* the last one, a lap later.
LEMMA UsedMoves ==
  ASSUME vq \in Virtq, NEW u, u = vq.g.used, vq'.g.used = NextIdx(vq.g.used),
         vq'.g.uwrap = NextWrap(vq.g.used, vq.g.uwrap)
  PROVE  /\ \A i \in Slots : i # u =>
              Off(i)' = Off(i) - 1 /\ Lap(i)' = Lap(i)
         /\ Off(u)' = N - 1 /\ Lap(u)' = 1 - vq.g.uwrap
         /\ \A i \in Slots, w \in {0, 1} :
              Ahead(i, w) \in 1 .. N => Ahead(i, w)' = Ahead(i, w) - 1
<1>1. vq.g.used \in Slots /\ vq.g.uwrap \in {0, 1}
  BY DEF Virtq
<1>2. /\ vq'.g.used = IF u + 1 >= N THEN 0 ELSE u + 1
      /\ vq'.g.uwrap = IF u + 1 >= N THEN 1 - vq.g.uwrap ELSE vq.g.uwrap
  BY DEF NextIdx, NextWrap
<1>3. \A i \in Slots : i # u => Off(i)' = Off(i) - 1 /\ Lap(i)' = Lap(i)
  BY <1>1, <1>2, PackedAssumption DEF Off, Lap, Slots
<1>4. Off(u)' = N - 1 /\ Lap(u)' = 1 - vq.g.uwrap
  BY <1>1, <1>2, PackedAssumption DEF Off, Lap, Slots
<1>5. \A i \in Slots, w \in {0, 1} :
        Ahead(i, w) \in 1 .. N => Ahead(i, w)' = Ahead(i, w) - 1
  <2> SUFFICES ASSUME NEW i \in Slots, NEW w \in {0, 1},
                      Ahead(i, w) \in 1 .. N
               PROVE  Ahead(i, w)' = Ahead(i, w) - 1
    OBVIOUS
  <2>1. CASE u + 1 >= N
    BY <2>1, <1>1, <1>2, PackedAssumption DEF Ahead, Slots
  <2>2. CASE ~(u + 1 >= N)
    BY <2>2, <1>1, <1>2, PackedAssumption DEF Ahead, Slots
  <2> QED BY <2>1, <2>2
<1> QED BY <1>3, <1>4, <1>5

-----------------------------------------------------------------------------
(***************************************************************************)
(* Every step keeps the ring.                                              *)
(***************************************************************************)
\* The parts of the state the ring invariant is about.
RingSame ==
  /\ vq'.g = vq.g /\ vq'.h = vq.h /\ vq'.desc = vq.desc
  /\ vq'.state = vq.state /\ vq' \in Virtq /\ held' = held

\* A step that leaves those parts alone keeps the ring invariant.
LEMMA RingStays ==
  ASSUME RingInv, RingSame, Reclaiming' <=> Reclaiming
  PROVE  RingInv' /\ InUse' = InUse /\ Done' = Done
<1>1. /\ \A i \in Slots : Off(i)' = Off(i) /\ Lap(i)' = Lap(i)
      /\ InUse' = InUse /\ Done' = Done
  BY UsedStays DEF RingSame, InUse, Done, Ahead
<1>2. PosInv' /\ FlagInv' /\ HeldInv' /\ IdInv'
  BY <1>1 DEF RingInv, RingSame, PosInv, FlagInv, HeldInv, IdInv
<1>3. FreeInv'
  <2>1. PICK f \in [0 .. N - 1 -> Slots] : Lists(f)
    BY DEF RingInv, FreeInv
  <2>2. vq'.state = vq.state /\ vq'.g = vq.g
    BY DEF RingSame
  <2>3. Lists(f)'
    BY <2>1, <2>2, <1>1 DEF Lists
  <2> QED BY <2>3 DEF FreeInv
<1> QED BY <1>1, <1>2, <1>3 DEF RingInv

\* Storing an event is such a step.
LEMMA IntrSame ==
  ASSUME vq \in Virtq, NEW n \in 0 .. N, vq' = vring_packed_intr(vq, n),
         held' = held
  PROVE  RingSame /\ vq'.device_event = vq.device_event
<1>1. PICK v, w : v = vq /\ w = vq'
  OBVIOUS
<1>2. v \in Virtq /\ w = vring_packed_intr(v, n)
  BY <1>1
<1>3. /\ w \in Virtq /\ w.desc = v.desc /\ w.g = v.g /\ w.h = v.h
      /\ w.state = v.state /\ w.device_event = v.device_event
  BY <1>2, IntrEffect
<1> QED BY <1>1, <1>3 DEF RingSame

\* The driver's free count, as buffers leave and come back.
LEMMA HeldCount ==
  ASSUME NEW S \in SUBSET Bufs
  PROVE  /\ IsFiniteSet(S) /\ Cardinality(S) \in 0 .. N
         /\ \A b \in S : Cardinality(S \ {b}) = Cardinality(S) - 1
         /\ \A b \in Bufs \ S : Cardinality(S \cup {b}) = Cardinality(S) + 1
         /\ Cardinality(S) = N => S = Bufs
         /\ Cardinality(S) = 0 <=> S = {}
<1>1. IsFiniteSet(S) /\ Cardinality(S) <= N /\ Cardinality(S) \in Nat
      /\ (Cardinality(S) = N => S = Bufs)
  BY QueueAssumption, FS_Subset, FS_CardinalityType
<1>2. \A b \in S : Cardinality(S \ {b}) = Cardinality(S) - 1
  BY <1>1, FS_RemoveElement
<1>3. \A b \in Bufs \ S : Cardinality(S \cup {b}) = Cardinality(S) + 1
  BY <1>1, FS_AddElement
<1>4. Cardinality(S) = 0 <=> S = {}
  BY <1>1, FS_EmptySet
<1> QED BY <1>1, <1>2, <1>3, <1>4, PackedAssumption

\* A buffer is added: txp, rxp.
LEMMA AddKeepsRing ==
  ASSUME RingInv, ~Reclaiming, ~Reclaiming',
         NEW b \in held, NEW bad \in BOOLEAN,
         vq' = vring_packed_add(vq, b, bad), held' = held \ {b}
  PROVE  /\ RingInv' /\ InUse' = InUse + 1 /\ Done' = Done /\ vq'.h = vq.h
         /\ vq'.g.used = vq.g.used /\ vq'.g.uwrap = vq.g.uwrap
         /\ vq'.device_event = vq.device_event
         /\ vq'.driver_event = vq.driver_event
<1> DEFINE a  == vq.g.avail
           id == vq.g.free_id
<1>0. vq \in Virtq /\ b \in Bufs
  BY DEF RingInv, PosInv, HeldInv
<1>1. /\ vq' \in Virtq
      /\ vq'.desc = [vq.desc EXCEPT ![a] =
                        [addr |-> b, id |-> id, bad |-> bad,
                         avail |-> vq.g.awrap, used |-> 1 - vq.g.awrap]]
      /\ vq'.state = [vq.state EXCEPT ![id] =
                        [busy |-> TRUE, next |-> vq.state[id].next,
                         cookie |-> b]]
      /\ vq'.g.free_id = vq.state[id].next
      /\ vq'.g.avail = NextIdx(a) /\ vq'.g.awrap = NextWrap(a, vq.g.awrap)
      /\ vq'.g.used = vq.g.used /\ vq'.g.uwrap = vq.g.uwrap
      /\ vq'.h = vq.h /\ vq'.driver_event = vq.driver_event
      /\ vq'.device_event = vq.device_event
  BY <1>0, AddEffect
<1>2. /\ InUse = N - Cardinality(held) /\ Cardinality(held) >= 1
      /\ Cardinality(held') = Cardinality(held) - 1
      /\ Cardinality(held) \in Nat
  BY HeldCount DEF RingInv, HeldInv
<1>3. /\ a \in Slots /\ id \in Slots /\ vq.g.awrap \in {0, 1}
      /\ vq.desc \in [Slots -> Desc] /\ vq.state \in [Slots -> IdState]
      /\ vq.h.used \in Slots /\ vq.h.uwrap \in {0, 1}
      /\ vq.g.used \in Slots /\ vq.g.uwrap \in {0, 1}
  BY <1>0 DEF Virtq, IdState
<1>4. /\ InUse \in 0 .. N - 1 /\ Off(a) = InUse /\ Lap(a) = vq.g.awrap
      /\ N \in Nat
      /\ \A i \in Slots : Off(i) \in 0 .. N - 1
      /\ \A i \in Slots : Off(i) = InUse <=> i = a
  BY <1>0, <1>2, <1>3, Offsets, PackedAssumption DEF RingInv, PosInv, InUse
<1>5. InUse' = InUse + 1 /\ Done' = Done
  BY <1>0, <1>1, <1>3, <1>4, AheadNext, UsedStays DEF InUse, Done
<1>6. \A i \in Slots : Off(i)' = Off(i) /\ Lap(i)' = Lap(i)
  BY <1>1, UsedStays
<1>7. PosInv'
  BY <1>1, <1>4, <1>5 DEF RingInv, PosInv
<1>8. FlagInv'
  BY <1>1, <1>3, <1>4, <1>5, <1>6 DEF RingInv, FlagInv, PosInv
<1>a. \A i \in Slots : Off(i)' < InUse' <=> Off(i) < InUse \/ i = a
  BY <1>4, <1>5, <1>6
<1>b. /\ vq'.desc[a].addr = b /\ vq'.desc[a].id = id
      /\ \A i \in Slots : i # a => vq'.desc[i] = vq.desc[i]
  BY <1>1, <1>3
<1>c. ~(Off(a) < InUse)
  BY <1>4
<1>9. HeldInv'
  <2>1. \A i \in Slots : Off(i)' < InUse' => vq'.desc[i].addr \notin held'
    BY <1>a, <1>b, <1>3 DEF RingInv, HeldInv
  <2>2. \A i, j \in Slots : Off(i)' < InUse' /\ Off(j)' < InUse' /\ i # j
                              => vq'.desc[i].addr # vq'.desc[j].addr
    BY <1>a, <1>b, <1>c, <1>3 DEF RingInv, HeldInv
  <2>3. held' \subseteq Bufs /\ InUse' = N - Cardinality(held')
    BY <1>2, <1>4, <1>5 DEF RingInv, HeldInv
  <2> QED BY <2>1, <2>2, <2>3 DEF HeldInv
<1>10. PICK f \in [0 .. N - 1 -> Slots] : Lists(f)
  BY DEF RingInv, FreeInv
<1>11. f[0] = id /\ ~vq.state[id].busy
  BY <1>4, <1>10 DEF Lists
<1>12. IdInv'
  <2>1. /\ vq'.state[id].busy /\ vq'.state[id].cookie = b
        /\ \A x \in Slots : x # id => vq'.state[x] = vq.state[x]
    BY <1>1, <1>3
  <2>2. \A i \in Slots : vq.desc[i].id \in Slots
    BY <1>3 DEF Desc
  <2>3. \A i \in Slots : Off(i)' < InUse' =>
          /\ vq'.state[vq'.desc[i].id].busy
          /\ vq'.state[vq'.desc[i].id].cookie = vq'.desc[i].addr
    <3> SUFFICES ASSUME NEW i \in Slots, Off(i)' < InUse'
                 PROVE  /\ vq'.state[vq'.desc[i].id].busy
                        /\ vq'.state[vq'.desc[i].id].cookie = vq'.desc[i].addr
      OBVIOUS
    <3>1. CASE i = a
      BY <3>1, <1>b, <2>1
    <3>2. CASE i # a
      <4>1. /\ Off(i) < InUse /\ vq'.desc[i] = vq.desc[i]
            /\ vq.desc[i].id \in Slots
        BY <3>2, <1>a, <1>b, <2>2
      <4>2. /\ vq.state[vq.desc[i].id].busy
            /\ vq.state[vq.desc[i].id].cookie = vq.desc[i].addr
        BY <4>1 DEF RingInv, IdInv
      <4>3. vq.desc[i].id # id
        BY <4>2, <1>11
      <4> QED BY <4>1, <4>2, <4>3, <2>1
    <3> QED BY <3>1, <3>2
  <2>4. \A i, j \in Slots : Off(i)' < InUse' /\ Off(j)' < InUse' /\ i # j
                              => vq'.desc[i].id # vq'.desc[j].id
    BY <1>a, <1>b, <2>2, <1>11 DEF RingInv, IdInv
  <2>5. \A x \in Slots : vq'.state[x].busy =>
          \E i \in Slots : Off(i)' < InUse' /\ vq'.desc[i].id = x
    BY <1>a, <1>b, <1>c, <2>1, <1>3 DEF RingInv, IdInv
  <2> QED BY <2>3, <2>4, <2>5 DEF IdInv
<1>13. FreeInv'
  <2> DEFINE e == [k \in 0 .. N - 1 |-> IF k < N - 1 THEN f[k + 1] ELSE f[k]]
  <2>1. e \in [0 .. N - 1 -> Slots]
    BY <1>4
  <2>2. Lists(e)'
    <3> DEFINE top == N - InUse - 1
    <3>1. top \in 0 .. N - 1 /\ N - InUse' = top
      BY <1>4, <1>5
    <3>2. \A k \in 0 .. top - 1 : e[k] = f[k + 1] /\ k + 1 \in 0 .. top
      BY <3>1, <1>4
    <3>3. /\ vq'.state[id].busy
          /\ \A x \in Slots : /\ x # id => vq'.state[x] = vq.state[x]
                              /\ vq'.state[x].next = vq.state[x].next
      BY <1>1, <1>3 DEF IdState
    <3>4. /\ \A j, k \in 0 .. top : j # k => f[j] # f[k]
          /\ \A k \in 0 .. top : ~vq.state[f[k]].busy /\ f[k] \in Slots
          /\ \A x \in Slots : ~vq.state[x].busy =>
               \E k \in 0 .. top : f[k] = x
          /\ \A k \in 0 .. top - 1 : vq.state[f[k]].next = f[k + 1]
      <4>1. \A k \in 0 .. top : f[k] \in Slots
        BY <3>1, <1>4
      <4>2. \A k \in 0 .. top - 1 : k \in 0 .. N - InUse - 2
        BY <3>1, <1>4
      <4> QED BY <1>10, <4>1, <4>2 DEF Lists
    <3> HIDE DEF e, top
    <3>5. \A j, k \in 0 .. top - 1 : j # k => e[j] # e[k]
      <4> SUFFICES ASSUME NEW j \in 0 .. top - 1, NEW k \in 0 .. top - 1,
                          j # k
                   PROVE  e[j] # e[k]
        OBVIOUS
      <4>1. j + 1 # k + 1
        BY <3>1, <1>4
      <4> QED BY <4>1, <3>2, <3>4
    <3>6. \A k \in 0 .. top - 1 : ~vq'.state[e[k]].busy
      BY <3>1, <3>2, <3>3, <3>4, <1>11
    <3>7. \A x \in Slots : ~vq'.state[x].busy =>
            \E k \in 0 .. top - 1 : e[k] = x
      <4> SUFFICES ASSUME NEW x \in Slots, ~vq'.state[x].busy
                   PROVE  \E k \in 0 .. top - 1 : e[k] = x
        OBVIOUS
      <4>1. PICK k \in 0 .. top : f[k] = x
        BY <3>3, <3>4
      <4>2. k # 0 /\ k - 1 \in 0 .. top - 1 /\ (k - 1) + 1 = k
        BY <4>1, <3>1, <3>3, <1>11
      <4> QED BY <4>1, <4>2, <3>2
    <3>8. top > 0 => e[0] = vq'.g.free_id
      BY <3>1, <3>2, <3>4, <1>1, <1>11
    <3>9. \A k \in 0 .. top - 2 : vq'.state[e[k]].next = e[k + 1]
      BY <3>1, <3>2, <3>3, <3>4
    <3> QED BY <3>1, <3>5, <3>6, <3>7, <3>8, <3>9, <1>4, <1>5 DEF Lists
  <2> QED BY <2>1, <2>2 DEF FreeInv
<1> QED BY <1>1, <1>5, <1>7, <1>8, <1>9, <1>12, <1>13 DEF RingInv

\* A buffer is taken back: txc, rxc while the backend is done with it, txr and
\* rxr after the backend is gone.
LEMMA GetKeepsRing ==
  ASSUME RingInv, Reclaiming' <=> Reclaiming, InUse >= 1,
         ~Reclaiming => Done >= 1, vq' = vring_packed_get(vq),
         held' = held \cup {GotCookie(vq)}
  PROVE  /\ RingInv' /\ InUse' = InUse - 1
         /\ ~Reclaiming => Done' = Done - 1
         /\ vq'.h = vq.h /\ vq'.g.used = NextIdx(vq.g.used)
         /\ vq'.g.uwrap = NextWrap(vq.g.used, vq.g.uwrap)
         /\ vq'.device_event = vq.device_event
         /\ vq'.driver_event = vq.driver_event
         /\ GotCookie(vq) = GotAddr(vq) /\ GotCookie(vq) \in Bufs \ held
<1>0. vq \in Virtq
  BY DEF RingInv, PosInv
<1>d. PICK u, id, b : u = vq.g.used /\ id = vq.desc[u].id /\ b = GotCookie(vq)
  OBVIOUS
<1>1. /\ vq' \in Virtq /\ id \in Slots
      /\ vq'.desc = vq.desc
      /\ ~vq'.state[id].busy /\ vq'.state[id].next = vq.g.free_id
      /\ \A x \in Slots : x # id => vq'.state[x] = vq.state[x]
      /\ vq'.g.free_id = id
      /\ vq'.g.used = NextIdx(u) /\ vq'.g.uwrap = NextWrap(u, vq.g.uwrap)
      /\ vq'.g.avail = vq.g.avail /\ vq'.g.awrap = vq.g.awrap
      /\ vq'.h = vq.h /\ vq'.driver_event = vq.driver_event
      /\ vq'.device_event = vq.device_event
  <2>1. PICK v, w : v = vq /\ w = vq'
    OBVIOUS
  <2>2. v \in Virtq /\ w = vring_packed_get(v) /\ id = v.desc[v.g.used].id
    BY <2>1, <1>0, <1>d
  <2>3. /\ w \in Virtq /\ id \in Slots
        /\ w.desc = v.desc
        /\ ~w.state[id].busy /\ w.state[id].next = v.g.free_id
        /\ \A x \in Slots : x # id => w.state[x] = v.state[x]
        /\ w.g.free_id = id
        /\ w.g.used = NextIdx(v.g.used)
        /\ w.g.uwrap = NextWrap(v.g.used, v.g.uwrap)
        /\ w.g.avail = v.g.avail /\ w.g.awrap = v.g.awrap
        /\ w.h = v.h /\ w.driver_event = v.driver_event
        /\ w.device_event = v.device_event
    BY <2>2, GetEffect
  <2> QED BY <2>1, <2>3, <1>d
<1>2. N \in Nat /\ InUse \in 1 .. N /\ (~Reclaiming => Done \in 1 .. InUse)
  BY PackedAssumption DEF RingInv, PosInv
<1>e. /\ u \in Slots /\ Off(u) = 0 /\ Lap(u) = vq.g.uwrap
      /\ vq.g.uwrap \in {0, 1}
      /\ vq.g.avail \in Slots /\ vq.g.awrap \in {0, 1}
      /\ vq.h.used \in Slots /\ vq.h.uwrap \in {0, 1}
      /\ \A i \in Slots : Off(i) \in 0 .. N - 1 /\ Lap(i) \in {0, 1}
      /\ \A i \in Slots : i # u => Off(i) # 0
  BY <1>0, <1>d, Offsets
<1>3. /\ vq.desc \in [Slots -> Desc] /\ vq.state \in [Slots -> IdState]
      /\ vq.g.free_id \in Slots
      /\ \A i \in Slots : vq.desc[i].id \in Slots /\ vq.desc[i].addr \in Bufs
  BY <1>0 DEF Virtq, IdState, Desc
<1>f. /\ \A i \in Slots : i # u => Off(i)' = Off(i) - 1 /\ Lap(i)' = Lap(i)
      /\ \A i \in Slots : i = u => Off(i)' = N - 1 /\ Lap(i)' = 1 - Lap(i)
      /\ \A i \in Slots, w \in {0, 1} :
           Ahead(i, w) \in 1 .. N => Ahead(i, w)' = Ahead(i, w) - 1
  <2>1. vq'.g.used = NextIdx(vq.g.used)
        /\ vq'.g.uwrap = NextWrap(vq.g.used, vq.g.uwrap)
    BY <1>1, <1>d
  <2>2. /\ \A i \in Slots : i # u =>
             Off(i)' = Off(i) - 1 /\ Lap(i)' = Lap(i)
        /\ Off(u)' = N - 1 /\ Lap(u)' = 1 - vq.g.uwrap
        /\ \A i \in Slots, w \in {0, 1} :
             Ahead(i, w) \in 1 .. N => Ahead(i, w)' = Ahead(i, w) - 1
    BY <2>1, <1>0, <1>d, UsedMoves
  <2>3. \A i \in Slots : i = u => Off(i)' = Off(u)' /\ Lap(i)' = Lap(u)'
    BY DEF Off, Lap
  <2> QED BY <2>2, <2>3, <1>e
<1>4. /\ \A i \in Slots : i # u => Off(i)' = Off(i) - 1 /\ Lap(i)' = Lap(i)
      /\ InUse' = InUse - 1 /\ (~Reclaiming => Done' = Done - 1)
  <2>1. InUse' = InUse - 1
    BY <1>f, <1>1, <1>2, <1>e DEF InUse
  <2>2. ASSUME ~Reclaiming PROVE Done' = Done - 1
    <3>1. Done \in 1 .. N /\ vq'.h.used = vq.h.used
          /\ vq'.h.uwrap = vq.h.uwrap
      BY <1>1, <1>2, <2>2
    <3> QED BY <3>1, <1>f, <1>e DEF Done
  <2> QED BY <2>1, <2>2, <1>f
<1>5. \A i \in Slots : i = u => Off(i)' = N - 1 /\ Lap(i)' = 1 - Lap(i)
  BY <1>f
<1>6. /\ vq.state[id].busy /\ b = vq.desc[u].addr /\ b \notin held
      /\ b \in Bufs /\ GotAddr(vq) = b
  <2>1. Off(u) < InUse /\ u \in Slots
    BY <1>2, <1>e
  <2>2. /\ vq.state[id].busy /\ vq.state[id].cookie = vq.desc[u].addr
        /\ vq.desc[u].addr \notin held
    BY <2>1, <1>d DEF RingInv, IdInv, HeldInv
  <2> QED BY <2>2, <1>3, <1>d, <1>e DEF GotCookie, GotAddr
<1>7. /\ Cardinality(held') = Cardinality(held) + 1 /\ held' \subseteq Bufs
      /\ InUse = N - Cardinality(held) /\ Cardinality(held) \in Nat
  BY <1>6, <1>d, HeldCount DEF RingInv, HeldInv
<1>a. \A i \in Slots : Off(i)' < InUse' <=> Off(i) < InUse /\ i # u
  BY <1>2, <1>e, <1>4, <1>5
<1>8. PosInv'
  BY <1>1, <1>2, <1>4 DEF RingInv, PosInv
<1>9. FlagInv'
  <2>1. \A i \in Slots : i # u =>
          /\ vq'.desc[i] = vq.desc[i] /\ Lap(i)' = Lap(i)
          /\ Off(i)' < InUse' <=> Off(i) < InUse
          /\ ~Reclaiming => (Off(i)' < Done' <=> Off(i) < Done)
    BY <1>1, <1>2, <1>e, <1>4
  <2>2. /\ vq'.desc[u] = vq.desc[u]
        /\ vq.desc[u].avail = Lap(u)
        /\ ~Reclaiming => vq.desc[u].used = Lap(u)
    <3>1. u \in Slots /\ Off(u) < InUse /\ (~Reclaiming => Off(u) < Done)
      BY <1>2, <1>e
    <3> QED BY <3>1, <1>1 DEF RingInv, FlagInv
  <2>3. \A i \in Slots : i = u =>
          /\ 1 - Lap(i)' = Lap(i) /\ ~(Off(i)' < InUse')
          /\ ~Reclaiming => ~(Off(i)' < Done')
    BY <1>2, <1>e, <1>4, <1>5
  <2>4. \A i \in Slots : i = u =>
          /\ vq'.desc[i].avail =
               IF Off(i)' < InUse' THEN Lap(i)' ELSE 1 - Lap(i)'
          /\ ~Reclaiming =>
             vq'.desc[i].used =
               IF Off(i)' < Done' THEN Lap(i)' ELSE 1 - Lap(i)'
          /\ Reclaiming /\ Off(i)' < InUse' => vq'.desc[i].used = 1 - Lap(i)'
    BY <2>2, <2>3
  <2>5. \A i \in Slots : i # u =>
          /\ vq'.desc[i].avail =
               IF Off(i)' < InUse' THEN Lap(i)' ELSE 1 - Lap(i)'
          /\ ~Reclaiming =>
             vq'.desc[i].used =
               IF Off(i)' < Done' THEN Lap(i)' ELSE 1 - Lap(i)'
          /\ Reclaiming /\ Off(i)' < InUse' => vq'.desc[i].used = 1 - Lap(i)'
    BY <2>1 DEF RingInv, FlagInv
  <2> QED BY <2>4, <2>5 DEF FlagInv
<1>10. HeldInv'
  <2>1. InUse' = N - Cardinality(held')
    BY <1>2, <1>4, <1>7
  <2>2. \A i \in Slots : Off(i)' < InUse' => vq'.desc[i].addr \notin held'
    <3> SUFFICES ASSUME NEW i \in Slots, Off(i)' < InUse'
                 PROVE  vq.desc[i].addr \notin held \cup {b}
      BY <1>1, <1>d
    <3>1. Off(i) < InUse /\ i # u /\ Off(u) < InUse /\ u \in Slots
      BY <1>a, <1>2, <1>e
    <3> QED BY <3>1, <1>6 DEF RingInv, HeldInv
  <2>3. \A i, j \in Slots : Off(i)' < InUse' /\ Off(j)' < InUse' /\ i # j
                              => vq'.desc[i].addr # vq'.desc[j].addr
    BY <1>a, <1>1 DEF RingInv, HeldInv
  <2> QED BY <1>7, <2>1, <2>2, <2>3 DEF HeldInv
<1>b. /\ ~vq'.state[id].busy /\ vq'.state[id].next = vq.g.free_id
      /\ \A x \in Slots : x # id => vq'.state[x] = vq.state[x]
  BY <1>1, <1>3
<1>c. vq'.desc = vq.desc /\ id \in Slots /\ vq'.g.free_id = id
  BY <1>1
<1>11. IdInv'
  <2>1. \A i \in Slots : Off(i) < InUse /\ i # u => vq.desc[i].id # id
    <3>1. Off(u) < InUse /\ u \in Slots
      BY <1>2, <1>e
    <3> QED BY <3>1, <1>d DEF RingInv, IdInv
  <2>2. \A i \in Slots : Off(i)' < InUse' =>
          /\ vq'.state[vq'.desc[i].id].busy
          /\ vq'.state[vq'.desc[i].id].cookie = vq'.desc[i].addr
    BY <1>a, <1>b, <1>c, <1>3, <2>1 DEF RingInv, IdInv
  <2>3. \A i, j \in Slots : Off(i)' < InUse' /\ Off(j)' < InUse' /\ i # j
                              => vq'.desc[i].id # vq'.desc[j].id
    BY <1>a, <1>1 DEF RingInv, IdInv
  <2>4. \A x \in Slots : vq'.state[x].busy =>
          \E i \in Slots : Off(i)' < InUse' /\ vq'.desc[i].id = x
    <3> SUFFICES ASSUME NEW x \in Slots, vq'.state[x].busy
                 PROVE  \E i \in Slots : Off(i)' < InUse' /\ vq'.desc[i].id = x
      OBVIOUS
    <3>1. x # id /\ vq.state[x].busy
      BY <1>b
    <3>2. PICK i \in Slots : Off(i) < InUse /\ vq.desc[i].id = x
      BY <3>1 DEF RingInv, IdInv
    <3>3. i # u
      BY <3>1, <3>2, <1>d
    <3> QED BY <3>2, <3>3, <1>a, <1>c
  <2> QED BY <2>2, <2>3, <2>4 DEF IdInv
<1>12. FreeInv'
  <2>1. PICK f \in [0 .. N - 1 -> Slots] : Lists(f)
    BY DEF RingInv, FreeInv
  <2>0. PICK x0 \in Slots : x0 = id
    BY <1>1
  <2> DEFINE e == [k \in 0 .. N - 1 |-> IF k = 0 THEN x0 ELSE f[k - 1]]
             top == N - InUse
  <2>2. e \in [0 .. N - 1 -> Slots]
    <3>1. \A k \in 0 .. N - 1 : k # 0 => k - 1 \in 0 .. N - 1
      BY <1>2
    <3>2. \A k \in 0 .. N - 1 : (IF k = 0 THEN x0 ELSE f[k - 1]) \in Slots
      BY <3>1
    <3> QED BY <3>2
  <2>3. top \in 0 .. N - 1 /\ N - InUse' = top + 1
    BY <1>2, <1>4
  <2>4. /\ e[0] = id
        /\ \A k \in 1 .. top : e[k] = f[k - 1] /\ k - 1 \in 0 .. top - 1
    <3>1. 0 \in 0 .. N - 1
      BY <2>3, <1>2
    <3>2. e[0] = id
      BY <3>1, <2>0
    <3> SUFFICES ASSUME NEW k \in 1 .. top
                 PROVE  e[k] = f[k - 1] /\ k - 1 \in 0 .. top - 1
      BY <3>2
    <3>3. k \in 0 .. N - 1 /\ k # 0 /\ k - 1 \in 0 .. top - 1
      <4> HIDE DEF top
      <4> QED BY <2>3, <1>2
    <3> QED BY <3>3
  <2>5. /\ \A j, k \in 0 .. top - 1 : j # k => f[j] # f[k]
        /\ \A k \in 0 .. top - 1 : ~vq.state[f[k]].busy /\ f[k] \in Slots
        /\ \A x \in Slots : ~vq.state[x].busy =>
             \E k \in 0 .. top - 1 : f[k] = x
        /\ top > 0 => f[0] = vq.g.free_id
        /\ \A k \in 0 .. top - 2 : vq.state[f[k]].next = f[k + 1]
    <3>1. \A k \in 0 .. top - 1 : f[k] \in Slots
      <4> HIDE DEF top
      <4> QED BY <2>3, <1>2
    <3>2. InUse < N <=> top > 0
      BY <1>2
    <3> QED BY <2>1, <3>1, <3>2 DEF Lists
  <2> HIDE DEF e, top
  <2>6. \A k \in 0 .. top : k = 0 \/ k \in 1 .. top
    BY <2>3, <1>2
  <2>7. \A k \in 1 .. top : e[k] # id /\ e[k] \in Slots
    BY <2>4, <2>5, <1>6
  <2>8. \A j, k \in 0 .. top : j # k => e[j] # e[k]
    <3>1. \A j, k \in 1 .. top : j # k => e[j] # e[k]
      <4> SUFFICES ASSUME NEW j \in 1 .. top, NEW k \in 1 .. top, j # k
                   PROVE  e[j] # e[k]
        OBVIOUS
      <4>1. j - 1 # k - 1
        BY <2>3, <1>2
      <4> QED BY <4>1, <2>4, <2>5
    <3> QED BY <3>1, <2>4, <2>6, <2>7
  <2>9. \A k \in 0 .. top : ~vq'.state[e[k]].busy
    BY <2>4, <2>5, <2>6, <2>7, <1>b
  <2>10. \A x \in Slots : ~vq'.state[x].busy => \E k \in 0 .. top : e[k] = x
    <3> SUFFICES ASSUME NEW x \in Slots, ~vq'.state[x].busy, x # id
                 PROVE  \E k \in 0 .. top : e[k] = x
      <4>1. 0 \in 0 .. top
        BY <2>3, <1>2
      <4> QED BY <4>1, <2>4
    <3>1. PICK k \in 0 .. top - 1 : f[k] = x
      BY <2>5, <1>b
    <3>2. k + 1 \in 1 .. top /\ k + 1 \in 0 .. top /\ (k + 1) - 1 = k
      BY <2>3, <1>2
    <3> QED BY <3>1, <3>2, <2>4
  <2>11. \A k \in 0 .. top - 1 : vq'.state[e[k]].next = e[k + 1]
    <3> SUFFICES ASSUME NEW k \in 0 .. top - 1
                 PROVE  vq'.state[e[k]].next = e[k + 1]
      OBVIOUS
    <3>0. k + 1 \in 1 .. top /\ (k + 1) - 1 = k /\ k \in 0 .. top /\ top > 0
      BY <2>3, <1>2
    <3>1. CASE k = 0
      BY <3>0, <3>1, <2>4, <2>5, <1>b
    <3>2. CASE k # 0
      <4>1. k \in 1 .. top /\ k - 1 \in 0 .. top - 2 /\ (k - 1) + 1 = k
        BY <3>2, <2>3, <1>2
      <4>2. e[k] = f[k - 1] /\ e[k + 1] = f[k]
        BY <4>1, <3>0, <2>4
      <4>3. vq.state[f[k - 1]].next = f[k]
        BY <4>1, <2>5
      <4> QED BY <4>1, <4>2, <4>3, <2>7, <1>b
    <3> QED BY <3>1, <3>2
  <2>12. /\ N - InUse' - 1 = top /\ N - InUse' - 2 = top - 1
    BY <2>3, <1>2, <1>4
  <2>13. Lists(e)'
    BY <2>4, <2>8, <2>9, <2>10, <2>11, <2>12, <1>c DEF Lists
  <2> QED BY <2>2, <2>13 DEF FreeInv
<1> QED BY <1>d, <1>1, <1>4, <1>6, <1>8, <1>9, <1>10, <1>11, <1>12
        DEF RingInv

\* The backend uses a descriptor: txq_drain, rxq_push.
LEMMA UseKeepsRing ==
  ASSUME RingInv, Served, ~Reclaiming, ~Reclaiming', Done < InUse,
         vq' = UseInOrder(vq), held' = held
  PROVE  RingInv' /\ InUse' = InUse /\ Done' = Done + 1 /\ Served'
<1> DEFINE a == vq.h.avail
<1>0. vq \in Virtq /\ vq.h.used = vq.h.avail /\ vq.h.uwrap = vq.h.awrap
  BY DEF RingInv, PosInv, Served
<1>1. /\ vq' \in Virtq
      /\ \A i \in Slots : i # a => vq'.desc[i] = vq.desc[i]
      /\ vq'.desc[a].addr = vq.desc[a].addr
      /\ vq'.desc[a].id = vq.desc[a].id
      /\ vq'.desc[a].avail = vq.h.awrap
      /\ vq'.desc[a].used = vq.h.awrap
      /\ vq'.h.avail = NextIdx(a) /\ vq'.h.used = NextIdx(a)
      /\ vq'.h.awrap = NextWrap(a, vq.h.awrap)
      /\ vq'.h.uwrap = NextWrap(a, vq.h.awrap)
      /\ vq'.g = vq.g /\ vq'.state = vq.state
  BY <1>0, UseEffect
<1>2. /\ a \in Slots /\ vq.h.awrap \in {0, 1} /\ N \in Nat
      /\ InUse \in 0 .. N /\ Done \in 0 .. InUse /\ Done \in 0 .. N - 1
      /\ Off(a) = Done /\ Lap(a) = vq.h.awrap
      /\ \A i \in Slots : Off(i) \in 0 .. N - 1
      /\ \A i \in Slots : Off(i) = Done <=> i = a
  <2>1. InUse \in 0 .. N /\ Done \in 0 .. InUse
    BY DEF RingInv, PosInv
  <2> QED BY <2>1, <1>0, Offsets DEF Done
<1>3. InUse' = InUse /\ Done' = Done + 1
  BY <1>0, <1>1, <1>2, AheadNext, UsedStays DEF InUse, Done
<1>4. \A i \in Slots : Off(i)' = Off(i) /\ Lap(i)' = Lap(i)
  BY <1>1, UsedStays
<1>5. PosInv'
  BY <1>1, <1>2, <1>3 DEF PosInv
<1>6. FlagInv'
  <2>1. \A i \in Slots : i # a => (Off(i)' < Done' <=> Off(i) < Done)
    BY <1>2, <1>3, <1>4
  <2>2. Off(a) < InUse' /\ Off(a) < Done'
    BY <1>2, <1>3
  <2> QED BY <2>1, <2>2, <1>1, <1>2, <1>3, <1>4 DEF RingInv, FlagInv
<1>7. \A i \in Slots : vq'.desc[i].addr = vq.desc[i].addr
                       /\ vq'.desc[i].id = vq.desc[i].id
  BY <1>1
<1>8. HeldInv' /\ IdInv'
  <2>1. HeldInv'
    BY <1>3, <1>4, <1>7 DEF RingInv, HeldInv
  <2>2. vq'.state = vq.state
    BY <1>1
  <2>3. IdInv'
    BY <2>2, <1>3, <1>4, <1>7 DEF RingInv, IdInv
  <2> QED BY <2>1, <2>3
<1>9. FreeInv'
  BY <1>1, <1>3 DEF RingInv, FreeInv, Lists
<1> QED BY <1>1, <1>3, <1>5, <1>6, <1>8, <1>9 DEF RingInv, Served

-----------------------------------------------------------------------------
(***************************************************************************)
(* What the two sides read off the flags, and the life of the device.      *)
(***************************************************************************)
\* The flags tell the guest whether its next descriptor is used or pending,
\* and the backend whether its next one is available.
LEMMA Reads ==
  ASSUME RingInv
  PROVE  /\ ~Reclaiming => (vring_packed_more_used(vq) <=> Done >= 1)
         /\ Served /\ ~Reclaiming =>
              (vring_packed_more_avail(vq) <=> Done < InUse)
         /\ Reclaiming => (vring_packed_more_pending(vq) <=> InUse >= 1)
         /\ InUse >= 1 => ~vring_packed_get_fails(vq)
         /\ InUse \in 0 .. N /\ (~Reclaiming => Done \in 0 .. InUse)
<1> DEFINE u == vq.g.used
           a == vq.h.avail
<1>0. vq \in Virtq /\ InUse \in 0 .. N /\ (~Reclaiming => Done \in 0 .. InUse)
  BY DEF RingInv, PosInv
<1>1. /\ u \in Slots /\ a \in Slots /\ vq.g.uwrap \in {0, 1} /\ N \in Nat
      /\ vq.h.awrap \in {0, 1} /\ Off(u) = 0 /\ Lap(u) = vq.g.uwrap
      /\ \A i \in Slots : Lap(i) \in {0, 1}
  BY <1>0, Offsets
<1>2. /\ vq.desc[u].avail = IF 0 < InUse THEN vq.g.uwrap ELSE 1 - vq.g.uwrap
      /\ ~Reclaiming =>
           vq.desc[u].used = IF 0 < Done THEN vq.g.uwrap ELSE 1 - vq.g.uwrap
      /\ Reclaiming /\ 0 < InUse => vq.desc[u].used = 1 - vq.g.uwrap
      /\ vq.desc[u].used \in {0, 1}
  BY <1>0, <1>1 DEF RingInv, FlagInv, Virtq, Desc
<1>3. ~Reclaiming => (vring_packed_more_used(vq) <=> Done >= 1)
  BY <1>0, <1>1, <1>2
     DEF vring_packed_more_used, vring_packed_desc_is_used
<1>4. Reclaiming => (vring_packed_more_pending(vq) <=> InUse >= 1)
  BY <1>0, <1>1, <1>2 DEF vring_packed_more_pending
<1>5. ASSUME ~Reclaiming, Served
      PROVE  vring_packed_more_avail(vq) <=> Done < InUse
  <2>1. CASE Done < N
    <3>1. Off(a) = Done /\ Lap(a) = vq.h.awrap
      BY <1>0, <1>1, <1>5, <2>1, Offsets DEF Done, Served
    <3>2. /\ vq.desc[a].avail =
               IF Done < InUse THEN vq.h.awrap ELSE 1 - vq.h.awrap
          /\ vq.desc[a].used = 1 - vq.h.awrap
      BY <1>0, <1>1, <1>5, <3>1 DEF RingInv, FlagInv
    <3> QED BY <3>2, <1>1 DEF vring_packed_more_avail
  <2>2. CASE Done = N
    <3>1. a = u
      BY <1>0, <1>1, <1>5, <2>2, Offsets DEF Done, Served
    <3> QED BY <3>1, <2>2, <1>0, <1>1, <1>2, <1>5 DEF vring_packed_more_avail
  <2> QED BY <2>1, <2>2, <1>0, <1>1, <1>5
<1>6. InUse >= 1 => ~vring_packed_get_fails(vq)
  BY <1>0, <1>1 DEF RingInv, IdInv, vring_packed_get_fails
<1> QED BY <1>0, <1>3, <1>4, <1>5, <1>6

\* The device as vring_packed_init leaves it.
LEMMA InitQInv == Init => QInv /\ Served /\ InUse = 0 /\ Done = 0
<1> SUFFICES ASSUME Init PROVE QInv /\ Served /\ InUse = 0 /\ Done = 0
  OBVIOUS
<1>0. PICK b \in Bufs : vq = vring_packed_init(b)
  BY DEF Init
<1>1. N \in Nat /\ N >= 2 /\ \A i \in Slots : NextIdx(i) \in Slots
  BY PackedAssumption, QueueAssumption DEF Slots, NextIdx
<1>2. vq \in Virtq
  BY <1>0, <1>1 DEF vring_packed_init, Virtq, Event, Desc, Slots
<1>3. /\ vq.g.used = 0 /\ vq.g.avail = 0 /\ vq.g.uwrap = 1 /\ vq.g.awrap = 1
      /\ vq.h.used = 0 /\ vq.h.avail = 0 /\ vq.h.uwrap = 1 /\ vq.h.awrap = 1
      /\ vq.g.free_id = 0
      /\ \A i \in Slots : vq.desc[i].avail = 0 /\ vq.desc[i].used = 0
      /\ \A i \in Slots : ~vq.state[i].busy /\ vq.state[i].next = NextIdx(i)
  BY <1>0 DEF vring_packed_init
<1>4. /\ InUse = 0 /\ Done = 0 /\ ~Reclaiming
      /\ \A i \in Slots : Off(i) = i /\ Lap(i) = 1
  BY <1>1, <1>3 DEF InUse, Done, Ahead, Off, Lap, Reclaiming, Init, Slots
<1>5. PosInv /\ FlagInv /\ IdInv
  BY <1>1, <1>2, <1>3, <1>4 DEF PosInv, FlagInv, IdInv, Slots
<1>6. HeldInv
  BY <1>1, <1>4, QueueAssumption DEF HeldInv, Init, Slots
<1>7. FreeInv
  <2> DEFINE f == [k \in 0 .. N - 1 |-> k]
  <2>1. f \in [0 .. N - 1 -> Slots]
    BY DEF Slots
  <2>2. Lists(f)
    <3>1. N - InUse = N /\ Slots = 0 .. N - 1 /\ 0 \in Slots
      BY <1>1, <1>4 DEF Slots
    <3>2. \A k \in Slots : f[k] = k
      BY <3>1
    <3>3. \A k \in 0 .. N - 2 : k \in Slots /\ k + 1 \in Slots
                                /\ NextIdx(k) = k + 1
      BY <1>1 DEF Slots, NextIdx
    <3> QED BY <3>1, <3>2, <3>3, <1>1, <1>3 DEF Lists
  <2> QED BY <2>1, <2>2 DEF FreeInv
<1>8. PlaceInv
  BY <1>1, <1>4, QueueAssumption DEF Init, PlaceInv
<1> QED BY <1>3, <1>4, <1>5, <1>6, <1>7, <1>8 DEF QInv, RingInv, Served

\* Reclaim starts when nothing is used.
LEMMA ReclaimBegins ==
  ASSUME RingInv, RingSame, ~Reclaiming, Reclaiming', Done = 0
  PROVE  RingInv' /\ InUse' = InUse
<1>1. /\ \A i \in Slots : Off(i)' = Off(i) /\ Lap(i)' = Lap(i)
      /\ InUse' = InUse
  BY UsedStays DEF RingSame, InUse, Ahead
<1>2. \A i \in Slots : ~(Off(i) < Done)
  BY Offsets DEF RingInv, PosInv
<1>3. PosInv' /\ FlagInv' /\ HeldInv' /\ IdInv'
  BY <1>1, <1>2 DEF RingInv, RingSame, PosInv, FlagInv, HeldInv, IdInv
<1>4. FreeInv'
  <2>1. PICK f \in [0 .. N - 1 -> Slots] : Lists(f)
    BY DEF RingInv, FreeInv
  <2>2. vq'.state = vq.state /\ vq'.g = vq.g
    BY DEF RingSame
  <2>3. Lists(f)'
    BY <2>1, <2>2, <1>1 DEF Lists
  <2> QED BY <2>3 DEF FreeInv
<1> QED BY <1>1, <1>3, <1>4 DEF RingInv

\* The driver's count of free buffers is a number.
LEMMA FreeType == ASSUME RingInv PROVE Free \in Nat
<1>1. held \ lost \in SUBSET Bufs
  BY DEF RingInv, HeldInv
<1> QED BY <1>1, HeldCount, PackedAssumption DEF Free

\* HALF_PENDING_BUFS is at least 1 and fits the ring.
LEMMA HalfPending ==
  ASSUME RingInv, PlaceInv, dir = "tx"
  PROVE  HALF_PENDING_BUFS = 1 + InUse \div 2 /\ HALF_PENDING_BUFS \in 1 .. N
<1>1. N - Free = InUse /\ InUse \in 0 .. N /\ N \in Nat /\ N >= 2
  <2>1. lost = {} /\ held \ lost = held
    BY DEF PlaceInv
  <2> QED BY <2>1, HeldCount, PackedAssumption, QueueAssumption
          DEF RingInv, HeldInv, PosInv, Free
<1>2. 1 + InUse \div 2 \in 1 .. N
  BY <1>1
<1> QED BY <1>1, <1>2 DEF HALF_PENDING_BUFS

\* Every step keeps who is where and the ring, until the interface is opened
\* a second time; what changes the ring is one buffer added, taken back or
\* used.
LEMMA NextQInv ==
  ASSUME ~MayReopen, QInv, Step
  PROVE  QInv'
<1>0. /\ PlaceInv /\ RingInv /\ vq \in Virtq /\ held \subseteq Bufs
      /\ InUse \in 0 .. N /\ (~Reclaiming => Done \in 0 .. InUse)
      /\ N \in Nat /\ N >= 2
  BY PackedAssumption, QueueAssumption DEF QInv, RingInv, PosInv, HeldInv
<1>1. ASSUME vq' = vq, held' = held PROVE RingSame
  BY <1>0, <1>1 DEF RingSame
<1> USE DEF QInv
\* The guest.
<1>2. CASE bpfhv_open
  <2>1. RingSame /\ (Reclaiming' <=> Reclaiming)
    BY <1>0, <1>1, <1>2 DEF bpfhv_open, Reclaiming, PlaceInv
  <2> QED BY <2>1, <1>0, <1>2, RingStays
          DEF bpfhv_open, PlaceInv, beVars, rigid
<1>3. CASE OpenEnable
  <2>1. RingSame /\ (Reclaiming' <=> Reclaiming)
    BY <1>0, <1>1, <1>3 DEF OpenEnable, Reclaiming, Return, PlaceInv
  <2> QED BY <2>1, <1>0, <1>3, RingStays
          DEF OpenEnable, PlaceInv, Return, rigid
<1>4. CASE bpfhv_start_xmit
  <2>1. RingSame /\ (Reclaiming' <=> Reclaiming)
    BY <1>1, <1>4 DEF bpfhv_start_xmit, Reclaiming
  <2> QED BY <2>1, <1>0, <1>4, RingStays
          DEF bpfhv_start_xmit, PlaceInv, beVars, rigid, batchVars
<1>5. CASE bpfhv_intr
  <2>1. RingSame /\ (Reclaiming' <=> Reclaiming)
    BY <1>1, <1>5 DEF bpfhv_intr, Reclaiming
  <2> QED BY <2>1, <1>0, <1>5, RingStays
          DEF bpfhv_intr, PlaceInv, beVars, rigid, batchVars, Scheduled
<1>6. CASE bpfhv_poll
  <2>1. RingSame /\ (Reclaiming' <=> Reclaiming)
    <3>1. 0 \in 0 .. N /\ vq' = vring_packed_intr(vq, 0)
      BY <1>0, <1>6 DEF bpfhv_poll
    <3>2. RingSame
      BY <3>1, <1>0, <1>6, IntrSame DEF bpfhv_poll
    <3> QED BY <3>2, <1>6 DEF bpfhv_poll, Reclaiming
  <2> QED BY <2>1, <1>0, <1>6, RingStays
          DEF bpfhv_poll, PlaceInv, beVars, rigid, batchVars
<1>7. CASE vring_packed_xc
  <2>1. ~Reclaiming /\ ~Reclaiming' /\ (Reclaiming' <=> Reclaiming)
    BY <1>0, <1>7 DEF vring_packed_xc, Reclaiming, PlaceInv
  <2>2. Done >= 1 /\ InUse >= 1
    BY <2>1, <1>0, <1>7, Reads DEF vring_packed_xc
  <2>3. RingInv' /\ Done' = Done - 1 /\ InUse' = InUse - 1
    BY <2>1, <2>2, <1>0, <1>7, GetKeepsRing DEF vring_packed_xc
  <2> QED BY <2>1, <2>2, <2>3, <1>0, <1>7
          DEF vring_packed_xc, PlaceInv, beVars, rigid, BudgetLeft
<1>8. CASE CleanDone
  <2>1. ~Reclaiming /\ RingSame
    BY <1>0, <1>1, <1>8 DEF CleanDone, Reclaiming, PlaceInv
  <2>2. ~broken' /\ (op = "close" => Done = 0)
    <3>1. /\ vring_packed_more_used(vq) <=> Done >= 1
          /\ Done >= 1 => ~vring_packed_get_fails(vq)
          /\ Done \in 0 .. N
      BY <2>1, <1>0, Reads
    <3>2. ~(BudgetLeft /\ vring_packed_more_used(vq))
      BY <3>1, <1>0, <1>8 DEF CleanDone
    <3>3. op = "close" => Done = 0
      BY <3>1, <3>2, <1>0, <1>8 DEF CleanDone, BudgetLeft, PlaceInv
    <3> QED BY <3>2, <3>3, <1>0, <1>8 DEF CleanDone, PlaceInv
  <2>3. CASE op = "close"
    <3>1. Reclaiming'
      BY <2>3, <1>8 DEF CleanDone, Reclaiming
    <3> QED BY <3>1, <2>1, <2>2, <2>3, <1>0, <1>8, ReclaimBegins
            DEF CleanDone, PlaceInv, beVars, rigid
  <2>4. CASE op # "close"
    <3>1. ~Reclaiming'
      BY <2>4, <1>0, <1>8 DEF CleanDone, Reclaiming, Return, PlaceInv
    <3>2. RingInv' /\ Done' = Done /\ InUse' = InUse
      BY <3>1, <2>1, <1>0, RingStays
    <3>3. PlaceInv'
      <4>1. min' \in 0 .. N
        BY <1>0, <1>8, HalfPending DEF CleanDone, PlaceInv, Return
      <4>2. /\ bpc' = bpc /\ dev' = dev /\ dir' = dir
            /\ busy_wait' = busy_wait
        BY <1>8 DEF CleanDone, beVars, rigid
      <4>3. /\ polled' = 0
            /\ napi' # napi => op = "poll" /\ napi' = napi_complete
            /\ \/ gpc' = "idle" /\ op' = "none"
               \/ op' = op /\ op = "xmit" /\ gpc' = "publish"
               \/ op' = op /\ op = "poll" /\ dir = "tx" /\ gpc' = "arm"
               \/ op' = op /\ op = "poll" /\ dir = "rx" /\ gpc' = "complete"
        BY <2>4, <1>8 DEF CleanDone, Return
      <4> QED BY <4>1, <4>2, <4>3, <2>2, <2>4, <3>2, <1>0, <1>8
              DEF PlaceInv, CleanDone, napi_complete
    <3> QED BY <3>2, <3>3
  <2> QED BY <2>3, <2>4
<1>9. CASE PublishOne
  <2>1. ~Reclaiming /\ ~Reclaiming'
    BY <1>0, <1>9 DEF PublishOne, Reclaiming, PlaceInv
  <2>2. PICK b \in held \ lost, bad \in {FALSE, BadBufs} :
          vq' = vring_packed_add(vq, b, bad) /\ held' = held \ {b}
    BY <1>9 DEF PublishOne
  <2>3. bad \in BOOLEAN
    BY QueueAssumption
  <2>4. RingInv' /\ Done' = Done /\ InUse' = InUse + 1
    BY <2>1, <2>2, <2>3, <1>0, AddKeepsRing
  <2>5. /\ gpc = "publish" /\ gpc' \in {"publish", "kick"} /\ op' = op
        /\ dev' = dev /\ dir' = dir /\ busy_wait' = busy_wait
        /\ polled' = polled /\ min' = min /\ napi' = napi /\ bpc' = bpc
        /\ broken' = broken /\ lost' = lost
    BY <1>9 DEF PublishOne, beVars, rigid
  <2>6. lost' \subseteq held'
    BY <2>2, <2>5, <1>0 DEF PlaceInv
  <2> QED BY <2>1, <2>4, <2>5, <2>6, <1>0 DEF PlaceInv
<1>10. CASE vring_packed_txp
  <2>1. RingSame /\ (Reclaiming' <=> Reclaiming)
    BY <1>1, <1>10 DEF vring_packed_txp, Reclaiming
  <2> QED BY <2>1, <1>0, <1>10, RingStays, HalfPending
          DEF vring_packed_txp, PlaceInv, beVars, rigid
<1>11. CASE vring_packed_rxp
  <2>1. RingSame /\ gpc' \in {"publish", "enable", "clean"}
        /\ (op = "open" <=>
              gpc' = "enable" \/ (op = "open" /\ gpc' = "publish"))
    BY <1>1, <1>11 DEF vring_packed_rxp
  <2>2. (Reclaiming' <=> Reclaiming)
    BY <2>1, <1>11 DEF vring_packed_rxp, Reclaiming
  <2> QED BY <2>1, <2>2, <1>0, <1>11, RingStays
          DEF vring_packed_rxp, PlaceInv, beVars, rigid
<1>12. CASE RxPollComplete
  <2>1. RingSame /\ (Reclaiming' <=> Reclaiming)
    BY <1>1, <1>12 DEF RxPollComplete, Reclaiming
  <2> QED BY <2>1, <1>0, <1>12, RingStays
          DEF RxPollComplete, PlaceInv, beVars, rigid, napi_complete
<1>13. CASE vring_packed_xi
  <2>1. RingSame /\ (Reclaiming' <=> Reclaiming)
    <3>1. min \in 0 .. N /\ vq' = vring_packed_intr(vq, min)
      BY <1>0, <1>13 DEF vring_packed_xi, PlaceInv
    <3>2. RingSame
      BY <3>1, <1>0, <1>13, IntrSame DEF vring_packed_xi
    <3> QED BY <3>2, <1>13 DEF vring_packed_xi, Reclaiming
  <2> QED BY <2>1, <1>0, <1>13, RingStays
          DEF vring_packed_xi, PlaceInv, beVars, rigid, batchVars
<1>14. CASE XiCheck
  <2>1. RingSame /\ (Reclaiming' <=> Reclaiming)
    BY <1>1, <1>14 DEF XiCheck, Reclaiming, Return
  <2> QED BY <2>1, <1>0, <1>14, RingStays
          DEF XiCheck, PlaceInv, beVars, rigid, Return, napi_complete
<1>15. CASE bpfhv_close
  <2>1. RingSame /\ (Reclaiming' <=> Reclaiming)
    BY <1>1, <1>15 DEF bpfhv_close, Reclaiming
  <2> QED BY <2>1, <1>0, <1>15, RingStays
          DEF bpfhv_close, PlaceInv, rigid, batchVars
<1>16. CASE CloseNapiDisable
  <2>1. RingSame /\ (Reclaiming' <=> Reclaiming) /\ ~Reclaiming
    BY <1>1, <1>16 DEF CloseNapiDisable, Reclaiming
  <2> QED BY <2>1, <1>0, <1>16, RingStays
          DEF CloseNapiDisable, PlaceInv, beVars, rigid, batchVars
<1>17. CASE vring_packed_xr
  <2>1. Reclaiming /\ Reclaiming' /\ (Reclaiming' <=> Reclaiming)
    BY <1>17 DEF vring_packed_xr, Reclaiming
  <2>2. InUse >= 1
    BY <2>1, <1>0, <1>17, Reads DEF vring_packed_xr
  <2>3. RingInv'
    BY <2>1, <2>2, <1>0, <1>17, GetKeepsRing DEF vring_packed_xr
  <2> QED BY <2>3, <1>0, <1>17
          DEF vring_packed_xr, PlaceInv, beVars, rigid, batchVars
<1>18. CASE CloseDone
  <2>1. RingSame /\ (Reclaiming' <=> Reclaiming) /\ Reclaiming
    BY <1>1, <1>18 DEF CloseDone, Reclaiming, Return
  <2>2. ~broken' /\ InUse = 0
    <3>1. InUse = 0
      BY <2>1, <1>0, <1>18, Reads DEF CloseDone
    <3> QED BY <3>1, <2>1, <1>0, <1>18, Reads DEF CloseDone, PlaceInv
  <2> QED BY <2>1, <2>2, <1>0, <1>18, RingStays
          DEF CloseDone, PlaceInv, beVars, rigid, Return
<1>27. CASE RxAllocFails
  <2>1. ~Reclaiming /\ ~Reclaiming' /\ (Reclaiming' <=> Reclaiming)
    BY <1>0, <1>27 DEF RxAllocFails, Reclaiming, PlaceInv
  <2>2. Done >= 1 /\ InUse >= 1
    BY <2>1, <1>0, <1>27, Reads DEF RxAllocFails
  <2>3. RingInv' /\ Done' = Done - 1 /\ InUse' = InUse - 1
    BY <2>1, <2>2, <1>0, <1>27, GetKeepsRing DEF RxAllocFails
  <2> QED BY <2>1, <2>2, <2>3, <1>0, <1>27
          DEF RxAllocFails, PlaceInv, beVars, rigid
<1>28. CASE RefillCutShort
  <2>1. RingSame /\ (Reclaiming' <=> Reclaiming)
    BY <1>1, <1>28 DEF RefillCutShort, Reclaiming
  <2> QED BY <2>1, <1>0, <1>28, RingStays
          DEF RefillCutShort, PlaceInv, beVars, rigid
<1>29. CASE CloseGoesOn
  <2>1. ~Reclaiming /\ Reclaiming' /\ RingSame
    BY <1>0, <1>1, <1>29 DEF CloseGoesOn, Reclaiming, PlaceInv
  <2>2. Done = 0
    BY <2>1, <1>0, <1>29, Reads DEF CloseGoesOn
  <2> QED BY <2>1, <2>2, <1>0, <1>29, ReclaimBegins
          DEF CloseGoesOn, PlaceInv, beVars, rigid, batchVars
<1>30. CASE CloseLeaks
  <2>1. RingSame /\ (Reclaiming' <=> Reclaiming)
    BY <1>0, <1>1, <1>30 DEF CloseLeaks, Reclaiming, Return, PlaceInv
  <2> QED BY <2>1, <1>0, <1>30, RingStays
          DEF CloseLeaks, PlaceInv, beVars, rigid, Return
\* The backend.
<1>31. CASE ThreadStarts
  <2>1. RingSame /\ (Reclaiming' <=> Reclaiming)
    BY <1>0, <1>31, NotificationEffect
       DEF ThreadStarts, Reclaiming, guestVars, RingSame, PlaceInv
  <2> QED BY <2>1, <1>0, <1>31, RingStays
          DEF ThreadStarts, PlaceInv, guestVars, batchVars, rigid
<1>19. CASE PacketArrives
  <2>1. RingSame /\ (Reclaiming' <=> Reclaiming)
    BY <1>1, <1>19 DEF PacketArrives, Reclaiming, guestVars
  <2> QED BY <2>1, <1>0, <1>19, RingStays
          DEF PacketArrives, PlaceInv, beVars, guestVars, batchVars, rigid
<1>20. CASE process_packets_poll \/ PollOther
  <2>1. RingSame /\ (Reclaiming' <=> Reclaiming)
    BY <1>1, <1>20
       DEF process_packets_poll, PollOther, WakeUp, Reclaiming, guestVars
  <2> QED BY <2>1, <1>0, <1>20, RingStays
          DEF process_packets_poll, PollOther, WakeUp, PlaceInv, guestVars,
              batchVars, rigid
<1>21. CASE process_packets_spin
  <2>1. RingSame /\ (Reclaiming' <=> Reclaiming)
    BY <1>1, <1>21 DEF process_packets_spin, Reclaiming, guestVars
  <2> QED BY <2>1, <1>0, <1>21, RingStays
          DEF process_packets_spin, PlaceInv, guestVars, batchVars, rigid
<1>22. CASE RoundBegins
  <2>1. RingSame /\ (Reclaiming' <=> Reclaiming)
    BY <1>0, <1>22, NotificationEffect
       DEF RoundBegins, Reclaiming, guestVars, RingSame
  <2> QED BY <2>1, <1>0, <1>22, RingStays
          DEF RoundBegins, PlaceInv, guestVars, batchVars, rigid
<1>23. CASE RoundLooks \/ RoundRechecks \/ RoundOutOfBudget \/ UseFails
            \/ RoundNotifies
  <2>0. bpc # "halted" /\ ~Reclaiming /\ Served
    BY <1>0, <1>23 DEF Step, BackendStep, RoundLooks, RoundRechecks,
       RoundOutOfBudget, UseFails, RoundNotifies, PlaceInv, Reclaiming,
       ThreadStarts
  <2>1. RingSame /\ (Reclaiming' <=> Reclaiming)
    BY <1>1, <1>23 DEF RoundLooks, RoundRechecks, RoundOutOfBudget, UseFails,
                       RoundNotifies, Reclaiming, guestVars
  <2> QED BY <2>0, <2>1, <1>0, <1>23, RingStays, Reads
          DEF RoundLooks, RoundRechecks, RoundOutOfBudget, UseFails,
              RoundNotifies, PlaceInv, guestVars, batchVars, rigid
<1>24. CASE RoundEnables \/ RoundRemutes
  <2>1. RingSame /\ (Reclaiming' <=> Reclaiming)
    BY <1>0, <1>24, NotificationEffect
       DEF RoundEnables, RoundRemutes, Reclaiming, guestVars, RingSame
  <2>2. CASE RoundEnables
    BY <2>1, <2>2, <1>0, RingStays
       DEF RoundEnables, PlaceInv, guestVars, batchVars, rigid
  <2>3. CASE RoundRemutes
    BY <2>1, <2>3, <1>0, RingStays
       DEF RoundRemutes, PlaceInv, guestVars, batchVars, rigid
  <2> QED BY <2>2, <2>3, <1>24
<1>25. CASE UseOne
  <2>1. ~Reclaiming /\ ~Reclaiming'
    BY <1>0, <1>25 DEF UseOne, Reclaiming, guestVars, PlaceInv
  <2>2. RingInv' /\ Done' = Done + 1
    BY <2>1, <1>0, <1>25, UseKeepsRing
       DEF UseOne, guestVars, PlaceInv, Step, BackendStep, ThreadStarts
  <2> QED BY <2>2, <1>0, <1>25
          DEF UseOne, PlaceInv, guestVars, batchVars, rigid
<1>26. CASE UNCHANGED vars
  <2>1. RingSame /\ (Reclaiming' <=> Reclaiming)
    BY <1>1, <1>26 DEF vars, Reclaiming, guestVars
  <2> QED BY <2>1, <1>0, <1>26, RingStays
          DEF vars, PlaceInv, beVars, guestVars, batchVars, rigid
<1> QED
  BY <1>2, <1>3, <1>4, <1>5, <1>6, <1>7, <1>8, <1>9, <1>10, <1>11, <1>12,
     <1>13, <1>14, <1>15, <1>16, <1>17, <1>18, <1>19, <1>20, <1>21, <1>22,
     <1>23, <1>24, <1>25, <1>26, <1>27, <1>28, <1>29, <1>30, <1>31
     DEF Step, Next, GuestStep, BackendStep

\* The backend that serves in order goes on doing so.
LEMMA NextServed ==
  ASSUME QInv, Served, [Next]_vars
  PROVE  Served'
<1>1. /\ PlaceInv /\ RingInv /\ vq \in Virtq /\ min \in 0 .. N /\ 0 \in 0 .. N
      /\ held \subseteq Bufs
  BY PackedAssumption DEF QInv, RingInv, PosInv, PlaceInv, HeldInv
<1>2. CASE UseOne
  <2>1. /\ ~Reclaiming /\ ~Reclaiming' /\ Done < InUse
        /\ vq' = UseInOrder(vq) /\ held' = held
    BY <1>1, <1>2 DEF UseOne, Reclaiming, guestVars, PlaceInv
  <2> QED BY <2>1, <1>1, UseKeepsRing
<1>3. ASSUME vq'.h = vq.h PROVE Served'
  BY <1>3 DEF Served
<1>4. CASE PublishOne
  <2>1. PICK b \in held \ lost, bad \in {FALSE, BadBufs} :
          vq' = vring_packed_add(vq, b, bad)
    BY <1>4 DEF PublishOne
  <2>2. vq'.h = vq.h
    BY <2>1, <1>1 DEF vring_packed_add, Virtq
  <2> QED BY <2>2, <1>3
<1>5. CASE vring_packed_xc \/ RxAllocFails \/ vring_packed_xr
  <2>1. PICK v, w, id : v = vq /\ w = vq' /\ id = v.desc[v.g.used].id
    OBVIOUS
  <2>2. v \in Virtq /\ w = vring_packed_get(v)
    BY <2>1, <1>1, <1>5 DEF vring_packed_xc, RxAllocFails, vring_packed_xr
  <2>3. w.h = v.h
    BY <2>1, <2>2, GetEffect
  <2> QED BY <2>1, <2>3, <1>3
<1>6. CASE ThreadStarts \/ RoundBegins \/ RoundEnables \/ RoundRemutes
  <2>1. vq' = vq \/ \E e \in BOOLEAN : vq' = vring_packed_notification(vq, e)
    BY <1>1, <1>6
       DEF ThreadStarts, RoundBegins, RoundEnables, RoundRemutes, PlaceInv
  <2> QED BY <2>1, <1>1, <1>3, NotificationEffect
<1>7. CASE bpfhv_poll \/ vring_packed_xi
  <2>1. PICK n \in 0 .. N : vq' = vring_packed_intr(vq, n)
    BY <1>1, <1>7 DEF bpfhv_poll, vring_packed_xi
  <2> QED BY <2>1, <1>1, <1>3, IntrEffect
<1>8. CASE \/ bpfhv_open \/ bpfhv_start_xmit \/ bpfhv_close \/ bpfhv_intr
           \/ PacketArrives \/ PollOther \/ CleanDone \/ vring_packed_txp
           \/ vring_packed_rxp \/ RxPollComplete \/ XiCheck
           \/ CloseNapiDisable \/ CloseDone \/ CloseGoesOn \/ CloseLeaks
           \/ OpenEnable \/ RefillCutShort
           \/ process_packets_poll \/ process_packets_spin \/ RoundLooks
           \/ RoundRechecks \/ RoundOutOfBudget \/ UseFails \/ RoundNotifies
           \/ UNCHANGED vars
  <2>1. vq' = vq
    BY <1>8 DEF bpfhv_open, bpfhv_start_xmit, bpfhv_close, bpfhv_intr,
      PacketArrives, PollOther, CleanDone, vring_packed_txp, vring_packed_rxp,
      RxPollComplete, XiCheck, CloseNapiDisable, CloseDone, WakeUp,
      CloseGoesOn, CloseLeaks, OpenEnable, RefillCutShort,
      process_packets_poll, process_packets_spin, RoundLooks, RoundRechecks,
      RoundOutOfBudget, UseFails, RoundNotifies, vars
  <2> QED BY <2>1, <1>3
<1> QED BY <1>2, <1>4, <1>5, <1>6, <1>7, <1>8 DEF Next, GuestStep, BackendStep

-----------------------------------------------------------------------------
(***************************************************************************)
(* The free list.  FreeIds follows it from next_free_id; the enumeration   *)
(* of the invariant is what it finds.                                      *)
(***************************************************************************)
\* A non-empty set of natural numbers has a smallest element.
LEMMA SmallestOf ==
  ASSUME NEW T \in SUBSET Nat, T # {}
  PROVE  \E x \in T : \A y \in T : x <= y
<1> DEFINE R == {ss \in Nat \X Nat : ss[1] < ss[2]}
<1>1. IsWellFoundedOn(R, Nat)
  BY NatLessThanWellFounded DEF OpToRel
<1>2. \E x \in T : \A y \in T : ~(<<y, x>> \in R)
  <2> HIDE DEF R
  <2> QED BY <1>1, WFMin
<1>3. PICK x \in T : \A y \in T : ~(<<y, x>> \in R)
  BY <1>2
<1>4. \A y \in T : x <= y
  <2> SUFFICES ASSUME NEW y \in T PROVE x <= y
    OBVIOUS
  <2>1. ~(y < x)
    BY <1>3
  <2> QED BY <2>1
<1> QED BY <1>4

\* f starts at next_free_id and follows next, for n identifiers.
Follows(v, n, f) ==
  /\ n > 0 => f[0] = v.g.free_id
  /\ \A k \in 0 .. n - 2 : v.state[f[k]].next = f[k + 1]

\* Following next from next_free_id visits what f lists.
LEMMA FreeIdsAre ==
  \A v, f : \A n \in Nat : Follows(v, n, f) =>
    \A x : x \in FreeIds(v, n) <=> \E k \in 0 .. n - 1 : x = f[k]
<1> SUFFICES ASSUME NEW v, NEW f, NEW n \in Nat, Follows(v, n, f)
             PROVE  FreeIds(v, n) = {f[k] : k \in 0 .. n - 1}
  OBVIOUS
<1> USE DEF Follows
<1> DEFINE Walk(g) == g = [k \in 0 .. n |-> IF k = 0 THEN v.g.free_id
                                            ELSE v.state[g[k - 1]].next]
           walk == CHOOSE g : Walk(g)
<1>1. FreeIds(v, n) = {walk[k] : k \in 0 .. n - 1}
  BY DEF FreeIds
<1>2. Walk(walk)
  <2> DEFINE g == [k \in 0 .. n |-> IF k < n THEN f[k]
                                    ELSE IF n = 0 THEN v.g.free_id
                                    ELSE v.state[f[n - 1]].next]
             e == [k \in 0 .. n |-> IF k = 0 THEN v.g.free_id
                                    ELSE v.state[g[k - 1]].next]
  <2>1. \A k \in 0 .. n : g[k] = e[k]
    <3> SUFFICES ASSUME NEW k \in 0 .. n PROVE g[k] = e[k]
      OBVIOUS
    <3>1. CASE k = 0
      BY <3>1
    <3>2. CASE k # 0
      <4>1. k - 1 \in 0 .. n /\ k - 1 < n /\ g[k - 1] = f[k - 1]
        BY <3>2
      <4>2. CASE k < n
        <5>1. k - 1 \in 0 .. n - 2 /\ (k - 1) + 1 = k
          BY <3>2, <4>2
        <5>2. v.state[f[k - 1]].next = f[k]
          BY <5>1
        <5> QED BY <5>2, <4>1, <4>2, <3>2
      <4>3. CASE k = n
        BY <4>1, <4>3, <3>2
      <4>4. k < n \/ k = n
        OBVIOUS
      <4> HIDE DEF g, e
      <4> QED BY <4>2, <4>3, <4>4
    <3> QED BY <3>1, <3>2
  <2>2. Walk(g)
    BY <2>1
  <2> HIDE DEF g, Walk
  <2> QED BY <2>2
<1>3. \A k \in 0 .. n : walk[k] = IF k = 0 THEN v.g.free_id
                                  ELSE v.state[walk[k - 1]].next
  <2> HIDE DEF walk
  <2> QED BY <1>2
<1> HIDE DEF walk
<1>4. \A k \in 0 .. n - 1 : walk[k] = f[k]
  <2> DEFINE T == {k \in 0 .. n - 1 : walk[k] # f[k]}
  <2> SUFFICES ASSUME T # {} PROVE FALSE
    OBVIOUS
  <2>1. PICK k \in T : \A y \in T : k <= y
    <3>1. T \in SUBSET Nat
      OBVIOUS
    <3> HIDE DEF T
    <3> QED BY <3>1, SmallestOf
  <2>2. CASE k = 0
    BY <2>2, <1>3
  <2>3. CASE k # 0
    <3>1. k - 1 \in 0 .. n - 1 /\ k - 1 \notin T /\ k - 1 \in 0 .. n - 2
          /\ (k - 1) + 1 = k /\ k \in 0 .. n
      BY <2>1, <2>3
    <3>2. walk[k - 1] = f[k - 1]
      BY <3>1
    <3>3. walk[k] = v.state[f[k - 1]].next
      BY <3>1, <3>2, <2>3, <1>3
    <3> QED BY <3>1, <3>3
  <2> QED BY <2>2, <2>3
<1> QED BY <1>1, <1>4

-----------------------------------------------------------------------------
(***************************************************************************)
(* The positions the properties speak of.                                  *)
(***************************************************************************)
\* Remainders of what is at most a turn below and two above.
LEMMA Remainder ==
  ASSUME NEW n \in Nat \ {0}, NEW x \in (-n) .. (3 * n - 1)
  PROVE  x % n = IF x < 0 THEN x + n ELSE IF x < n THEN x
                 ELSE IF x < 2 * n THEN x - n ELSE x - 2 * n
<1>1. \A q \in Int, r \in 0 .. n - 1 : (q * n + r) % n = r
  OBVIOUS
<1>2. CASE x < 0
  <2>1. x = (-1) * n + (x + n) /\ x + n \in 0 .. n - 1
    BY <1>2
  <2> QED BY <2>1, <1>1, <1>2
<1>3. CASE x >= 0 /\ x < n
  <2>1. x = 0 * n + x /\ x \in 0 .. n - 1
    BY <1>3
  <2> QED BY <2>1, <1>1, <1>3
<1>4. CASE x >= n /\ x < 2 * n
  <2>1. x = 1 * n + (x - n) /\ x - n \in 0 .. n - 1
    BY <1>4
  <2> QED BY <2>1, <1>1, <1>4
<1>5. CASE x >= 2 * n
  <2>1. x = 2 * n + (x - 2 * n) /\ x - 2 * n \in 0 .. n - 1
    BY <1>5
  <2> QED BY <2>1, <1>1, <1>5
<1> QED BY <1>2, <1>3, <1>4, <1>5

\* The slot at offset k.
At(k) == IF vq.g.used + k < N THEN vq.g.used + k ELSE vq.g.used + k - N

\* Offsets and slots are two names of the same thing.
LEMMA SlotAt ==
  ASSUME vq \in Virtq
  PROVE  /\ \A k \in 0 .. N - 1 : At(k) \in Slots /\ Off(At(k)) = k
         /\ \A i \in Slots : At(Off(i)) = i
<1>1. vq.g.used \in Slots /\ N \in Nat
  BY PackedAssumption DEF Virtq
<1> QED BY <1>1 DEF At, Off, Slots

\* The distance of two positions on the double lap.
LEMMA DistIs ==
  ASSUME NEW p \in 0 .. 2 * N - 1, NEW q \in 0 .. 2 * N - 1
  PROVE  Dist(p, q) = IF q >= p THEN q - p ELSE q - p + 2 * N
<1>1. N \in Nat \ {0}
  BY PackedAssumption
<1>2. 2 * N \in Nat \ {0}
  BY <1>1
<1> DEFINE M == 2 * N
<1> HIDE DEF M
<1>3. M \in Nat \ {0} /\ p \in 0 .. M - 1 /\ q \in 0 .. M - 1
  BY <1>2 DEF M
<1>4. q - p \in (-M) .. (3 * M - 1) /\ q - p < M
  BY <1>3
<1>5. (q - p) % M = IF q - p < 0 THEN q - p + M ELSE q - p
  BY <1>3, <1>4, Remainder
<1>6. (q - p) % M = IF q >= p THEN q - p ELSE q - p + M
  BY <1>3, <1>5
<1> QED BY <1>6 DEF M, Dist

\* A position that is ahead of the guest's used position by at most the ring
\* is at that distance from it.
LEMMA DistAhead ==
  ASSUME vq \in Virtq, NEW i \in Slots, NEW w \in {0, 1},
         Ahead(i, w) \in 0 .. N
  PROVE  Dist(GUsed(vq), Pos(i, w)) = Ahead(i, w)
<1>1. vq.g.used \in Slots /\ vq.g.uwrap \in {0, 1} /\ N \in Nat
  BY PackedAssumption DEF Virtq
<1>2. GUsed(vq) \in 0 .. 2 * N - 1 /\ Pos(i, w) \in 0 .. 2 * N - 1
  BY <1>1 DEF GUsed, Pos, Slots
<1>3. Dist(GUsed(vq), Pos(i, w)) = IF Pos(i, w) >= GUsed(vq)
                                   THEN Pos(i, w) - GUsed(vq)
                                   ELSE Pos(i, w) - GUsed(vq) + 2 * N
  BY <1>2, DistIs
<1> QED BY <1>1, <1>3 DEF GUsed, Pos, Ahead, Slots

\* The descriptors between two positions of the ring, by their offsets.
LEMMA Segment ==
  ASSUME vq \in Virtq, NEW i \in Slots, NEW w \in {0, 1},
         NEW j \in Slots, NEW x \in {0, 1}, NEW m, NEW n,
         m = Ahead(i, w), n = Ahead(j, x), m \in 0 .. n, n \in 0 .. N
  PROVE  /\ Dist(Pos(i, w), Pos(j, x)) = n - m
         /\ \A k \in 1 .. n - m : (Pos(i, w) + k - 1) % N = At(m + k - 1)
         /\ DescsFrom(vq, Pos(i, w), Pos(j, x)) =
              [k \in 1 .. n - m |-> vq.desc[At(m + k - 1)]]
<1>1. vq.g.used \in Slots /\ vq.g.uwrap \in {0, 1} /\ N \in Nat \ {0}
  BY PackedAssumption DEF Virtq
<1>2. Dist(Pos(i, w), Pos(j, x)) = n - m
  <2>1. Pos(i, w) \in 0 .. 2 * N - 1 /\ Pos(j, x) \in 0 .. 2 * N - 1
    BY <1>1 DEF Pos, Slots
  <2>2. Dist(Pos(i, w), Pos(j, x)) = IF Pos(j, x) >= Pos(i, w)
                                     THEN Pos(j, x) - Pos(i, w)
                                     ELSE Pos(j, x) - Pos(i, w) + 2 * N
    BY <2>1, DistIs
  <2> QED BY <2>2, <1>1 DEF Pos, Slots, Ahead
<1>3. \A k \in 1 .. n - m : (Pos(i, w) + k - 1) % N = At(m + k - 1)
  <2> SUFFICES ASSUME NEW k \in 1 .. n - m
               PROVE  (Pos(i, w) + k - 1) % N = At(m + k - 1)
    OBVIOUS
  <2> DEFINE z == Pos(i, w) + k - 1
  <2>1. z \in (-N) .. (3 * N - 1) /\ k \in 1 .. N
    BY <1>1 DEF Pos, Slots
  <2>2. z % N = IF z < 0 THEN z + N ELSE IF z < N THEN z
                ELSE IF z < 2 * N THEN z - N ELSE z - 2 * N
    <3> HIDE DEF z
    <3> QED BY <1>1, <2>1, Remainder
  <2>3. m + k - 1 \in 0 .. N - 1 /\ m \in 0 .. N - 1
    BY <1>1
  <2>4. Pos(i, w) = IF w = 1 THEN i ELSE i + N
    BY DEF Pos
  <2>5. i = At(m)
    <3>1. Off(i) = m
      BY <1>1, <2>3, Offsets
    <3> QED BY <3>1, SlotAt
  <2> DEFINE y == i + k - 1
  <2>6. y \in 0 .. 2 * N - 1 /\ (z = y \/ z = y + N)
    BY <1>1, <2>1, <2>4 DEF Slots
  <2>7. z % N = IF y < N THEN y ELSE y - N
    <3> HIDE DEF z, y
    <3> QED BY <1>1, <2>2, <2>6
  <2>8. At(m + k - 1) = IF y < N THEN y ELSE y - N
    BY <1>1, <2>1, <2>3, <2>5 DEF At, Slots
  <2> QED BY <2>7, <2>8
<1> QED BY <1>2, <1>3 DEF DescsFrom

\* The descriptors in the ring, and those that are used.
LEMMA Segments ==
  ASSUME RingInv
  PROVE  /\ InRing = [k \in 1 .. InUse |-> vq.desc[At(k - 1)]]
         /\ ~Reclaiming =>
              /\ DescsFrom(vq, GUsed(vq), HUsed(vq)) =
                   [k \in 1 .. Done |-> vq.desc[At(k - 1)]]
              /\ DescsFrom(vq, HUsed(vq), GAvail(vq)) =
                   [k \in 1 .. InUse - Done |-> vq.desc[At(Done + k - 1)]]
              /\ Dist(GUsed(vq), HUsed(vq)) = Done
         /\ Dist(GUsed(vq), GAvail(vq)) = InUse
<1>0. /\ vq \in Virtq /\ InUse \in 0 .. N /\ N \in Nat
      /\ ~Reclaiming => Done \in 0 .. InUse
  BY PackedAssumption DEF RingInv, PosInv
<1>1. /\ vq.g.used \in Slots /\ vq.g.uwrap \in {0, 1}
      /\ vq.g.avail \in Slots /\ vq.g.awrap \in {0, 1}
      /\ vq.h.used \in Slots /\ vq.h.uwrap \in {0, 1}
  BY <1>0 DEF Virtq
<1>2. Ahead(vq.g.used, vq.g.uwrap) = 0
  BY <1>1 DEF Ahead, Slots
<1>3. ASSUME NEW n \in 0 .. N
      PROVE  /\ n - 0 = n
             /\ [k \in 1 .. n |-> vq.desc[At(0 + k - 1)]] =
                  [k \in 1 .. n |-> vq.desc[At(k - 1)]]
  <2>1. \A k \in 1 .. n : 0 + k - 1 = k - 1
    OBVIOUS
  <2> QED BY <2>1
<1>4. /\ InRing = [k \in 1 .. InUse |-> vq.desc[At(k - 1)]]
      /\ Dist(GUsed(vq), GAvail(vq)) = InUse
  <2>1. PICK m, n, i, w, j, x :
          /\ m = 0 /\ n = InUse /\ i = vq.g.used /\ w = vq.g.uwrap
          /\ j = vq.g.avail /\ x = vq.g.awrap
    OBVIOUS
  <2>2. /\ m = Ahead(i, w) /\ n = Ahead(j, x) /\ m \in 0 .. n /\ n \in 0 .. N
        /\ GUsed(vq) = Pos(i, w) /\ GAvail(vq) = Pos(j, x)
        /\ i \in Slots /\ j \in Slots /\ w \in {0, 1} /\ x \in {0, 1}
    BY <2>1, <1>0, <1>1, <1>2 DEF InUse, GUsed, GAvail
  <2>3. /\ Dist(GUsed(vq), GAvail(vq)) = n - m
        /\ DescsFrom(vq, GUsed(vq), GAvail(vq)) =
             [k \in 1 .. n - m |-> vq.desc[At(m + k - 1)]]
    BY <2>2, <1>0, Segment
  <2> QED BY <2>1, <2>2, <2>3, <1>3 DEF InRing
<1>5. ASSUME ~Reclaiming
      PROVE  /\ DescsFrom(vq, GUsed(vq), HUsed(vq)) =
                  [k \in 1 .. Done |-> vq.desc[At(k - 1)]]
             /\ Dist(GUsed(vq), HUsed(vq)) = Done
  <2>1. PICK m, n, i, w, j, x :
          /\ m = 0 /\ n = Done /\ i = vq.g.used /\ w = vq.g.uwrap
          /\ j = vq.h.used /\ x = vq.h.uwrap
    OBVIOUS
  <2>2. /\ m = Ahead(i, w) /\ n = Ahead(j, x) /\ m \in 0 .. n /\ n \in 0 .. N
        /\ GUsed(vq) = Pos(i, w) /\ HUsed(vq) = Pos(j, x)
        /\ i \in Slots /\ j \in Slots /\ w \in {0, 1} /\ x \in {0, 1}
    BY <2>1, <1>0, <1>1, <1>2, <1>5 DEF Done, GUsed, HUsed
  <2>3. /\ Dist(GUsed(vq), HUsed(vq)) = n - m
        /\ DescsFrom(vq, GUsed(vq), HUsed(vq)) =
             [k \in 1 .. n - m |-> vq.desc[At(m + k - 1)]]
    BY <2>2, <1>0, Segment
  <2> QED BY <2>1, <2>2, <2>3, <1>3
<1>6. ASSUME ~Reclaiming
      PROVE  DescsFrom(vq, HUsed(vq), GAvail(vq)) =
               [k \in 1 .. InUse - Done |-> vq.desc[At(Done + k - 1)]]
  <2>1. PICK m, n, i, w, j, x :
          /\ m = Done /\ n = InUse /\ i = vq.h.used /\ w = vq.h.uwrap
          /\ j = vq.g.avail /\ x = vq.g.awrap
    OBVIOUS
  <2>2. /\ m = Ahead(i, w) /\ n = Ahead(j, x) /\ m \in 0 .. n /\ n \in 0 .. N
        /\ HUsed(vq) = Pos(i, w) /\ GAvail(vq) = Pos(j, x)
        /\ i \in Slots /\ j \in Slots /\ w \in {0, 1} /\ x \in {0, 1}
    BY <2>1, <1>0, <1>1, <1>6 DEF Done, InUse, HUsed, GAvail
  <2>3. DescsFrom(vq, HUsed(vq), GAvail(vq)) =
          [k \in 1 .. n - m |-> vq.desc[At(m + k - 1)]]
    BY <2>2, <1>0, Segment
  <2> QED BY <2>1, <2>3
<1> QED BY <1>4, <1>5, <1>6

-----------------------------------------------------------------------------
\* The places and the ring, in every state of a device opened once.
LEMMA QInvHolds == ASSUME ~MayReopen PROVE Spec => [](QInv /\ Served)
<1>1. Init => QInv /\ Served
  BY InitQInv
<1>2. QInv /\ Served /\ [Next]_vars => QInv' /\ Served'
  BY NextQInv, NextServed DEF Step
<1> QED BY <1>1, <1>2, PTL DEF Spec

\* One ring: on a device that is opened once, whatever the two sides' laps,
\* whatever is lost or bad, the positions, the descriptors, the identifiers
\* and the free list of vring_packed agree, and vring_packed_get never fails.
\* A closed transmit queue has every buffer back, counted free; so has a
\* receive queue unless an rx_pkt_alloc failed.  A failure leaves a buffer out
\* of the count, and one at close may leave the used descriptors behind it in
\* the ring (dev is then "leaked", not "down").
THEOREM RingConsistentHolds ==
  ASSUME ~MayReopen PROVE Spec => []RingConsistent
<1>1. ASSUME QInv, Served PROVE RingConsistent
  <2> DEFINE ring == InRing
             ids  == {ring[k].id : k \in DOMAIN ring}
             free == Cardinality(held)
  <2>0. /\ RingInv /\ PlaceInv /\ vq \in Virtq /\ InUse \in 0 .. N
        /\ InUse = N - Cardinality(held) /\ held \subseteq Bufs
        /\ N \in Nat /\ N >= 2 /\ Cardinality(held) \in Nat
    BY <1>1, HeldCount, PackedAssumption, QueueAssumption
       DEF QInv, RingInv, PosInv, HeldInv
  <2>1. InUse = N - free /\ free = N - InUse /\ free \in Nat
    BY <2>0
  <2> HIDE DEF free
  <2>2. ring = [k \in 1 .. InUse |-> vq.desc[At(k - 1)]]
    BY <2>0, Segments
  <2>3. /\ DOMAIN ring = 1 .. InUse /\ Len(ring) = InUse
        /\ \A k \in 1 .. InUse : ring[k] = vq.desc[At(k - 1)]
    BY <2>0, <2>2
  <2> HIDE DEF ring
  <2>4. \A k \in 1 .. InUse : At(k - 1) \in Slots /\ Off(At(k - 1)) = k - 1
                              /\ Off(At(k - 1)) < InUse
    <3>1. \A k \in 1 .. InUse : k - 1 \in 0 .. N - 1 /\ k - 1 < InUse
      BY <2>0
    <3> QED BY <3>1, <2>0, SlotAt
  <2>5. \A i \in Slots : Off(i) < InUse =>
          Off(i) + 1 \in 1 .. InUse /\ ring[Off(i) + 1] = vq.desc[i]
    <3> SUFFICES ASSUME NEW i \in Slots, Off(i) < InUse
                 PROVE  Off(i) + 1 \in 1 .. InUse
                        /\ ring[Off(i) + 1] = vq.desc[i]
      OBVIOUS
    <3>1. Off(i) \in 0 .. N - 1 /\ At(Off(i)) = i
      BY <2>0, Offsets, SlotAt
    <3>2. Off(i) + 1 \in 1 .. InUse /\ (Off(i) + 1) - 1 = Off(i)
      BY <3>1, <2>0
    <3> QED BY <3>1, <3>2, <2>3
  <2>6. ids = {i \in Slots : vq.state[i].busy}
    <3>1. \A k \in 1 .. InUse : ring[k].id \in Slots
                                /\ vq.state[ring[k].id].busy
      <4>1. \A i \in Slots : vq.desc[i].id \in Slots
        BY <2>0 DEF Virtq, Desc
      <4> QED BY <4>1, <2>0, <2>3, <2>4 DEF RingInv, IdInv
    <3>2. \A x \in Slots : vq.state[x].busy =>
            \E k \in 1 .. InUse : ring[k].id = x
      <4> SUFFICES ASSUME NEW x \in Slots, vq.state[x].busy
                   PROVE  \E k \in 1 .. InUse : ring[k].id = x
        OBVIOUS
      <4>1. PICK i \in Slots : Off(i) < InUse /\ vq.desc[i].id = x
        BY <2>0 DEF RingInv, IdInv
      <4> QED BY <4>1, <2>5
    <3>3. \A x : x \in ids <=> \E k \in 1 .. InUse : x = ring[k].id
      BY <2>3
    <3> HIDE DEF ids
    <3> QED BY <3>1, <3>2, <3>3
  <2>7. Cardinality(ids) = InUse
    <3> DEFINE F == [k \in 1 .. InUse |-> ring[k].id]
    <3>1. F \in Bijection(1 .. InUse, ids)
      <4>1. F \in Surjection(1 .. InUse, ids)
        BY <2>3 DEF Surjection
      <4>2. ASSUME NEW j \in 1 .. InUse, NEW k \in 1 .. InUse, F[j] = F[k]
            PROVE  j = k
        <5>1. vq.desc[At(j - 1)].id = vq.desc[At(k - 1)].id
          BY <4>2, <2>3
        <5>2. At(j - 1) = At(k - 1)
          BY <5>1, <2>0, <2>4 DEF RingInv, IdInv
        <5>3. j - 1 = k - 1
          BY <5>2, <2>4
        <5> QED BY <5>3, <2>0
      <4>3. F \in Injection(1 .. InUse, ids)
        <5>1. F \in [1 .. InUse -> ids]
          BY <4>1 DEF Surjection
        <5> HIDE DEF F
        <5> QED BY <5>1, <4>2 DEF Injection, IsInjective
      <4> QED BY <4>1, <4>3 DEF Bijection
    <3> HIDE DEF ids, F
    <3>2. IsFiniteSet(1 .. InUse) /\ Cardinality(1 .. InUse) = InUse
      BY <2>0, FS_Interval
    <3> QED BY <3>1, <3>2, FS_Bijection DEF ExistsBijection
  <2>8. \A k \in DOMAIN ring : vq.state[ring[k].id].cookie = ring[k].addr
    BY <2>0, <2>3, <2>4 DEF RingInv, IdInv
  <2>9. FreeIds(vq, free) = Slots \ ids
    <3>1. PICK f \in [0 .. N - 1 -> Slots] : Lists(f)
      BY <2>0 DEF RingInv, FreeInv
    <3>2. /\ free > 0 => f[0] = vq.g.free_id
          /\ \A k \in 0 .. free - 2 : vq.state[f[k]].next = f[k + 1]
          /\ \A k \in 0 .. free - 1 : ~vq.state[f[k]].busy
          /\ \A x \in Slots : ~vq.state[x].busy =>
               \E k \in 0 .. free - 1 : f[k] = x
      <4>1. /\ N - InUse - 1 = free - 1 /\ N - InUse - 2 = free - 2
            /\ InUse < N <=> free > 0
        <5>1. InUse \in Int /\ N \in Int /\ free \in Int /\ free = N - InUse
          BY <2>0, <2>1
        <5> QED BY <5>1
      <4> QED BY <3>1, <4>1 DEF Lists
    <3>3. \A x : x \in FreeIds(vq, free) <=>
                 \E k \in 0 .. free - 1 : x = f[k]
      <4>1. PICK h, v, n : h = f /\ v = vq /\ n = free
        OBVIOUS
      <4>2. Follows(v, n, h) /\ n \in Nat
        BY <2>1, <3>2, <4>1 DEF Follows
      <4>3. \A x : x \in FreeIds(v, n) <=> \E k \in 0 .. n - 1 : x = h[k]
        BY <4>2, FreeIdsAre
      <4> QED BY <4>1, <4>3
    <3>4. \A k \in 0 .. free - 1 : f[k] \in Slots
      <4>1. \A k \in 0 .. free - 1 : k \in 0 .. N - 1
        BY <2>0, <2>1
      <4> QED BY <4>1
    <3> QED BY <3>2, <3>3, <3>4, <2>6
  <2>10. dev = "down" => held = Bufs
    BY <2>0, HeldCount DEF PlaceInv
  <2>11. ~Reclaiming =>
           /\ HUsed(vq) = HAvail(vq)
           /\ Dist(GUsed(vq), HUsed(vq)) <= Dist(GUsed(vq), GAvail(vq))
    BY <2>0, <1>1, Segments DEF RingInv, PosInv, Served, HUsed, HAvail
  <2>12. ~broken /\ (dir = "tx" \/ ~AllocFails => lost = {} /\ dev # "leaked")
    BY <2>0 DEF PlaceInv
  <2>13. /\ Len(ring) = N - Cardinality(held)
         /\ FreeIds(vq, N - Len(ring)) = Slots \ ids
    <3>1. free = N - Len(ring)
      BY <2>1, <2>3
    <3> QED BY <3>1, <2>1, <2>3, <2>9 DEF free
  <2> HIDE DEF ids
  <2> QED BY <2>3, <2>6, <2>7, <2>8, <2>10, <2>11, <2>12, <2>13
          DEF RingConsistent, ids, ring
<1>2. QInv /\ Served => RingConsistent
  BY <1>1
<1> QED BY <1>2, QInvHolds, PTL

-----------------------------------------------------------------------------
(***************************************************************************)
(* Kicks and interrupts.                                                   *)
(***************************************************************************)
\* 16-bit arithmetic around one turn.
LEMMA U16Is ==
  ASSUME NEW x \in Int, x >= -65536, x < 131072
  PROVE  U16(x) = IF x < 0 THEN x + 65536 ELSE IF x < 65536 THEN x
                  ELSE x - 65536
BY DEF U16

\* An event that lies among the last n descriptors, on this lap or on the one
\* before, is seen as passed (vring_need_event in 16 bits).
LEMMA Passed ==
  ASSUME NEW ev \in Event, ev.flags = "DESC", NEW i \in Slots,
         NEW w \in {0, 1}, NEW n \in Nat, n < 65536, NEW d,
         d = IF ev.wrap = w THEN i - ev.idx ELSE i - ev.idx + N,
         1 <= d, d <= n
  PROVE  EventPassed(ev, i, w, n)
<1> DEFINE e == IF ev.wrap # w THEN ev.idx - N ELSE ev.idx
<1>1. /\ N \in Nat /\ 1 <= N /\ N <= 32768
      /\ ev.idx \in Nat /\ ev.idx < N /\ i \in Nat /\ i < N
  <2>1. N \in Nat /\ 1 <= N /\ N <= 2^15 /\ 2^15 = 32768
    BY PackedAssumption
  <2> QED BY <2>1 DEF Event, Slots
<1>2. e \in Int /\ i - e = d /\ e >= -32768 /\ e < 32768
  BY <1>1
<1> HIDE DEF e
<1>3. U16(i - n) = IF i - n < 0 THEN i - n + 65536 ELSE i - n
  <2> DEFINE x == i - n
  <2>1. x \in Int /\ x >= -65536 /\ x < 131072 /\ x < 65536
    BY <1>1
  <2> HIDE DEF x
  <2>2. U16(x) = IF x < 0 THEN x + 65536 ELSE x
    BY <2>1, U16Is
  <2> QED BY <2>2 DEF x
<1>4. U16(i - U16(i - n)) = n
  <2>1. i - U16(i - n) = IF i - n < 0 THEN n - 65536 ELSE n
    BY <1>1, <1>3
  <2>2. U16(n) = n
    BY U16Is
  <2>3. U16(n - 65536) = n
    <3> DEFINE x == n - 65536
    <3>1. x \in Int /\ x >= -65536 /\ x < 0 /\ x < 131072 /\ x + 65536 = n
      OBVIOUS
    <3> HIDE DEF x
    <3>2. U16(x) = x + 65536
      BY <3>1, U16Is
    <3> QED BY <3>1, <3>2 DEF x
  <2> QED BY <2>1, <2>2, <2>3
<1>5. U16(e) = IF e < 0 THEN e + 65536 ELSE e
  BY <1>2, U16Is
<1> DEFINE x == d - 1
           y == d - 1 - 65536
<1>6. U16(i - U16(e) - 1) = d - 1
  <2>1. i - U16(e) - 1 = IF e < 0 THEN y ELSE x
    BY <1>1, <1>2, <1>5
  <2>2. /\ x \in Int /\ x >= 0 /\ x < 65536
        /\ y \in Int /\ y < 0 /\ y >= -65536 /\ y + 65536 = x
    BY <1>1, <1>2
  <2> HIDE DEF x, y
  <2>3. U16(x) = x /\ U16(y) = x
    BY <2>2, U16Is
  <2> QED BY <2>1, <2>3 DEF x
<1>7. d - 1 < n
  BY <1>1, <1>2
<1>8. vring_need_event(U16(i - n), U16(e), i)
  BY <1>4, <1>6, <1>7 DEF vring_need_event
<1> QED BY <1>8 DEF EventPassed, e

\* A step that neither adds nor takes back nor uses a buffer leaves the ring
\* alone, and the event areas change only where they are stored to.
LEMMA OtherSteps ==
  ASSUME QInv, Step, ~Reclaiming, ~Reclaiming',
         ~PublishOne, ~Gets, ~UseOne
  PROVE  /\ RingSame /\ InUse' = InUse /\ Done' = Done
         /\ \/ vq'.device_event = vq.device_event
            \/ ThreadStarts \/ RoundBegins \/ RoundEnables \/ RoundRemutes
         /\ \/ vq'.driver_event = vq.driver_event
            \/ bpfhv_poll \/ vring_packed_xi
<1>1. vq \in Virtq /\ min \in 0 .. N /\ 0 \in 0 .. N /\ RingInv
  BY PackedAssumption DEF QInv, RingInv, PosInv, PlaceInv
<1>2. ASSUME NEW e \in BOOLEAN, vq' = vring_packed_notification(vq, e),
             held' = held
      PROVE  RingSame /\ vq'.driver_event = vq.driver_event
  BY <1>1, <1>2, NotificationEffect DEF RingSame
<1>3. ASSUME NEW n \in 0 .. N, vq' = vring_packed_intr(vq, n), held' = held
      PROVE  RingSame /\ vq'.device_event = vq.device_event
  BY <1>1, <1>3, IntrSame
<1>4. ASSUME vq' = vq, held' = held
      PROVE  RingSame /\ vq'.driver_event = vq.driver_event
             /\ vq'.device_event = vq.device_event
  BY <1>1, <1>4 DEF RingSame
<1>5. CASE ThreadStarts
  <2>1. (~busy_wait) \in BOOLEAN /\ held' = held
    BY <1>5 DEF QInv, PlaceInv, ThreadStarts, guestVars
  <2> QED BY <2>1, <1>1, <1>2, <1>5, RingStays DEF ThreadStarts
<1>6. CASE RoundBegins
  <2>1. held' = held
    BY <1>6 DEF RoundBegins, guestVars
  <2>2. vq' = vring_packed_notification(vq, FALSE) \/ vq' = vq
    BY <1>6 DEF RoundBegins
  <2> QED BY <2>1, <2>2, <1>1, <1>2, <1>4, <1>6, RingStays
<1>7. CASE RoundEnables \/ RoundRemutes
  <2>1. held' = held
    BY <1>7 DEF RoundEnables, RoundRemutes, guestVars
  <2> QED BY <2>1, <1>1, <1>2, <1>7, RingStays DEF RoundEnables, RoundRemutes
<1>8. CASE bpfhv_poll \/ vring_packed_xi
  BY <1>1, <1>3, <1>8, RingStays DEF bpfhv_poll, vring_packed_xi
<1>9. CASE \/ bpfhv_open \/ bpfhv_start_xmit \/ bpfhv_close \/ bpfhv_intr
           \/ PacketArrives \/ PollOther \/ CleanDone \/ vring_packed_txp
           \/ vring_packed_rxp \/ RxPollComplete \/ XiCheck
           \/ CloseNapiDisable \/ CloseDone \/ CloseGoesOn \/ CloseLeaks
           \/ OpenEnable \/ RefillCutShort
           \/ process_packets_poll \/ process_packets_spin \/ RoundLooks
           \/ RoundRechecks \/ RoundOutOfBudget \/ UseFails \/ RoundNotifies
           \/ UNCHANGED vars
  <2>1. vq' = vq /\ held' = held
    BY <1>9 DEF bpfhv_open, bpfhv_start_xmit, bpfhv_close, bpfhv_intr,
      PacketArrives, PollOther, CleanDone, vring_packed_txp, vring_packed_rxp,
      RxPollComplete, XiCheck, CloseNapiDisable, CloseDone, WakeUp,
      CloseGoesOn, CloseLeaks, OpenEnable, RefillCutShort,
      process_packets_poll, process_packets_spin, RoundLooks, RoundRechecks,
      RoundOutOfBudget, UseFails, RoundNotifies, vars, guestVars
  <2> QED BY <2>1, <1>1, <1>4, RingStays
<1>10. ~vring_packed_xr
  BY DEF vring_packed_xr, Reclaiming
<1> QED BY <1>5, <1>6, <1>7, <1>8, <1>9, <1>10
        DEF Step, Next, GuestStep, BackendStep, Gets

\* A step that adds, takes back or uses a buffer moves one position by one.
LEMMA RingSteps ==
  ASSUME QInv, ~Reclaiming, ~Reclaiming'
  PROVE  /\ PublishOne =>
              /\ InUse' = InUse + 1 /\ Done' = Done /\ vq'.h = vq.h
              /\ vq'.g.used = vq.g.used /\ vq'.g.uwrap = vq.g.uwrap
              /\ vq'.device_event = vq.device_event
              /\ vq'.driver_event = vq.driver_event
         /\ Gets =>
              /\ InUse' = InUse - 1 /\ Done' = Done - 1 /\ Done >= 1
              /\ vq'.h = vq.h /\ vq'.g.used = NextIdx(vq.g.used)
              /\ vq'.g.uwrap = NextWrap(vq.g.used, vq.g.uwrap)
              /\ vq'.device_event = vq.device_event
              /\ vq'.driver_event = vq.driver_event
         /\ UseOne /\ Served =>
              /\ InUse' = InUse /\ Done' = Done + 1 /\ vq'.g = vq.g
              /\ vq'.device_event = vq.device_event
              /\ vq'.driver_event = vq.driver_event
<1>1. RingInv /\ PlaceInv /\ vq \in Virtq /\ held \subseteq Bufs
      /\ Done \in 0 .. InUse /\ InUse \in 0 .. N /\ N \in Nat
  BY PackedAssumption DEF QInv, RingInv, PosInv, HeldInv
<1>2. ASSUME PublishOne
      PROVE  /\ InUse' = InUse + 1 /\ Done' = Done /\ vq'.h = vq.h
             /\ vq'.g.used = vq.g.used /\ vq'.g.uwrap = vq.g.uwrap
             /\ vq'.device_event = vq.device_event
             /\ vq'.driver_event = vq.driver_event
  <2>1. PICK b \in held \ lost, bad \in {FALSE, BadBufs} :
          vq' = vring_packed_add(vq, b, bad) /\ held' = held \ {b}
    BY <1>2 DEF PublishOne
  <2>2. bad \in BOOLEAN /\ b \in Bufs
    BY <1>1, QueueAssumption
  <2> QED BY <2>1, <2>2, <1>1, AddKeepsRing
<1>3. ASSUME Gets
      PROVE  /\ InUse' = InUse - 1 /\ Done' = Done - 1 /\ Done >= 1
             /\ vq'.h = vq.h /\ vq'.g.used = NextIdx(vq.g.used)
             /\ vq'.g.uwrap = NextWrap(vq.g.used, vq.g.uwrap)
             /\ vq'.device_event = vq.device_event
             /\ vq'.driver_event = vq.driver_event
  <2>1. Done >= 1 /\ InUse >= 1 /\ vq' = vring_packed_get(vq)
        /\ held' = held \cup {GotCookie(vq)}
    BY <1>1, <1>3, Reads DEF Gets, vring_packed_xc, RxAllocFails
  <2> QED BY <2>1, <1>1, GetKeepsRing
<1>4. ASSUME UseOne, Served
      PROVE  /\ InUse' = InUse /\ Done' = Done + 1 /\ vq'.g = vq.g
             /\ vq'.device_event = vq.device_event
             /\ vq'.driver_event = vq.driver_event
  <2>1. Done < InUse /\ vq' = UseInOrder(vq) /\ held' = held
    BY <1>1, <1>4 DEF UseOne, PlaceInv, guestVars
  <2> QED BY <2>1, <1>1, <1>4, UseKeepsRing, UseEffect DEF Served
<1> QED BY <1>2, <1>3, <1>4

-----------------------------------------------------------------------------
(***************************************************************************)
(* Transmit kicks.                                                         *)
(***************************************************************************)
\* Where start_xmit is, and what it owes.
LEMMA NextKickPlace ==
  ASSUME ~MayReopen, QInv, KickPlace, Step, dir = "tx"
  PROVE  dir' = "tx" /\ KickPlace'
<1>0. /\ PlaceInv /\ RingInv /\ QInv' /\ PlaceInv'
      /\ (dev \in {"new", "opening"} => ~Reclaiming)
      /\ (dev' \in {"new", "opening"} => ~Reclaiming')
  BY NextQInv DEF QInv, PlaceInv, Reclaiming
<1>c. count' \in Nat
  <2>1. count' \in {count, count + 1, 0} /\ count \in Nat
    BY DEF KickPlace, Step, Next, GuestStep, BackendStep, vars, beVars,
       bpfhv_open, OpenEnable, bpfhv_start_xmit, bpfhv_close, bpfhv_intr,
       bpfhv_poll, PacketArrives, PollOther, vring_packed_xc, CleanDone,
       PublishOne, vring_packed_txp, vring_packed_rxp, RxPollComplete,
       vring_packed_xi, XiCheck, CloseNapiDisable, vring_packed_xr, CloseDone,
       RxAllocFails, RefillCutShort, CloseGoesOn, CloseLeaks, ThreadStarts,
       WakeUp, process_packets_poll, process_packets_spin, RoundBegins,
       RoundLooks, RoundEnables, RoundRechecks, RoundRemutes,
       RoundOutOfBudget, UseOne, UseFails, RoundNotifies
  <2> QED BY <2>1
<1>1. CASE PublishOne
  <2>1. dev = "up" /\ dev' = "up" /\ dir' = dir /\ op' = op
    BY <1>0, <1>1 DEF PublishOne, PlaceInv, rigid
  <2>2. left = 1 /\ num = 0 /\ ~kick_pending /\ gpc = "publish"
    BY <1>1 DEF PublishOne, KickPlace
  <2> QED BY <1>c, <2>1, <2>2, <1>1 DEF PublishOne, KickPlace
<1>2. CASE vring_packed_xc
  <2>1. dev' = dev /\ dev \notin {"new", "opening"} /\ dir' = dir
    BY <1>0, <1>2 DEF vring_packed_xc, PlaceInv, rigid
  <2> QED BY <1>c, <2>1, <1>0, <1>2 DEF vring_packed_xc, KickPlace
<1>3. CASE CleanDone
  <2>1. dev' = dev /\ dev \notin {"new", "opening"} /\ dir' = dir
        /\ kick_pending' = kick_pending /\ ~kick_pending
    BY <1>0, <1>3 DEF CleanDone, PlaceInv, rigid, KickPlace
  <2>2. /\ gpc' # "kick"
        /\ gpc' = "publish" => left' = 1 /\ num' = 0
    BY <1>3 DEF CleanDone, Return
  <2> QED BY <1>c, <2>1, <2>2 DEF KickPlace
<1>4. CASE vring_packed_txp \/ vring_packed_xi \/ XiCheck
  <2>1. /\ dir' = dir /\ dev' = dev /\ op' \in {op, "none"}
        /\ gpc' \in {"arm", "check", "idle"}
        /\ kick_pending' => kick_pending \/ gpc = "kick"
        /\ kick_pending' => op' = op /\ gpc' \in {"arm", "check"}
    BY <1>4 DEF vring_packed_txp, vring_packed_xi, XiCheck, Return, batchVars,
                rigid, KickPlace
  <2>2. dev \in {"up", "closing"}
    BY <1>0, <1>4 DEF vring_packed_txp, vring_packed_xi, XiCheck, PlaceInv
  <2>3. gpc = "kick" => op = "xmit"
    BY <1>0 DEF PlaceInv
  <2> QED BY <1>c, <2>1, <2>2, <2>3 DEF KickPlace
<1>5. CASE UseOne
  <2>1. bpc # "halted" /\ dev \notin {"new", "opening"}
    BY <1>0, <1>5 DEF UseOne, PlaceInv
  <2> QED BY <1>c, <2>1, <1>5
          DEF UseOne, KickPlace, rigid, guestVars, batchVars
<1>6. CASE vring_packed_xr \/ CloseDone
  <2>1. dev \notin {"new", "opening"} /\ ~kick_pending
    BY <1>0, <1>6 DEF vring_packed_xr, CloseDone, PlaceInv, KickPlace
  <2> QED BY <1>c, <2>1, <1>0, <1>6
          DEF vring_packed_xr, CloseDone, KickPlace, rigid, Return, batchVars
<1>10. CASE ThreadStarts
  <2>1. dev \notin {"new", "opening"}
    BY <1>0, <1>10 DEF ThreadStarts, PlaceInv
  <2> QED BY <1>c, <2>1, <1>10
          DEF ThreadStarts, KickPlace, rigid, guestVars, batchVars
<1>7. CASE \/ bpfhv_open \/ OpenEnable \/ bpfhv_start_xmit \/ bpfhv_close
           \/ bpfhv_intr \/ bpfhv_poll \/ CloseNapiDisable
  <2>0. bpfhv_open => gpc = "idle"
    BY <1>0 DEF bpfhv_open, PlaceInv
  <2>1. /\ dir' = dir /\ kick_pending' = kick_pending
        /\ \/ gpc' = gpc /\ op' = op /\ left' = left /\ num' = num
           \/ gpc' \notin {"publish", "kick"} /\ gpc \notin {"arm", "check"}
    BY <2>0, <1>7 DEF bpfhv_open, OpenEnable, bpfhv_start_xmit, bpfhv_close,
         bpfhv_intr, bpfhv_poll, CloseNapiDisable, rigid, batchVars, Return
  <2>2. dev' \in {"new", "opening"} =>
          dev \in {"new", "opening"} /\ vq' = vq
    <3>1. napi = "off" \/ dev \notin {"new", "opening"}
      BY <1>0 DEF PlaceInv
    <3> QED BY <3>1, <1>7 DEF bpfhv_open, OpenEnable, bpfhv_start_xmit,
              bpfhv_close, bpfhv_intr, bpfhv_poll, CloseNapiDisable, PlaceInv
  <2>3. dev' \in {"new", "opening"} => InUse' = 0 /\ Listening'
    BY <2>2 DEF KickPlace, InUse, Ahead, Listening
  <2> QED BY <1>c, <2>1, <2>3 DEF KickPlace
<1>8. CASE \/ PacketArrives \/ PollOther
           \/ process_packets_poll \/ process_packets_spin \/ RoundBegins
           \/ RoundLooks \/ RoundEnables \/ RoundRechecks \/ RoundRemutes
           \/ RoundOutOfBudget \/ UseFails \/ RoundNotifies \/ UNCHANGED vars
  <2>1. UNCHANGED <<rigid, guestVars>>
    BY <1>8 DEF PacketArrives, PollOther, process_packets_poll, WakeUp,
      process_packets_spin, RoundBegins, RoundLooks, RoundEnables,
      RoundRechecks, RoundRemutes, RoundOutOfBudget, UseFails, RoundNotifies,
      vars
  <2>2. dev \in {"new", "opening"} => vq' = vq
    BY <1>0, <1>8 DEF PacketArrives, PollOther, process_packets_poll, WakeUp,
      process_packets_spin, RoundBegins, RoundLooks, RoundEnables,
      RoundRechecks, RoundRemutes, RoundOutOfBudget, UseFails, RoundNotifies,
      vars, PlaceInv
  <2>3. dev \in {"new", "opening"} => InUse' = 0 /\ Listening'
    BY <2>2 DEF KickPlace, InUse, Ahead, Listening
  <2> QED BY <1>c, <2>1, <2>3 DEF KickPlace, rigid, guestVars, batchVars
<1>9. /\ ~vring_packed_rxp /\ ~RxPollComplete /\ ~RxAllocFails
      /\ ~RefillCutShort /\ ~CloseGoesOn /\ ~CloseLeaks
  BY <1>0 DEF vring_packed_rxp, RxPollComplete, PlaceInv, RxAllocFails,
     RefillCutShort, CloseGoesOn, CloseLeaks
<1> QED BY <1>1, <1>2, <1>3, <1>4, <1>5, <1>6, <1>7, <1>8, <1>9, <1>10
        DEF Step, Next, GuestStep, BackendStep

\* The buffer just published after the backend's position is seen by
\* vring_packed_kick_needed.
LEMMA KickNeeded ==
  ASSUME RingInv, Served, ~Reclaiming, InUse = Done + 1,
         Listening
  PROVE  vring_packed_kick_needed(vq, 1)
<1> DEFINE ev == vq.device_event
           i  == vq.g.avail
           w  == vq.g.awrap
           d  == IF ev.wrap = w THEN i - ev.idx ELSE i - ev.idx + N
<1>1. /\ vq \in Virtq /\ ev \in Event /\ i \in Slots /\ w \in {0, 1}
      /\ vq.h.avail \in Slots /\ vq.h.awrap \in {0, 1} /\ vq.g.used \in Slots
      /\ vq.g.uwrap \in {0, 1} /\ N \in Nat /\ N >= 2 /\ InUse \in 0 .. N
      /\ Done \in 0 .. InUse
  BY PackedAssumption, QueueAssumption DEF RingInv, PosInv, Virtq
<1>2. ev.flags = "DESC" /\ ev.idx = vq.h.avail /\ ev.wrap = vq.h.awrap
  BY DEF Listening
<1>3. d = 1
  BY <1>1, <1>2 DEF InUse, Done, Ahead, Slots, Served
<1> HIDE DEF ev, i, w, d
<1>4. d = IF ev.wrap = w THEN i - ev.idx ELSE i - ev.idx + N
  BY DEF d
<1>5. EventPassed(ev, i, w, 1)
  BY <1>1, <1>2, <1>3, <1>4, Passed
<1> QED BY <1>5 DEF vring_packed_kick_needed, ev, i, w

\* What a backend that may sleep was told.  The steps that matter: start_xmit
\* publishes a buffer, asks whether it must kick, and rings the doorbell; the
\* backend turns the kicks on and looks again.
LEMMA NextKickTold ==
  ASSUME ~MayReopen, "error" \notin IfFails, QInv, Served, KickInv, Step,
         dir = "tx"
  PROVE  KickTold'
<1> SUFFICES ASSUME dir' = "tx", MaySleep'
             PROVE  /\ Listening'
                    /\ bpc' # "recheck" /\ Done' < InUse' =>
                         kickfd' \/ kick_pending'
                         \/ (gpc' = "kick" /\ InUse' = Done' + 1)
  BY DEF KickTold
<1>0. /\ PlaceInv /\ RingInv /\ vq \in Virtq /\ vq' \in Virtq
      /\ Done \in 0 .. InUse \/ Reclaiming
      /\ QInv' /\ PlaceInv' /\ KickPlace /\ KickTold /\ KickPlace'
  BY NextQInv, NextKickPlace DEF QInv, RingInv, PosInv, KickInv
<1>1. ~Reclaiming' /\ (~OpenEnable => bpc # "halted") /\ ~Reclaiming
  <2>1. bpc' # "halted"
    BY DEF MaySleep
  <2>2. ~Reclaiming'
    BY <2>1, <1>0 DEF Reclaiming, PlaceInv
  <2>3. bpc = "halted" => bpc' = "halted" \/ OpenEnable
    BY DEF Step, Next, GuestStep, BackendStep, vars, beVars, bpfhv_open,
       OpenEnable, bpfhv_start_xmit, bpfhv_close, bpfhv_intr, bpfhv_poll,
       PacketArrives, PollOther, vring_packed_xc, CleanDone, PublishOne,
       vring_packed_txp, vring_packed_rxp, RxPollComplete, vring_packed_xi,
       XiCheck, CloseNapiDisable, vring_packed_xr, CloseDone, RxAllocFails,
       RefillCutShort, CloseGoesOn, CloseLeaks, ThreadStarts,
       process_packets_poll, WakeUp, process_packets_spin, RoundBegins,
       RoundLooks, RoundEnables, RoundRechecks, RoundRemutes,
       RoundOutOfBudget, UseOne, UseFails, RoundNotifies
  <2>4. OpenEnable => ~Reclaiming
    BY <1>0 DEF OpenEnable, Reclaiming, PlaceInv
  <2>5. bpc # "halted" => ~Reclaiming
    BY <1>0 DEF Reclaiming, PlaceInv
  <2> QED BY <2>1, <2>2, <2>3, <2>4, <2>5
<1>2. Done \in 0 .. InUse /\ InUse \in Nat
  BY <1>0, <1>1, PackedAssumption DEF RingInv, PosInv
\* The guest.
<1>3. CASE OpenEnable
  <2>1. InUse = 0 /\ InUse' = InUse /\ Done' = Done
    <3>1. InUse = 0 /\ vq' = vq
      BY <1>0, <1>3 DEF OpenEnable, PlaceInv, KickPlace
    <3> QED BY <3>1 DEF InUse, Done, Ahead
  <2>2. Listening'
    BY <1>0, <1>3 DEF OpenEnable, PlaceInv, KickPlace, Listening
  <2> QED BY <2>1, <2>2, <1>2
<1>15. CASE ThreadStarts
  <2>1. /\ vq' = vring_packed_notification(vq, TRUE) /\ MaySleep
        /\ bpc = "start" /\ bpc' = "top" /\ kickfd' = kickfd
        /\ gpc' = gpc /\ kick_pending' = kick_pending
    BY <1>15 DEF ThreadStarts, MaySleep, rigid, guestVars, batchVars, fds,
                 loopVars
  <2>3. /\ vq'.h = vq.h /\ vq'.g = vq.g
        /\ vq'.device_event = [flags |-> "DESC", idx |-> vq.h.avail,
                               wrap |-> vq.h.awrap]
    BY <2>1, <1>0, NotificationEffect
  <2>2. Listening' /\ Done' = Done /\ InUse' = InUse
    BY <2>3 DEF Listening, Done, InUse, Ahead
  <2> QED BY <2>1, <2>2, <1>0 DEF KickTold, Listening
<1>4. CASE PublishOne
  <2>1. /\ InUse' = InUse + 1 /\ Done' = Done /\ vq'.h = vq.h
        /\ vq'.device_event = vq.device_event
    BY <1>0, <1>1, <1>4, RingSteps
  <2>2. MaySleep /\ gpc' = "kick" /\ gpc = "publish" /\ bpc' = bpc
        /\ kickfd' = kickfd /\ kick_pending' = kick_pending
    BY <1>0, <1>4
       DEF PublishOne, MaySleep, beVars, loopVars, KickPlace, rigid, fds
  <2> QED BY <2>1, <2>2, <1>0, <1>2 DEF KickTold, Listening
<1>5. CASE vring_packed_xc
  <2>1. /\ InUse' = InUse - 1 /\ Done' = Done - 1 /\ vq'.h = vq.h
        /\ vq'.device_event = vq.device_event
    BY <1>0, <1>1, <1>5, RingSteps DEF Gets
  <2>2. MaySleep /\ gpc = "clean" /\ bpc' = bpc
        /\ kickfd' = kickfd /\ kick_pending' = kick_pending
    BY <1>5 DEF vring_packed_xc, MaySleep, beVars, loopVars, rigid, fds
  <2> QED BY <2>1, <2>2, <1>0, <1>2 DEF KickTold, Listening
<1>6. ~UseOne
  BY DEF UseOne, MaySleep
<1>7. ASSUME ~ThreadStarts, ~PublishOne, ~vring_packed_xc
      PROVE  /\ InUse' = InUse /\ Done' = Done /\ vq'.h = vq.h
             /\ ~RoundEnables => vq'.device_event = vq.device_event
  <2>1. ~RoundBegins /\ ~RoundRemutes
    BY DEF RoundBegins, RoundRemutes, MaySleep
  <2>2. ~Gets
    BY <1>7 DEF Gets, RxAllocFails
  <2> QED BY <2>1, <2>2, <1>1, <1>6, <1>7, OtherSteps DEF RingSame
<1>8. CASE vring_packed_txp
  <2>1. MaySleep /\ bpc' = bpc /\ kickfd' = kickfd /\ num = 1 /\ gpc = "kick"
    BY <1>0, <1>8
       DEF vring_packed_txp, MaySleep, beVars, loopVars, rigid, fds, KickPlace
  <2>2. ~ThreadStarts /\ ~PublishOne /\ ~vring_packed_xc /\ ~RoundEnables
    BY <2>1, <1>8 DEF ThreadStarts, PublishOne, vring_packed_xc, RoundEnables,
                      MaySleep
  <2>3. /\ InUse' = InUse /\ Done' = Done /\ vq'.h = vq.h
        /\ vq'.device_event = vq.device_event
    BY <2>2, <1>7
  <2>4. InUse = Done + 1 => vring_packed_kick_needed(vq, num)
    BY <2>1, <1>0, <1>1, KickNeeded DEF KickTold, Listening
  <2> QED BY <2>1, <2>3, <2>4, <1>0, <1>8
          DEF vring_packed_txp, KickTold, Listening
<1>9. CASE XiCheck
  <2>1. MaySleep /\ bpc' = bpc /\ gpc = "check"
    BY <1>9 DEF XiCheck, MaySleep, beVars, loopVars, rigid
  <2>2. ~ThreadStarts /\ ~PublishOne /\ ~vring_packed_xc /\ ~RoundEnables
    BY <2>1, <1>9 DEF ThreadStarts, PublishOne, vring_packed_xc, RoundEnables,
                      MaySleep
  <2>3. kickfd' <=> kickfd \/ kick_pending
    BY <1>0, <1>9 DEF XiCheck, KickPlace, Doorbell, MaySleep, rigid
  <2> QED BY <2>1, <2>2, <2>3, <1>0, <1>7 DEF KickTold, Listening
<1>10. CASE \/ bpfhv_open \/ bpfhv_start_xmit \/ bpfhv_close \/ bpfhv_intr
            \/ bpfhv_poll \/ CleanDone \/ vring_packed_rxp \/ RxPollComplete
            \/ vring_packed_xi \/ CloseNapiDisable \/ CloseDone
            \/ vring_packed_xr \/ RxAllocFails \/ RefillCutShort
            \/ CloseGoesOn \/ CloseLeaks \/ PacketArrives \/ UNCHANGED vars
  <2>1. /\ ~bpfhv_close /\ ~vring_packed_rxp /\ ~RxPollComplete
        /\ ~CloseDone /\ ~vring_packed_xr /\ ~RxAllocFails
        /\ ~RefillCutShort /\ ~CloseGoesOn /\ ~CloseLeaks
    BY <1>0, <1>1 DEF RxAllocFails, RefillCutShort, CloseGoesOn, CloseLeaks,
        bpfhv_close, MaySleep, vring_packed_rxp, RxPollComplete,
       CloseDone, vring_packed_xr, PlaceInv, Reclaiming
  <2>2. /\ UNCHANGED <<bpc, count, can_send, again, stopreq, busy_wait>>
        /\ kick_pending' = kick_pending /\ kickfd' = kickfd
        /\ gpc \in {"kick", "publish"} => gpc' = gpc
    <3>1. bpfhv_open => gpc = "idle"
      BY <1>0 DEF bpfhv_open, PlaceInv
    <3> QED BY <2>1, <3>1, <1>10
          DEF bpfhv_open, bpfhv_start_xmit, bpfhv_intr,
              bpfhv_poll, CleanDone, vring_packed_xi, CloseNapiDisable,
              PacketArrives, vars, beVars, loopVars, rigid, fds, batchVars,
              guestVars
  <2>3. ~RoundEnables
    BY <2>2 DEF RoundEnables, MaySleep
  <2>4. MaySleep
    BY <2>2 DEF MaySleep
  <2>5. CASE ~ThreadStarts /\ ~PublishOne /\ ~vring_packed_xc
    BY <2>2, <2>3, <2>4, <2>5, <1>0, <1>7 DEF KickTold, Listening
  <2> QED BY <2>5, <1>4, <1>5, <1>15
\* The backend.
<1>11. CASE \/ process_packets_poll \/ PollOther \/ process_packets_spin
            \/ RoundBegins \/ RoundLooks \/ RoundRemutes \/ RoundOutOfBudget
            \/ UseFails
  <2>1. ~UseFails
    <3> SUFFICES ASSUME UseFails PROVE FALSE
      OBVIOUS
    <3>1. can_send' /\ ~busy_wait /\ dir # "rx"
      BY DEF UseFails, MaySleep, rigid
    <3>2. PICK e \in {"again", "error"} :
            /\ e \in IfFails \/ dir = "rx"
            /\ can_send' = (dir = "rx" \/ busy_wait \/ e # "again")
      BY DEF UseFails
    <3>3. e = "again"
      BY <3>1, <3>2
    <3> QED BY <3>1, <3>2, <3>3
  <2>2. ~RoundOutOfBudget
    BY <1>0, QueueAssumption DEF RoundOutOfBudget, MaySleep, KickPlace
  <2>3. ~RoundLooks
    <3> SUFFICES ASSUME RoundLooks PROVE FALSE
      OBVIOUS
    <3>1. ~busy_wait
      BY DEF RoundLooks, MaySleep, rigid
    <3>2. bpc' \in {"use", "enable"}
      BY <3>1 DEF RoundLooks
    <3> QED BY <3>2 DEF MaySleep
  <2>4. ~process_packets_spin
    BY DEF process_packets_spin, MaySleep, rigid
  <2> QED BY <2>1, <2>2, <2>3, <2>4, <1>11
          DEF process_packets_poll, PollOther, WakeUp, RoundBegins,
              RoundRemutes, MaySleep
<1>12. CASE RoundEnables
  <2>1. vq' = vring_packed_notification(vq, TRUE) /\ bpc' = "recheck"
    BY <1>12 DEF RoundEnables
  <2>3. /\ vq'.h = vq.h
        /\ vq'.device_event = [flags |-> "DESC", idx |-> vq.h.avail,
                               wrap |-> vq.h.awrap]
    BY <2>1, <1>0, NotificationEffect
  <2>2. Listening'
    BY <2>3 DEF Listening
  <2> QED BY <2>1, <2>2
<1>13. CASE RoundRechecks
  <2>1. /\ MaySleep /\ bpc = "recheck" /\ bpc' = "notify" /\ vq' = vq
        /\ ~vring_packed_more_avail(vq)
    BY <1>13 DEF RoundRechecks, MaySleep, rigid, loopVars
  <2>2. ~(Done < InUse)
    BY <2>1, <1>0, <1>1, Reads
  <2>3. Done' = Done /\ InUse' = InUse
    BY <2>1 DEF Done, InUse, Ahead
  <2> QED BY <2>1, <2>2, <2>3, <1>0 DEF KickTold, Listening
<1>14. CASE RoundNotifies
  <2>1. /\ MaySleep /\ bpc = "notify" /\ vq' = vq /\ kickfd' = kickfd
        /\ gpc' = gpc /\ kick_pending' = kick_pending
    <3>1. /\ ~busy_wait /\ ~stopreq /\ can_send /\ bpc' = "top" /\ ~again'
      BY <1>14 DEF RoundNotifies, MaySleep, rigid
    <3>2. again' <=> ~busy_wait /\ count >= Budget
      BY <1>14 DEF RoundNotifies
    <3>3. count < Budget
      BY <3>1, <3>2, <1>0, QueueAssumption DEF KickPlace
    <3> QED BY <3>1, <3>3, <1>14
            DEF RoundNotifies, MaySleep, guestVars, batchVars
  <2>2. Done' = Done /\ InUse' = InUse
    BY <2>1 DEF Done, InUse, Ahead
  <2> QED BY <2>1, <2>2, <1>0 DEF KickTold, Listening
<1> QED BY <1>3, <1>4, <1>5, <1>6, <1>8, <1>9, <1>10, <1>11, <1>12, <1>13,
           <1>14, <1>15 DEF Step, Next, GuestStep, BackendStep

\* Where start_xmit is, in every step.
LEMMA NextPlace ==
  ASSUME ~MayReopen, QInv, KickPlace, Step
  PROVE  KickPlace' /\ dir' = dir
<1>1. CASE dir = "tx"
  BY <1>1, NextKickPlace
<1>2. CASE dir # "tx"
  <2>1. dir' = dir
    BY DEF Step, Next, GuestStep, BackendStep, vars, rigid, bpfhv_open,
       OpenEnable, bpfhv_start_xmit, bpfhv_close, bpfhv_intr, bpfhv_poll,
       PacketArrives, PollOther, vring_packed_xc, CleanDone, PublishOne,
       vring_packed_txp, vring_packed_rxp, RxPollComplete, vring_packed_xi,
       XiCheck, CloseNapiDisable, vring_packed_xr, CloseDone, RxAllocFails,
       RefillCutShort, CloseGoesOn, CloseLeaks, ThreadStarts,
       process_packets_poll, WakeUp, process_packets_spin, RoundBegins,
       RoundLooks, RoundEnables, RoundRechecks, RoundRemutes,
       RoundOutOfBudget, UseOne, UseFails, RoundNotifies
  <2> QED BY <1>2, <2>1 DEF KickPlace
<1> QED BY <1>1, <1>2

\* The kicks, in every step.
LEMMA NextKick ==
  ASSUME ~MayReopen, "error" \notin IfFails, QInv, Served, KickInv, Step
  PROVE  KickInv'
<1>1. KickPlace' /\ dir' = dir
  BY NextPlace DEF KickInv
<1>2. dir = "tx" => KickTold'
  BY NextKickTold
<1> QED BY <1>1, <1>2 DEF KickInv, KickTold

\* As vring_packed_init leaves it.
LEMMA InitKick == Init => KickInv
<1> SUFFICES ASSUME Init PROVE KickInv
  OBVIOUS
<1>1. PICK b \in Bufs : vq = vring_packed_init(b)
  BY DEF Init
<1>2. Listening /\ InUse = 0
  BY <1>1, InitQInv DEF vring_packed_init, Listening
<1> QED BY <1>2 DEF Init, KickInv, KickPlace, KickTold, MaySleep

\* No lost kick: on a transmit queue opened once, the polling backend sleeps
\* on an available descriptor only while start_xmit still owes the doorbell
\* for it, and vring_packed_kick_needed says so; also of what is published
\* before the thread has started.  Send may fail with EAGAIN; after another
\* error txq_drain goes to sleep with the kicks off, and the theorem does not
\* hold.
THEOREM NoLostKickHolds ==
  ASSUME ~MayReopen, "error" \notin IfFails PROVE Spec => []NoLostKick
<1> DEFINE Inv == QInv /\ Served /\ KickInv
<1>1. Init => Inv
  BY InitQInv, InitKick
<1>2. Inv /\ [Next]_vars => Inv'
  BY NextQInv, NextServed, NextKick DEF Step
<1>3. Inv => NoLostKick
  <2> SUFFICES ASSUME Inv, bpc = "top", ~busy_wait, ~kickfd, ~again, ~stopreq,
                      can_send, dir = "tx", vring_packed_more_avail(vq),
                      ~kick_pending
               PROVE  gpc = "kick" /\ vring_packed_kick_needed(vq, num)
    BY DEF NoLostKick
  <2>1. RingInv /\ ~Reclaiming /\ MaySleep
    BY DEF QInv, PlaceInv, Reclaiming, MaySleep
  <2>2. Done < InUse
    BY <2>1, Reads
  <2>3. gpc = "kick" /\ InUse = Done + 1 /\ num = 1
        /\ Listening
    BY <2>1, <2>2 DEF KickInv, KickPlace, KickTold
  <2> QED BY <2>1, <2>3, KickNeeded
<1> QED BY <1>1, <1>2, <1>3, PTL DEF Spec

-----------------------------------------------------------------------------
(***************************************************************************)
(* Interrupts.                                                             *)
(***************************************************************************)
\* The guest's event relative to its used position.
LEMMA EventRange ==
  ASSUME vq \in Virtq
  PROVE  EventOff \in (-N) .. (N - 1) /\ N \in Nat /\ N >= 2
<1>1. /\ vq.driver_event.idx \in Slots /\ vq.driver_event.wrap \in {0, 1}
      /\ vq.g.used \in Slots /\ vq.g.uwrap \in {0, 1} /\ N \in Nat /\ N >= 2
  BY PackedAssumption, QueueAssumption DEF Virtq, Event
<1> QED BY <1>1 DEF EventOff, Slots

\* It stays where it is while neither of the two moves, ...
LEMMA EventStays ==
  ASSUME vq'.g.used = vq.g.used, vq'.g.uwrap = vq.g.uwrap,
         vq'.driver_event = vq.driver_event
  PROVE  EventOff' = EventOff /\ (Armed' <=> Armed)
BY DEF EventOff, Armed

\* ... moves back as a buffer is completed, ...
LEMMA EventMoves ==
  ASSUME vq \in Virtq, vq'.g.used = NextIdx(vq.g.used),
         vq'.g.uwrap = NextWrap(vq.g.used, vq.g.uwrap),
         vq'.driver_event = vq.driver_event, EventOff > -N
  PROVE  EventOff' = EventOff - 1 /\ (Armed' <=> Armed)
<1> DEFINE u == vq.g.used
           w == vq.g.uwrap
           i == vq.driver_event.idx
           e == vq.driver_event.wrap
<1>1. /\ i \in 0 .. N - 1 /\ e \in {0, 1} /\ u \in 0 .. N - 1
      /\ w \in {0, 1} /\ N \in Nat /\ N >= 2
  BY PackedAssumption, QueueAssumption DEF Virtq, Event, Slots
<1>2. EventOff = IF e = w THEN i - u ELSE IF i < u THEN i - u + N
                 ELSE i - u - N
  BY DEF EventOff
<1>3. EventOff' = IF e = NextWrap(u, w) THEN i - NextIdx(u)
                  ELSE IF i < NextIdx(u) THEN i - NextIdx(u) + N
                  ELSE i - NextIdx(u) - N
  BY DEF EventOff
<1>4. Armed' <=> Armed
  BY DEF Armed
<1> HIDE DEF u, w, i, e
<1>5. CASE u + 1 >= N
  BY <1>1, <1>2, <1>3, <1>4, <1>5 DEF NextIdx, NextWrap
<1>6. CASE ~(u + 1 >= N)
  BY <1>1, <1>2, <1>3, <1>4, <1>6 DEF NextIdx, NextWrap
<1> QED BY <1>5, <1>6

\* ... and is put at descriptor number n by vring_packed_intr.
LEMMA EventPut ==
  ASSUME vq \in Virtq, NEW n \in 1 .. N, vq' = vring_packed_intr(vq, n)
  PROVE  EventOff' = n - 1 /\ Armed'
<1> DEFINE u == vq.g.used
           w == vq.g.uwrap
           x == u + n - 1
           i == EventIdx(vq, n)
           e == EventWrap(vq, n)
<1>1. u \in 0 .. N - 1 /\ w \in {0, 1} /\ N \in Nat /\ N >= 2
  BY PackedAssumption, QueueAssumption DEF Virtq, Slots
<1>2. i = IF x < N THEN x ELSE x - N
  <2>1. i = x % N
    BY DEF EventIdx
  <2>2. x \in (-N) .. (3 * N - 1) /\ x >= 0 /\ x < 2 * N /\ N \in Nat \ {0}
    BY <1>1
  <2> HIDE DEF x
  <2>3. x % N = IF x < 0 THEN x + N ELSE IF x < N THEN x
                ELSE IF x < 2 * N THEN x - N ELSE x - 2 * N
    BY <2>2, Remainder
  <2> QED BY <2>1, <2>2, <2>3
<1>3. e = IF x >= N THEN 1 - w ELSE w
  BY DEF EventWrap
<1>4. /\ vq'.g = vq.g
      /\ vq'.driver_event = [flags |-> "DESC", idx |-> i, wrap |-> e]
  <2>1. n \in 0 .. N /\ n # 0
    BY <1>1
  <2>2. vq'.g = vq.g
    BY <2>1, IntrEffect
  <2>3. vq'.driver_event = [flags |-> "DESC", idx |-> i, wrap |-> e]
    BY <2>1, IntrEvent
  <2> QED BY <2>2, <2>3
<1> HIDE DEF i, e
<1>5. EventOff' = IF e = w THEN i - u ELSE IF i < u THEN i - u + N
                  ELSE i - u - N
  BY <1>4 DEF EventOff
<1>6. Armed'
  BY <1>4 DEF Armed
<1> HIDE DEF u, w
<1> QED BY <1>1, <1>2, <1>3, <1>5, <1>6

\* The answer of vring_packed_intr: is descriptor number n used?
LEMMA IntrCheck ==
  ASSUME RingInv, ~Reclaiming, NEW n \in 1 .. N
  PROVE  vring_packed_intr_check(vq, n) <=> n - 1 < Done
<1> DEFINE i == EventIdx(vq, n)
           e == EventWrap(vq, n)
           x == vq.g.used + n - 1
<1>1. /\ vq \in Virtq /\ vq.g.used \in 0 .. N - 1 /\ vq.g.uwrap \in {0, 1}
      /\ N \in Nat /\ N >= 2 /\ Done \in 0 .. InUse /\ InUse \in 0 .. N
  <2>1. vq \in Virtq /\ Done \in 0 .. InUse /\ InUse \in 0 .. N
    BY DEF RingInv, PosInv
  <2>2. vq.g.used \in 0 .. N - 1 /\ vq.g.uwrap \in {0, 1}
    BY <2>1 DEF Virtq, Slots
  <2>3. N \in Nat /\ N >= 2
    BY PackedAssumption, QueueAssumption
  <2> QED BY <2>1, <2>2, <2>3
<1>2. i = IF x < N THEN x ELSE x - N
  <2>1. i = x % N
    BY DEF EventIdx
  <2>2. x \in (-N) .. (3 * N - 1) /\ x >= 0 /\ x < 2 * N /\ N \in Nat \ {0}
    BY <1>1
  <2> HIDE DEF x
  <2>3. x % N = IF x < 0 THEN x + N ELSE IF x < N THEN x
                ELSE IF x < 2 * N THEN x - N ELSE x - 2 * N
    BY <2>2, Remainder
  <2> QED BY <2>1, <2>2, <2>3
<1>3. e = IF x >= N THEN 1 - vq.g.uwrap ELSE vq.g.uwrap
  BY DEF EventWrap
<1> HIDE DEF i, e
<1>4. i \in Slots /\ Off(i) = n - 1 /\ Lap(i) = e /\ e \in {0, 1}
  BY <1>1, <1>2, <1>3 DEF Off, Lap, Slots
<1>5. /\ vq.desc[i].avail = IF Off(i) < InUse THEN Lap(i) ELSE 1 - Lap(i)
      /\ vq.desc[i].used = IF Off(i) < Done THEN Lap(i) ELSE 1 - Lap(i)
  BY <1>4 DEF RingInv, FlagInv
<1>6. vring_packed_desc_is_used(vq, i, e) <=> n - 1 < Done
  BY <1>1, <1>4, <1>5 DEF vring_packed_desc_is_used
<1> QED BY <1>6 DEF vring_packed_intr_check, i, e

\* A backend that passed the event in this round is told to interrupt.
LEMMA IntrNeeded ==
  ASSUME RingInv, ~Reclaiming, Armed, NEW n \in Nat, n < 65536,
         EventOff < Done, Done - n <= EventOff, Done - EventOff <= N
  PROVE  n > 0 /\ vring_packed_intr_needed(vq, n)
<1> DEFINE ev == vq.driver_event
           i  == vq.h.used
           w  == vq.h.uwrap
           d  == Done - EventOff
<1>1. /\ vq \in Virtq /\ ev \in Event /\ i \in Slots /\ w \in {0, 1}
      /\ vq.g.used \in Slots /\ vq.g.uwrap \in {0, 1} /\ N \in Nat /\ N >= 2
      /\ InUse \in 0 .. N /\ Done \in 0 .. InUse
      /\ ev.idx \in Slots /\ ev.wrap \in {0, 1} /\ ev.flags = "DESC"
  BY PackedAssumption, QueueAssumption DEF RingInv, PosInv, Virtq, Armed, Event
<1>2. EventOff \in (-N) .. (N - 1)
  BY <1>1, EventRange
<1>3. d \in Int /\ 1 <= d /\ d <= n /\ n > 0 /\ d <= N
  BY <1>1, <1>2
<1>4. d = IF ev.wrap = w THEN i - ev.idx ELSE i - ev.idx + N
  BY <1>1, <1>2, <1>3 DEF Done, Ahead, EventOff, Slots
<1> HIDE DEF ev, i, w, d
<1>5. EventPassed(ev, i, w, n)
  BY <1>1, <1>3, <1>4, Passed
<1> QED BY <1>3, <1>5 DEF vring_packed_intr_needed, ev, i, w

\* The steps of the backend thread, and those that concern nobody here.
HostStep ==
  \/ PacketArrives \/ ThreadStarts \/ PollOther \/ process_packets_poll
  \/ process_packets_spin \/ RoundBegins \/ RoundLooks \/ RoundEnables
  \/ RoundRechecks \/ RoundRemutes \/ RoundOutOfBudget \/ UseOne \/ UseFails
  \/ RoundNotifies \/ UNCHANGED vars

\* They leave the guest alone.
LEMMA HostSteps ==
  ASSUME QInv, Step, HostStep, ~Reclaiming
  PROVE  /\ UNCHANGED <<rigid, guestVars>> /\ ~Reclaiming'
         /\ InUse' = InUse /\ EventOff' = EventOff /\ (Armed' <=> Armed)
         /\ ArmedAt' = ArmedAt
         /\ Done' = (IF UseOne THEN Done + 1 ELSE Done)
<1>1. UNCHANGED <<rigid, guestVars>>
  BY DEF HostStep, PacketArrives, ThreadStarts, PollOther,
     process_packets_poll, WakeUp, process_packets_spin, RoundBegins,
     RoundLooks, RoundEnables, RoundRechecks, RoundRemutes, RoundOutOfBudget,
     UseOne, UseFails, RoundNotifies, vars
<1>2. ~Reclaiming' /\ dir' = dir
  BY <1>1 DEF Reclaiming, guestVars, rigid
<1>3. CASE UseOne
  <2>1. /\ InUse' = InUse /\ Done' = Done + 1 /\ vq'.g = vq.g
        /\ vq'.driver_event = vq.driver_event
    <3>1. ~ThreadStarts
      BY <1>3 DEF UseOne, ThreadStarts
    <3> QED BY <3>1, <1>2, <1>3, RingSteps DEF Step, BackendStep
  <2>2. EventOff' = EventOff /\ (Armed' <=> Armed)
    BY <2>1, EventStays
  <2> QED BY <1>1, <1>2, <1>3, <2>1, <2>2 DEF ArmedAt
<1>4. CASE ~UseOne
  <2>1. vq'.driver_event = vq.driver_event /\ ~PublishOne /\ ~Gets
    <3>1. vq \in Virtq
      BY DEF QInv, RingInv, PosInv
    <3>2. vq'.driver_event = vq.driver_event
      <4>1. \/ vq' = vq \/ vq' = vring_packed_notification(vq, TRUE)
            \/ vq' = vring_packed_notification(vq, FALSE)
        BY <1>4 DEF QInv, PlaceInv, HostStep, PacketArrives, ThreadStarts,
           PollOther, process_packets_poll, WakeUp, process_packets_spin,
           RoundBegins, RoundLooks, RoundEnables, RoundRechecks, RoundRemutes,
           RoundOutOfBudget, UseFails, RoundNotifies, vars
      <4> QED BY <3>1, <4>1, NotificationEffect
    <3>3. held' = held
      BY <1>1 DEF guestVars
    <3>4. left' = left /\ gpc' = gpc
      BY <1>1 DEF guestVars, batchVars
    <3>5. ~PublishOne
      BY <3>3 DEF PublishOne
    <3>6. ~Gets
      <4> SUFFICES ASSUME Gets PROVE FALSE
        OBVIOUS
      <4>0. /\ vring_packed_more_used(vq) /\ vq' = vring_packed_get(vq)
            /\ held' = held \cup {GotCookie(vq)}
        BY DEF Gets, vring_packed_xc, RxAllocFails
      <4>1. Done >= 1 /\ InUse >= 1
        BY <4>0, Reads DEF QInv, RingInv, PosInv
      <4>2. GotCookie(vq) \in Bufs \ held
        BY <1>2, <4>0, <4>1, GetKeepsRing DEF QInv
      <4> QED BY <3>3, <4>0, <4>2
    <3> QED BY <3>2, <3>5, <3>6
  <2>2. RingSame /\ InUse' = InUse /\ Done' = Done
    BY <1>2, <1>4, <2>1, OtherSteps
  <2>3. EventOff' = EventOff /\ (Armed' <=> Armed)
    BY <2>1, <2>2, EventStays DEF RingSame
  <2> QED BY <1>1, <1>2, <1>4, <2>2, <2>3 DEF ArmedAt
<1> QED BY <1>3, <1>4

\* The backend's count.
LEMMA NextCount ==
  ASSUME QInv, CountPlace, Step
  PROVE  CountPlace'
<1>0. PlaceInv /\ Budget \in Nat
  BY QueueAssumption DEF QInv
<1>1. CASE OpenEnable
  <2>1. bpc = "halted" /\ bpc' = "start" /\ count' = count
    BY <1>0, <1>1 DEF OpenEnable, PlaceInv
  <2> QED BY <2>1 DEF CountPlace, InRound
<1>2. CASE UseOne
  <2>1. count' = count + 1 /\ count < Budget /\ bpc' = "look"
    BY <1>2 DEF UseOne
  <2> QED BY <2>1, <1>0 DEF CountPlace, InRound
<1>3. CASE RoundNotifies
  <2>1. count' = 0
    BY <1>3 DEF RoundNotifies
  <2> QED BY <2>1, <1>0 DEF CountPlace, InRound
<1>4. CASE \/ RoundBegins \/ RoundLooks \/ RoundEnables \/ RoundRechecks
           \/ RoundRemutes \/ RoundOutOfBudget \/ UseFails
  <2>1. /\ count' = count
        /\ bpc' \in {"look", "enable", "recheck", "remute", "use", "notify"}
    <3>1. CASE RoundLooks
      <4>1. \/ bpc' = "use" \/ bpc' = "notify" \/ bpc' = "enable"
        <5>1. CASE vring_packed_more_avail(vq)
          BY <3>1, <5>1 DEF RoundLooks
        <5>2. CASE ~vring_packed_more_avail(vq) /\ busy_wait
          BY <3>1, <5>2 DEF RoundLooks
        <5>3. CASE ~vring_packed_more_avail(vq) /\ ~busy_wait
          BY <3>1, <5>3 DEF RoundLooks
        <5> QED BY <5>1, <5>2, <5>3
      <4> QED BY <3>1, <4>1 DEF RoundLooks
    <3> QED BY <3>1, <1>4
            DEF RoundBegins, RoundEnables, RoundRechecks, RoundRemutes,
                RoundOutOfBudget, UseFails
  <2> QED BY <2>1 DEF CountPlace, InRound
<1>5. CASE ThreadStarts \/ process_packets_poll \/ PollOther
           \/ process_packets_spin
  <2>1. /\ bpc \in {"start", "top"} /\ bpc' \in {"top", "begin", "halted"}
        /\ count' = count
    BY <1>5 DEF ThreadStarts, process_packets_poll, PollOther, WakeUp,
       process_packets_spin
  <2> QED BY <2>1 DEF CountPlace, InRound
<1>6. CASE \/ bpfhv_open \/ bpfhv_start_xmit \/ bpfhv_close \/ bpfhv_intr
           \/ bpfhv_poll \/ vring_packed_xc \/ CleanDone \/ PublishOne
           \/ vring_packed_txp \/ vring_packed_rxp \/ RxPollComplete
           \/ vring_packed_xi \/ XiCheck \/ CloseNapiDisable
           \/ vring_packed_xr \/ CloseDone \/ RxAllocFails
           \/ RefillCutShort \/ CloseGoesOn \/ CloseLeaks
           \/ PacketArrives \/ UNCHANGED vars
  <2>1. bpc' = bpc /\ count' = count
    BY <1>6 DEF bpfhv_open, bpfhv_start_xmit, bpfhv_close, bpfhv_intr,
      bpfhv_poll, vring_packed_xc, CleanDone, PublishOne, vring_packed_txp,
      vring_packed_rxp, RxPollComplete, vring_packed_xi, XiCheck,
      CloseNapiDisable, vring_packed_xr, CloseDone, RxAllocFails,
      RefillCutShort, CloseGoesOn, CloseLeaks, PacketArrives, vars, beVars
  <2> QED BY <2>1 DEF CountPlace, InRound
<1> QED BY <1>1, <1>2, <1>3, <1>4, <1>5, <1>6
        DEF Step, Next, GuestStep, BackendStep

\* The event of the guest, in every step of the guest.
LEMMA NextEventPlace ==
  ASSUME ~MayReopen, QInv, KickPlace, EventPlace, Step
  PROVE  EventPlace'
<1>0. /\ PlaceInv /\ RingInv /\ QInv' /\ PlaceInv' /\ vq \in Virtq
      /\ InUse \in 0 .. N /\ (~Reclaiming => Done \in 0 .. InUse)
      /\ N \in Nat /\ N >= 2
  BY NextQInv, PackedAssumption, QueueAssumption DEF QInv, RingInv, PosInv
<1>1. Live \/ gpc \in {"arm", "check"} => ~Reclaiming
  BY <1>0 DEF Live, PlaceInv, Reclaiming
<1>2. Live' \/ gpc' \in {"arm", "check"} => ~Reclaiming'
  BY <1>0 DEF Live, PlaceInv, Reclaiming
<1>3. EventOff \in (-N) .. (N - 1)
  BY <1>0, EventRange
<1>4. ArmedAt \in Int /\ (dir = "tx" => ArmedAt = InUse \div 2)
      /\ (dir # "tx" => ArmedAt = 0)
  BY <1>0 DEF ArmedAt
<1>5. CASE HostStep
  <2>1. CASE ~Reclaiming
    <3>1. /\ UNCHANGED <<rigid, guestVars>> /\ InUse' = InUse
          /\ EventOff' = EventOff /\ (Armed' <=> Armed) /\ ArmedAt' = ArmedAt
          /\ Done' = (IF UseOne THEN Done + 1 ELSE Done)
      BY <1>5, <2>1, HostSteps
    <3>2. UseOne => dev \notin {"new", "opening"}
      BY <1>0 DEF UseOne, PlaceInv
    <3>3. UNCHANGED <<dir, gpc, op, min, napi, dev>>
      BY <3>1 DEF rigid, guestVars, batchVars
    <3> QED BY <3>1, <3>2, <3>3 DEF EventPlace, Live, Alert
  <2>2. CASE Reclaiming
    <3>1. UNCHANGED <<gpc, napi, dev>>
      BY <1>5 DEF HostStep, PacketArrives, ThreadStarts, PollOther,
         process_packets_poll, WakeUp, process_packets_spin, RoundBegins,
         RoundLooks, RoundEnables, RoundRechecks, RoundRemutes,
         RoundOutOfBudget, UseOne, UseFails, RoundNotifies, vars, guestVars
    <3>2. gpc \notin {"arm", "check"} /\ ~Live
      BY <1>1, <2>2
    <3> QED BY <3>1, <3>2 DEF EventPlace, Live
  <2> QED BY <2>1, <2>2
\* Opening and closing.
<1>6. CASE bpfhv_open
  <2>1. /\ dev = "new" /\ dev' = "opening" /\ vq' = vq /\ dir' = dir
        /\ op' = "open"
        /\ gpc' \in {"publish", "enable"} /\ napi' = napi /\ op = "none"
        /\ gpc = "idle"
    BY <1>0, <1>6 DEF bpfhv_open, PlaceInv, rigid
  <2>2. /\ InUse' = InUse /\ Done' = Done /\ EventOff' = EventOff
        /\ (Armed' <=> Armed) /\ ArmedAt' = ArmedAt
    BY <2>1 DEF InUse, Done, Ahead, EventOff, Armed, ArmedAt
  <2> QED BY <2>1, <2>2 DEF EventPlace, Live, Alert
<1>7. CASE OpenEnable
  <2>1. dev = "opening" /\ dev' = "up" /\ dir' = dir /\ op' = "none"
        /\ gpc' = "idle" /\ napi' = "idle" /\ op = "open" /\ gpc = "enable"
    BY <1>0, <1>7 DEF OpenEnable, PlaceInv, rigid, Return
  <2>2. napi = "off"
    BY <2>1, <1>0 DEF PlaceInv
  <2>3. vq' = vq
    BY <1>7 DEF OpenEnable
  <2>4. /\ InUse' = InUse /\ Done' = Done /\ EventOff' = EventOff
        /\ (Armed' <=> Armed) /\ ArmedAt' = ArmedAt
    BY <2>1, <2>3 DEF InUse, Done, Ahead, EventOff, Armed, ArmedAt
  <2> QED BY <2>1, <2>2, <2>4 DEF EventPlace, Live, Alert
<1>8. CASE bpfhv_close
  <2>1. dev' = "closing" /\ vq' = vq /\ dir' = dir /\ gpc' = gpc /\ min' = min
    BY <1>8 DEF bpfhv_close, rigid, batchVars
  <2>2. ArmedAt' = ArmedAt
    BY <2>1 DEF InUse, Ahead, ArmedAt
  <2> QED BY <2>1, <2>2 DEF EventPlace, Live
<1>9. CASE CloseNapiDisable \/ CloseDone \/ vring_packed_xr \/ CloseGoesOn
           \/ CloseLeaks
  <2>1. /\ dev' \in {"closing", "down", "leaked"}
        /\ gpc' \notin {"arm", "check"}
    BY <1>0, <1>9 DEF CloseNapiDisable, CloseDone, vring_packed_xr, PlaceInv,
                      CloseGoesOn, CloseLeaks, Return
  <2> QED BY <2>1 DEF EventPlace, Live
\* start_xmit, interrupt and poll.
<1>10. CASE bpfhv_start_xmit
  <2>1. /\ dir = "tx" /\ dev = "up" /\ op' = "xmit" /\ gpc' = "clean"
        /\ op = "none" /\ dir' = dir /\ dev' = dev /\ napi' = napi
        /\ vq' = vq
    BY <1>0, <1>10 DEF bpfhv_start_xmit, PlaceInv, rigid
  <2>2. /\ InUse' = InUse /\ Done' = Done /\ EventOff' = EventOff
        /\ (Armed' <=> Armed) /\ ArmedAt' = ArmedAt
    BY <2>1 DEF InUse, Done, Ahead, EventOff, Armed, ArmedAt
  <2>3. Armed => EventOff = InUse \div 2
    BY <2>1, <1>4 DEF EventPlace, Live
  <2>4. InUse \div 2 >= InUse - (N + 1) \div 2
    BY <1>0
  <2> QED BY <2>1, <2>2, <2>3, <2>4, <1>0, <1>4 DEF EventPlace, Live, Alert
<1>11. CASE bpfhv_intr
  <2>1. /\ vq' = vq /\ UNCHANGED <<dir, gpc, op, min, dev>>
        /\ napi' = Scheduled
    BY <1>11 DEF bpfhv_intr, rigid, batchVars
  <2>2. /\ InUse' = InUse /\ Done' = Done /\ EventOff' = EventOff
        /\ (Armed' <=> Armed) /\ ArmedAt' = ArmedAt
    BY <2>1 DEF InUse, Done, Ahead, EventOff, Armed, ArmedAt
  <2>3. (dev = "up" => napi' # "off") /\ (Alert => Alert' \/ dev = "closing")
    BY <2>1, <1>0 DEF Scheduled, EventPlace, Alert, PlaceInv
  <2> QED BY <2>1, <2>2, <2>3 DEF EventPlace, Live
<1>12. CASE bpfhv_poll
  <2>1. /\ op' = "poll" /\ gpc' = "clean" /\ Alert
        /\ UNCHANGED <<dir, dev, napi>>
    BY <1>12 DEF bpfhv_poll, rigid, Alert
  <2>2. ~Armed' /\ dev \notin {"new", "opening"}
    <3>1. 0 \in 0 .. N /\ vq' = vring_packed_intr(vq, 0)
      BY <1>0, <1>12 DEF bpfhv_poll
    <3>2. vq'.driver_event.flags = "DISABLE"
      BY <3>1, <1>0, IntrEvent
    <3> QED BY <3>2, <2>1, <1>0 DEF Armed, Alert, PlaceInv
  <2> QED BY <2>1, <2>2 DEF EventPlace, Live, Alert
\* Completing and publishing.
<1>13. CASE vring_packed_xc
  <2>1. /\ gpc = "clean" /\ UNCHANGED <<dir, op, napi, dev>>
        /\ gpc' \in {"clean", "publish"}
        /\ dir = "tx" => gpc' = "clean"
    BY <1>13 DEF vring_packed_xc, rigid
  <2>2. dev \notin {"new", "opening"} /\ op # "open"
        /\ (op = "xmit" => dir = "tx" /\ dev = "up")
    BY <2>1, <1>0 DEF PlaceInv
  <2>3. CASE op = "xmit" /\ Armed
    <3>1. dir = "tx" /\ dev = "up" /\ ~Reclaiming /\ ~Reclaiming'
      BY <2>1, <2>2, <2>3, <1>1, <1>2 DEF Live
    <3>2. /\ InUse' = InUse - 1 /\ Done >= 1 /\ vq'.g.used = NextIdx(vq.g.used)
          /\ vq'.g.uwrap = NextWrap(vq.g.used, vq.g.uwrap)
          /\ vq'.driver_event = vq.driver_event
      BY <3>1, <1>13, RingSteps DEF Gets
    <3>3. /\ EventOff >= InUse - (N + 1) \div 2 /\ EventOff <= InUse \div 2
          /\ InUse >= 1
      BY <2>1, <2>3, <3>1, <3>2, <1>0, <1>4 DEF EventPlace, Live
    <3>4. EventOff > -N
      BY <3>3, <1>0, <1>3
    <3>5. EventOff' = EventOff - 1 /\ Armed'
      BY <3>2, <3>4, <2>3, <1>0, EventMoves
    <3>6. /\ EventOff' <= InUse' \div 2
          /\ EventOff' >= InUse' - (N + 1) \div 2
      BY <3>2, <3>3, <3>5, <1>0, <1>3
    <3>7. ArmedAt' = InUse' \div 2
      BY <2>1, <3>1 DEF ArmedAt
    <3>8. InUse' \in Int
      BY <3>2, <1>0
    <3> QED BY <2>1, <2>2, <2>3, <3>1, <3>5, <3>6, <3>7, <3>8, <1>0
            DEF EventPlace, Live, Alert
  <2>4. CASE op = "xmit" /\ ~Armed
    <3>1. ~Reclaiming /\ ~Reclaiming' /\ dev = "up"
      BY <2>1, <2>2, <2>4, <1>1, <1>2 DEF Live
    <3>2. ~Armed'
      BY <3>1, <2>4, <1>13, RingSteps DEF Armed, Gets
    <3> QED BY <3>1, <3>2, <2>1, <2>2, <2>4 DEF EventPlace, Live, Alert
  <2>5. CASE op = "poll"
    <3>1. CASE Live
      <4>1. ~Reclaiming /\ ~Reclaiming' /\ dev = "up"
        BY <2>1, <2>2, <3>1, <1>1, <1>2 DEF Live
      <4>2. ~Armed' /\ Alert
        <5>1. ~Armed /\ Alert
          BY <2>1, <2>5, <3>1 DEF EventPlace
        <5> QED BY <5>1, <4>1, <1>13, RingSteps DEF Armed, Gets
      <4> QED BY <4>1, <4>2, <2>1, <2>2, <2>5 DEF EventPlace, Live, Alert
    <3>2. CASE ~Live
      BY <3>2, <2>1 DEF EventPlace, Live
    <3> QED BY <3>1, <3>2
  <2>6. CASE op \notin {"xmit", "poll"}
    <3>1. ~Live
      BY <2>1, <2>6, <1>0 DEF PlaceInv, Live
    <3> QED BY <3>1, <2>1 DEF EventPlace, Live
  <2> QED BY <2>3, <2>4, <2>5, <2>6
<1>19. CASE RxAllocFails
  <2>1. /\ gpc = "clean" /\ UNCHANGED <<dir, op, napi, dev>> /\ dir = "rx"
        /\ gpc' = IF op = "poll" THEN "complete" ELSE "dealloc"
    BY <1>19 DEF RxAllocFails, rigid
  <2>2. dev \notin {"new", "opening"} /\ op \in {"poll", "close"}
        /\ (op = "close" => dev = "closing")
    BY <2>1, <1>0 DEF PlaceInv
  <2>3. CASE op = "poll" /\ Live
    <3>1. ~Reclaiming /\ ~Reclaiming' /\ dev = "up"
      BY <2>1, <2>2, <2>3, <1>1, <1>2 DEF Live
    <3>2. ~Armed' /\ Alert
      <4>1. ~Armed /\ Alert
        BY <2>1, <2>3 DEF EventPlace
      <4> QED BY <4>1, <3>1, <1>19, RingSteps DEF Armed, Gets
    <3> QED BY <3>1, <3>2, <2>1, <2>2, <2>3 DEF EventPlace, Live, Alert
  <2>4. CASE ~(op = "poll" /\ Live)
    <3>1. ~Live
      BY <2>2, <2>4 DEF Live
    <3> QED BY <3>1, <2>1 DEF EventPlace, Live
  <2> QED BY <2>3, <2>4
<1>14. CASE PublishOne
  <2>1. /\ gpc = "publish" /\ UNCHANGED <<dir, op, napi, dev, min>>
        /\ gpc' \in {"publish", "kick"} /\ (dir = "tx" => gpc' = "kick")
    BY <1>14 DEF PublishOne, rigid, KickPlace
  <2>2. dir = "tx" => op = "xmit"
    BY <2>1, <1>0 DEF PlaceInv
  <2>3. CASE ~Live
    BY <2>1, <2>3 DEF EventPlace, Live
  <2>4. CASE Live
    <3>1. ~Reclaiming /\ ~Reclaiming'
      BY <2>1, <2>4, <1>1, <1>2 DEF Live
    <3>2. /\ InUse' = InUse + 1 /\ Done' = Done
          /\ EventOff' = EventOff /\ (Armed' <=> Armed)
      BY <3>1, <1>14, RingSteps, EventStays
    <3>3. /\ dir = "tx" => ArmedAt' = InUse' \div 2 /\ ArmedAt <= ArmedAt'
          /\ dir # "tx" => ArmedAt' = ArmedAt
      <4>1. InUse \div 2 <= (InUse + 1) \div 2
        BY <1>0
      <4> QED BY <4>1, <3>2, <2>1, <1>4 DEF ArmedAt
    <3>4. ArmedAt' \in Int
      BY <3>2, <3>3, <1>0, <1>4
    <3>5. Armed => EventOff <= ArmedAt'
      BY <2>4, <3>3, <3>4, <1>3, <1>4 DEF EventPlace
    <3>6. Armed /\ op = "xmit" =>
            EventOff >= InUse' - (N + 1) \div 2 - 1
      BY <2>1, <2>4, <3>2, <1>0, <1>3 DEF EventPlace
    <3>7. Armed /\ op # "xmit" => EventOff = ArmedAt'
      BY <2>2, <2>4, <3>3 DEF EventPlace
    <3>8. op = "xmit" => gpc' = "kick" /\ dev = "up"
      BY <2>1, <1>0 DEF PlaceInv
    <3> QED BY <2>1, <2>2, <2>4, <3>2, <3>5, <3>6, <3>7, <3>8
            DEF EventPlace, Live, Alert
  <2> QED BY <2>3, <2>4
<1>15. CASE CleanDone
  <2>1. /\ gpc = "clean" /\ UNCHANGED <<dir, vq, dev>>
    BY <1>15 DEF CleanDone, rigid
  <2>2. /\ InUse' = InUse /\ Done' = Done /\ EventOff' = EventOff
        /\ (Armed' <=> Armed) /\ ArmedAt' = ArmedAt
    BY <2>1 DEF InUse, Done, Ahead, EventOff, Armed, ArmedAt
  <2>3. /\ op = "xmit" => dir = "tx" /\ dev = "up"
        /\ op \in {"xmit", "poll", "close"} /\ (op = "close" => ~Live)
        /\ dev \notin {"new", "opening"}
    BY <2>1, <1>0 DEF PlaceInv, Live
  <2>9. Free \in Nat
    BY <1>0, FreeType
  <2>4. CASE op = "xmit" /\ Free = 0
    <3>1. op' = "none" /\ gpc' = "idle" /\ napi' = napi
      BY <2>4, <1>15 DEF CleanDone, Return
    <3>2. InUse = N
      <4>1. lost = {} /\ held \ lost = held
        BY <2>3, <2>4, <1>0 DEF PlaceInv
      <4> QED BY <4>1, <2>4, <1>0, HeldCount DEF Free, RingInv, HeldInv
    <3>3. Armed => EventOff = ArmedAt
      <4>1. N \div 2 <= N - (N + 1) \div 2 /\ N - (N + 1) \div 2 <= N \div 2
        BY <1>0
      <4>2. Armed => EventOff >= N - (N + 1) \div 2 /\ EventOff <= N \div 2
        BY <2>1, <2>3, <2>4, <3>2, <1>0, <1>3, <1>4 DEF EventPlace, Live
      <4>3. ArmedAt = N \div 2
        BY <2>3, <2>4, <3>2, <1>4
      <4> QED BY <4>1, <4>2, <4>3, <1>0, <1>3
    <3> QED BY <2>1, <2>2, <2>3, <2>4, <3>1, <3>3, <1>3, <1>4
            DEF EventPlace, Live, Alert
  <2>5. CASE op = "xmit" /\ Free > 0
    <3>1. op' = op /\ gpc' = "publish" /\ napi' = napi
      BY <2>5, <2>9, <1>15 DEF CleanDone
    <3> QED BY <2>1, <2>2, <2>3, <2>5, <3>1 DEF EventPlace, Live, Alert
  <2>6. CASE op = "poll" /\ dir = "tx"
    <3>1. op' = op /\ gpc' = "arm" /\ napi' = napi /\ min' = HALF_PENDING_BUFS
      BY <2>6, <1>15 DEF CleanDone
    <3>2. min' = 1 + ArmedAt'
      BY <2>2, <2>6, <3>1, <1>0, <1>4, HalfPending
    <3> QED BY <2>1, <2>2, <2>3, <2>6, <3>1, <3>2 DEF EventPlace, Live, Alert
  <2>7. CASE op = "poll" /\ dir # "tx"
    <3>1. \/ op' = op /\ gpc' = "complete" /\ napi' = napi
          \/ op' = "none" /\ gpc' = "idle" /\ (dev # "closing" => napi' = napi)
      BY <2>7, <1>15 DEF CleanDone, Return
    <3> QED BY <2>1, <2>2, <2>3, <2>7, <3>1 DEF EventPlace, Live, Alert
  <2>8. CASE op = "close"
    <3>1. gpc' = "reclaim"
      BY <2>8, <1>15 DEF CleanDone
    <3> QED BY <2>1, <2>3, <2>8, <3>1 DEF EventPlace, Live
  <2> QED BY <2>3, <2>4, <2>5, <2>6, <2>7, <2>8, <2>9
<1>16. CASE \/ vring_packed_txp \/ vring_packed_rxp \/ RxPollComplete
            \/ RefillCutShort
  <2>1. UNCHANGED <<dir, vq, dev, op>>
    BY <1>16 DEF vring_packed_txp, vring_packed_rxp, RxPollComplete,
                 RefillCutShort, rigid
  <2>2. /\ InUse' = InUse /\ Done' = Done /\ EventOff' = EventOff
        /\ (Armed' <=> Armed) /\ ArmedAt' = ArmedAt
    BY <2>1 DEF InUse, Done, Ahead, EventOff, Armed, ArmedAt
  <2>3. CASE vring_packed_txp
    <3>1. gpc = "kick" /\ gpc' = "arm" /\ napi' = napi /\ dir = "tx"
          /\ min' = HALF_PENDING_BUFS
      BY <2>3 DEF vring_packed_txp
    <3>2. min' = 1 + ArmedAt' /\ op = "xmit"
      BY <2>2, <3>1, <1>0, <1>4, HalfPending DEF PlaceInv
    <3> QED BY <2>1, <2>2, <3>1, <3>2 DEF EventPlace, Live, Alert
  <2>4. CASE vring_packed_rxp
    <3>1. Free \in Nat
      BY <1>0, FreeType
    <3>2. gpc = "kick" /\ napi' = napi /\ dir = "rx"
          /\ gpc' \in {"publish", "enable", "clean"}
      BY <2>4, <3>1 DEF vring_packed_rxp
    <3>3. op # "xmit" /\ (op = "poll" => gpc' # "enable")
      BY <2>4, <3>1, <3>2, <1>0 DEF PlaceInv, vring_packed_rxp
    <3> QED BY <2>1, <2>2, <3>2, <3>3 DEF EventPlace, Live, Alert
  <2>5. CASE RxPollComplete
    <3>1. gpc = "complete" /\ gpc' = "arm" /\ min' = 1 /\ dir = "rx"
          /\ op = "poll" /\ napi' = napi_complete
      BY <2>5, <1>0 DEF RxPollComplete, PlaceInv
    <3>2. min' = 1 + ArmedAt' /\ napi' # "off" /\ dev \notin {"new", "opening"}
      BY <2>2, <3>1, <1>0, <1>4 DEF napi_complete, PlaceInv
    <3> QED BY <2>1, <2>2, <3>1, <3>2 DEF EventPlace, Live
  <2>6. CASE RefillCutShort
    <3>1. gpc = "publish" /\ gpc' = "kick" /\ napi' = napi /\ dir = "rx"
          /\ op # "xmit"
      BY <2>6, <1>0 DEF RefillCutShort, PlaceInv
    <3> QED BY <2>1, <2>2, <3>1 DEF EventPlace, Live, Alert
  <2> QED BY <2>3, <2>4, <2>5, <2>6, <1>16
\* Arming and checking.
<1>17. CASE vring_packed_xi
  <2>1. /\ gpc = "arm" /\ gpc' = "check" /\ vq' = vring_packed_intr(vq, min)
        /\ UNCHANGED <<dir, op, min, napi, dev, held>>
    BY <1>17 DEF vring_packed_xi, rigid, batchVars
  <2>2. min = 1 + ArmedAt /\ min \in 1 .. N
    <3>1. ArmedAt >= 0 /\ min \in 0 .. N /\ min = 1 + ArmedAt
      <4>1. InUse \div 2 >= 0
        BY <1>0
      <4> QED BY <4>1, <2>1, <1>0, <1>4 DEF EventPlace, PlaceInv
    <3> QED BY <3>1, <1>4
  <2>3. EventOff' = ArmedAt /\ Armed'
    BY <2>1, <2>2, <1>0, <1>4, EventPut
  <2>4. InUse' = InUse /\ Done' = Done /\ ArmedAt' = ArmedAt
    <3>1. min \in 0 .. N
      BY <1>0 DEF PlaceInv
    <3>2. RingSame
      BY <2>1, <3>1, <1>0, IntrSame
    <3> QED BY <3>2, <2>1 DEF RingSame, InUse, Done, Ahead, ArmedAt
  <2>5. dev \notin {"new", "opening"}
    BY <2>1, <1>0 DEF PlaceInv
  <2>6. op = "xmit" => dir = "tx"
    BY <1>0 DEF PlaceInv
  <2>7. dir = "tx" => ArmedAt >= InUse - (N + 1) \div 2 - 1
    <3>1. InUse \div 2 >= InUse - (N + 1) \div 2 - 1
      BY <1>0
    <3> QED BY <3>1, <1>4
  <2> QED BY <2>1, <2>2, <2>3, <2>4, <2>5, <2>6, <2>7, <1>4
          DEF EventPlace, Live
<1>18. CASE XiCheck
  <2>1. /\ gpc = "check" /\ gpc' = "idle" /\ op' = "none"
        /\ UNCHANGED <<dir, vq, dev>>
    BY <1>18 DEF XiCheck, Return, rigid
  <2>2. /\ InUse' = InUse /\ Done' = Done /\ EventOff' = EventOff
        /\ (Armed' <=> Armed) /\ ArmedAt' = ArmedAt
    BY <2>1 DEF InUse, Done, Ahead, EventOff, Armed, ArmedAt
  <2>3. dev = "up" => napi' # "off"
    BY <2>1, <1>0, <1>18 DEF XiCheck, EventPlace, napi_complete, PlaceInv
  <2> QED BY <2>1, <2>2, <2>3, <1>3, <1>4 DEF EventPlace, Live
<1> QED BY <1>5, <1>6, <1>7, <1>8, <1>9, <1>10, <1>11, <1>12, <1>13, <1>14,
           <1>15, <1>16, <1>17, <1>18, <1>19
        DEF Step, Next, GuestStep, BackendStep, HostStep

\* Half of what is pending.
LEMMA Half == \A x \in Nat : x \div 2 \in Nat
OBVIOUS

\* The event can only be passed while the device is up.
LEMMA PassedPlace ==
  ASSUME ~MayReopen, QInv, KickPlace, EventPlace, Step, Live', Armed',
         EventOff' < Done'
  PROVE  /\ dev = "up" /\ dev' = "up" /\ ~OpenEnable /\ Live
         /\ ~Reclaiming /\ ~Reclaiming' /\ EventPlace' /\ PlaceInv'
         /\ Done \in 0 .. InUse /\ EventOff \in (-N) .. (N - 1)
<1>0. /\ PlaceInv /\ RingInv /\ QInv' /\ PlaceInv' /\ vq \in Virtq
      /\ InUse \in 0 .. N /\ N \in Nat /\ N >= 2
      /\ EventPlace /\ EventPlace'
  BY NextQInv, NextEventPlace, PackedAssumption, QueueAssumption
     DEF QInv, RingInv, PosInv
<1>1. dev' \notin {"new", "opening"} /\ dev' = "up"
  <2>1. ArmedAt' >= 0
    <3>1. PICK n \in 0 .. N : n = InUse'
      BY <1>0 DEF QInv, RingInv, PosInv
    <3>2. n \in Nat /\ ArmedAt' = IF dir' = "tx" THEN n \div 2 ELSE 0
      BY <3>1, <1>0 DEF ArmedAt
    <3> QED BY <3>2, Half
  <2>2. CASE dev' \in {"new", "opening"}
    <3>1. Done' = 0 /\ op' # "xmit"
      BY <2>2, <1>0 DEF EventPlace, PlaceInv
    <3>2. EventOff' = ArmedAt'
      BY <3>1, <1>0 DEF EventPlace
    <3>3. ArmedAt' \in Int
      BY <1>0 DEF QInv, RingInv, PosInv, ArmedAt
    <3> QED BY <2>1, <3>1, <3>2, <3>3
  <2> QED BY <2>2 DEF Live
<1>2. ~OpenEnable
  <2> SUFFICES ASSUME OpenEnable PROVE FALSE
    OBVIOUS
  <2>1. dev = "opening" /\ gpc = "enable" /\ op = "open" /\ op' = "none"
        /\ dir' = dir
    BY <1>0 DEF OpenEnable, PlaceInv, Return, rigid
  <2>2. Done = 0 /\ vq' = vq
    BY <2>1, <1>0 DEF EventPlace, OpenEnable
  <2>3. Done' = 0
    BY <2>2 DEF Done, Ahead
  <2>4. EventOff' = ArmedAt' /\ ArmedAt' \in Nat
    <3>1. PICK n \in 0 .. N : n = InUse'
      BY <1>0 DEF QInv, RingInv, PosInv
    <3>2. n \in Nat /\ ArmedAt' = IF dir' = "tx" THEN n \div 2 ELSE 0
      BY <3>1, <1>0 DEF ArmedAt
    <3>3. EventOff' = ArmedAt'
      BY <2>1, <1>0 DEF EventPlace
    <3> QED BY <3>2, <3>3, Half
  <2> QED BY <2>3, <2>4
<1>3. dev = "up" /\ ~Reclaiming /\ ~Reclaiming' /\ Live
  <2>1. dev = "up"
    <3>1. CASE HostStep
      BY <3>1, <1>1
         DEF HostStep, vars, guestVars, PacketArrives, PollOther, WakeUp,
         ThreadStarts,
         process_packets_poll, process_packets_spin, RoundBegins, RoundLooks,
         RoundEnables, RoundRechecks, RoundRemutes, RoundOutOfBudget, UseOne,
         UseFails, RoundNotifies
    <3>2. CASE bpfhv_open \/ bpfhv_close \/ CloseDone \/ CloseLeaks
      BY <3>2, <1>1 DEF bpfhv_open, bpfhv_close, CloseDone, CloseLeaks
    <3>3. CASE \/ bpfhv_start_xmit \/ bpfhv_intr \/ bpfhv_poll
               \/ vring_packed_xc \/ CleanDone \/ PublishOne
               \/ vring_packed_txp \/ vring_packed_rxp \/ RxPollComplete
               \/ vring_packed_xi \/ XiCheck \/ CloseNapiDisable
               \/ vring_packed_xr \/ RxAllocFails \/ RefillCutShort
               \/ CloseGoesOn
      <4>1. dev' = dev
        BY <3>3 DEF bpfhv_start_xmit, bpfhv_intr, bpfhv_poll, vring_packed_xc,
          CleanDone, PublishOne, vring_packed_txp, vring_packed_rxp,
          RxPollComplete, vring_packed_xi, XiCheck, CloseNapiDisable,
          vring_packed_xr, RxAllocFails, RefillCutShort, CloseGoesOn
      <4> QED BY <4>1, <1>1
    <3> QED BY <3>1, <3>2, <3>3, <1>2
            DEF Step, Next, GuestStep, BackendStep, HostStep
  <2> QED BY <2>1, <1>0, <1>1 DEF Live, PlaceInv, Reclaiming
<1>4. Done \in 0 .. InUse /\ EventOff \in (-N) .. (N - 1)
  BY <1>0, <1>3, EventRange DEF RingInv, PosInv
<1> QED BY <1>0, <1>1, <1>2, <1>3, <1>4

\* Somebody knows: c buffers were used and not notified, which counts as long
\* as r.
Tells(c, r) ==
  \/ irq \/ Alert
  \/ r /\ Done - c <= EventOff
  \/ op = "poll" /\ gpc = "check"

\* The guest keeps it so.
LEMMA GuestTold ==
  ASSUME ~MayReopen, QInv, KickPlace, EventPlace, Step, ~HostStep,
         NEW c \in Int, NEW r \in BOOLEAN,
         Live /\ Armed /\ EventOff < Done => Tells(c, r),
         Live', Armed', EventOff' < Done'
  PROVE  Tells(c, r)'
<1>0. /\ PlaceInv /\ RingInv /\ QInv' /\ PlaceInv' /\ vq \in Virtq
      /\ InUse \in 0 .. N /\ N \in Nat /\ N >= 2
      /\ EventPlace /\ EventPlace'
  BY NextQInv, PassedPlace, PackedAssumption, QueueAssumption
     DEF QInv, RingInv, PosInv
<1>1. dev' = "up" /\ dev' \notin {"new", "opening"}
  BY PassedPlace
<1>2. ~OpenEnable
  BY PassedPlace
<1>3. dev = "up" /\ ~Reclaiming /\ ~Reclaiming' /\ Live
  BY PassedPlace
<1>4. Done \in 0 .. InUse /\ EventOff \in (-N) .. (N - 1)
  BY PassedPlace
<1>6. ~bpfhv_intr => irq' = irq
  <2>1. CASE \/ bpfhv_start_xmit \/ bpfhv_intr \/ bpfhv_poll
             \/ vring_packed_xc \/ CleanDone \/ PublishOne
             \/ vring_packed_txp \/ vring_packed_rxp \/ RxPollComplete
             \/ RxAllocFails \/ RefillCutShort
    BY <2>1 DEF beVars, fds, bpfhv_start_xmit, bpfhv_intr, bpfhv_poll,
      vring_packed_xc, CleanDone, PublishOne, vring_packed_txp,
      vring_packed_rxp, RxPollComplete, RxAllocFails, RefillCutShort
  <2>2. CASE \/ bpfhv_open \/ bpfhv_close \/ vring_packed_xi \/ XiCheck
             \/ CloseNapiDisable \/ vring_packed_xr \/ CloseDone
             \/ CloseGoesOn \/ CloseLeaks
    BY <2>2 DEF beVars, fds, bpfhv_open, bpfhv_close, vring_packed_xi,
      XiCheck, CloseNapiDisable, vring_packed_xr, CloseDone, CloseGoesOn,
      CloseLeaks
  <2> QED BY <2>1, <2>2, <1>2
          DEF Step, Next, GuestStep, BackendStep, HostStep
<1>7. CASE bpfhv_intr
  <2>1. napi' = Scheduled /\ napi # "off"
    BY <1>0, <1>3, <1>7 DEF bpfhv_intr, EventPlace
  <2>2. Alert'
    BY <2>1, <1>0, <1>3 DEF Scheduled, Alert, PlaceInv
  <2> QED BY <2>2 DEF Tells
<1>8. CASE vring_packed_xi
  <2>1. /\ gpc = "arm" /\ gpc' = "check" /\ vq' = vring_packed_intr(vq, min)
        /\ UNCHANGED <<dir, op, min, napi, dev>> /\ irq' = irq
    BY <1>8 DEF vring_packed_xi, rigid, batchVars, fds
  <2>2. CASE op = "poll"
    BY <2>1, <2>2 DEF Tells
  <2>3. CASE op # "poll"
    <3>1. op = "xmit" /\ ~PublishOne /\ ~Gets /\ ~UseOne
      BY <2>1, <2>3, <1>0, <1>8
         DEF PlaceInv, PublishOne, Gets, vring_packed_xc, RxAllocFails,
             HostStep
    <3>2. InUse' = InUse /\ Done' = Done
      BY <3>1, <1>3, OtherSteps
    <3>3. CASE ~Armed
      <4>1. Alert
        BY <2>3, <3>3, <1>0, <1>3 DEF EventPlace
      <4> QED BY <4>1, <2>1 DEF Tells, Alert
    <3>4. CASE Armed
      <4>1. EventOff <= ArmedAt /\ EventOff' = ArmedAt' /\ ArmedAt' = ArmedAt
            /\ ArmedAt \in Int
        <5>1. EventOff <= ArmedAt
          BY <3>4, <1>0, <1>3 DEF EventPlace
        <5>2. ArmedAt' = ArmedAt /\ ArmedAt \in Int
          BY <2>1, <3>2, <1>0 DEF ArmedAt
        <5>3. EventOff' = ArmedAt'
          BY <2>1, <1>0 DEF EventPlace
        <5> QED BY <5>1, <5>2, <5>3
      <4>2. Tells(c, r)
        BY <4>1, <3>2, <3>4, <1>0, <1>3, <1>4
      <4>3. Done - c <= EventOff => Done' - c <= EventOff'
        BY <4>1, <3>2, <1>0, <1>4, <1>6, <1>8
      <4> QED BY <2>1, <2>3, <4>2, <4>3, <1>6, <1>8 DEF Tells, Alert
    <3> QED BY <3>3, <3>4
  <2> QED BY <2>2, <2>3
<1>9. CASE XiCheck
  <2>1. /\ gpc = "check" /\ vq' = vq /\ irq' = irq /\ Armed
        /\ Done' = Done /\ EventOff' = EventOff
    BY <1>9 DEF XiCheck, Done, Ahead, EventOff, Armed
  <2>2. Tells(c, r)
    BY <2>1, <1>0, <1>3
  <2>3. CASE op # "poll"
    <3>1. napi' = napi
      BY <2>3, <1>9 DEF XiCheck
    <3> QED BY <2>1, <2>2, <2>3, <3>1, <1>6, <1>9 DEF Tells, Alert
  <2>4. CASE op = "poll"
    <3>1. min = 1 + ArmedAt /\ EventOff = ArmedAt /\ ArmedAt \in Nat
      <4>1. InUse \div 2 \in Nat
        BY <1>0
      <4> QED BY <4>1, <2>1, <1>0, <1>3 DEF EventPlace, ArmedAt
    <3>2. min \in 1 .. N /\ min - 1 < Done
      BY <2>1, <3>1, <1>0, <1>4 DEF PlaceInv
    <3>3. vring_packed_intr_check(vq, min)
      BY <3>2, <1>0, <1>3, IntrCheck
    <3>4. napi' = "sched"
      BY <2>4, <3>3, <1>3, <1>9 DEF XiCheck
    <3> QED BY <3>4 DEF Tells, Alert
  <2> QED BY <2>3, <2>4
<1>10. CASE vring_packed_xc
  <2>1. gpc = "clean" /\ UNCHANGED <<dir, op, napi, dev>> /\ irq' = irq
    BY <1>10 DEF vring_packed_xc, rigid, fds
  <2>2. /\ InUse' = InUse - 1 /\ Done' = Done - 1 /\ Done >= 1
        /\ vq'.g.used = NextIdx(vq.g.used)
        /\ vq'.g.uwrap = NextWrap(vq.g.used, vq.g.uwrap)
        /\ vq'.driver_event = vq.driver_event
    BY <1>0, <1>3, <1>10, RingSteps DEF QInv, Gets
  <2>3. Armed /\ op = "xmit"
    <3>1. Armed
      BY <2>2 DEF Armed
    <3> QED BY <3>1, <2>1, <1>0, <1>3 DEF EventPlace, PlaceInv
  <2>4. EventOff > -N
    <3>1. EventOff >= InUse - (N + 1) \div 2
      BY <2>1, <2>3, <1>0, <1>3 DEF EventPlace
    <3> QED BY <3>1, <2>2, <1>0, <1>4
  <2>5. EventOff' = EventOff - 1
    BY <2>2, <2>4, <1>0, EventMoves
  <2>6. Tells(c, r)
    BY <2>2, <2>3, <2>5, <1>0, <1>3, <1>4
  <2>7. Done - c <= EventOff => Done' - c <= EventOff'
    BY <2>2, <2>5, <1>0, <1>4, <1>6, <1>10
  <2> QED BY <2>1, <2>3, <2>6, <2>7, <1>6, <1>10 DEF Tells, Alert
<1>15. CASE RxAllocFails
  <2>1. gpc = "clean" /\ op = "poll"
    BY <1>0, <1>3, <1>15 DEF RxAllocFails, PlaceInv
  <2>2. ~Armed
    BY <2>1, <1>0, <1>3 DEF EventPlace
  <2>3. vq'.driver_event = vq.driver_event
    BY <1>0, <1>3, <1>15, RingSteps DEF QInv, Gets
  <2> QED BY <2>2, <2>3 DEF Armed
<1>11. CASE PublishOne
  <2>1. gpc = "publish" /\ UNCHANGED <<dir, op, napi, dev>> /\ irq' = irq
    BY <1>11 DEF PublishOne, rigid, fds
  <2>2. Done' = Done /\ EventOff' = EventOff /\ Armed
    BY <1>0, <1>3, <1>11, RingSteps, EventStays DEF QInv
  <2>3. Tells(c, r)
    BY <2>2, <1>0, <1>3
  <2> QED BY <2>1, <2>2, <2>3, <1>6, <1>11 DEF Tells, Alert
<1>12. CASE \/ bpfhv_start_xmit \/ CleanDone \/ vring_packed_txp
            \/ vring_packed_rxp \/ RxPollComplete \/ RefillCutShort
  <2>1. /\ vq' = vq /\ gpc # "check" /\ irq' = irq
        /\ Done' = Done /\ EventOff' = EventOff /\ Armed
    BY <1>12 DEF bpfhv_start_xmit, CleanDone, vring_packed_txp, fds,
       vring_packed_rxp, RxPollComplete, RefillCutShort, Done, Ahead, EventOff,
       Armed
  <2>2. Tells(c, r) /\ op # "poll"
    BY <2>1, <1>0, <1>3 DEF EventPlace
  <2>3. napi' = napi
    BY <2>2, <1>0, <1>12 DEF bpfhv_start_xmit, CleanDone, vring_packed_txp,
       vring_packed_rxp, RxPollComplete, RefillCutShort, PlaceInv
  <2> QED BY <2>1, <2>2, <2>3, <1>6, <1>12 DEF Tells, Alert
<1>13. CASE bpfhv_poll
  <2>1. Alert'
    BY <1>13 DEF bpfhv_poll, Alert
  <2> QED BY <2>1 DEF Tells
<1>14. /\ ~bpfhv_open /\ ~bpfhv_close /\ ~CloseNapiDisable /\ ~CloseDone
       /\ ~vring_packed_xr /\ ~CloseGoesOn /\ ~CloseLeaks
  BY <1>0, <1>1, <1>3 DEF bpfhv_open, bpfhv_close, CloseNapiDisable, CloseDone,
     vring_packed_xr, CloseGoesOn, CloseLeaks, Reclaiming, PlaceInv
<1> QED BY <1>2, <1>7, <1>8, <1>9, <1>10, <1>11, <1>12, <1>13, <1>14,
           <1>15
        DEF Step, Next, GuestStep, BackendStep, HostStep

\* Whoever must know that the event was passed knows it: the interrupt is
\* raised, a poll is due, the round that passed it will ask, or the poll that
\* stored it will look.
LEMMA NextEventTold ==
  ASSUME ~MayReopen, QInv, KickPlace, EventInv, Step, BudgetFits
  PROVE  EventTold'
<1> SUFFICES ASSUME Live', Armed', EventOff' < Done'
             PROVE  Told'
  BY DEF EventTold
<1>0. /\ PlaceInv /\ RingInv /\ QInv' /\ PlaceInv' /\ vq \in Virtq
      /\ InUse \in 0 .. N /\ N \in Nat /\ N >= 2 /\ Budget \in Nat
      /\ CountPlace /\ EventPlace /\ EventPlace' /\ EventTold
      /\ count \in 0 .. Budget
  BY NextQInv, NextEventPlace, PackedAssumption, QueueAssumption
     DEF QInv, RingInv, PosInv, EventInv, CountPlace
<1>3. dev = "up" /\ ~Reclaiming /\ ~Reclaiming' /\ Live
  BY <1>0, PassedPlace
<1>4. Done \in 0 .. InUse /\ EventOff \in (-N) .. (N - 1)
  BY <1>0, PassedPlace
\* The backend.
<1>5. CASE HostStep
  <2>1. /\ UNCHANGED <<rigid, guestVars>> /\ EventOff' = EventOff
        /\ (Armed' <=> Armed) /\ Done' = (IF UseOne THEN Done + 1 ELSE Done)
        /\ InUse' = InUse
    BY <1>3, <1>5, HostSteps
  <2>2. UNCHANGED <<gpc, op, napi, dev>>
    BY <2>1 DEF guestVars
  <2>3. CASE UseOne
    <3>1. bpc = "use" /\ bpc' = "look" /\ count' = count + 1 /\ irq' = irq
          /\ Done' = Done + 1
      BY <2>1, <2>3 DEF UseOne, fds
    <3>2. EventOff < Done => Told
      BY <2>1, <1>0, <1>3 DEF EventTold
    <3>3. EventOff >= Done => Done' - count' <= EventOff'
      BY <2>1, <3>1, <1>0, <1>4
    <3>4. Done - count <= EventOff => Done' - count' <= EventOff'
      BY <2>1, <3>1, <1>0, <1>4
    <3>5. CASE EventOff < Done
      BY <2>2, <3>1, <3>2, <3>4, <3>5 DEF Told, Alert, InRound
    <3>6. CASE EventOff >= Done
      BY <3>1, <3>3, <3>6 DEF Told, InRound
    <3> QED BY <3>5, <3>6, <1>4
  <2>4. CASE ~UseOne /\ ~RoundNotifies
    <3>1. Told /\ Done' = Done
      BY <2>1, <2>4, <1>0, <1>3 DEF EventTold
    <3>2. CASE RoundLooks
      <4>1. irq' = irq /\ count' = count
        BY <3>2 DEF RoundLooks, fds
      <4>2. InRound'
        <5>1. CASE vring_packed_more_avail(vq)
          BY <3>2, <5>1 DEF RoundLooks, InRound
        <5>2. CASE ~vring_packed_more_avail(vq) /\ busy_wait
          BY <3>2, <5>2 DEF RoundLooks, InRound
        <5>3. CASE ~vring_packed_more_avail(vq) /\ ~busy_wait
          BY <3>2, <5>3 DEF RoundLooks, InRound
        <5> QED BY <5>1, <5>2, <5>3
      <4> QED BY <2>1, <2>2, <3>1, <4>1, <4>2 DEF Told, Alert
    <3>3. CASE \/ RoundBegins \/ RoundEnables \/ RoundRechecks \/ RoundRemutes
               \/ RoundOutOfBudget \/ UseFails
      <4>1. irq' = irq /\ count' = count /\ InRound'
        BY <3>3 DEF RoundBegins, RoundEnables, RoundRechecks, RoundRemutes,
           RoundOutOfBudget, UseFails, fds, InRound
      <4> QED BY <2>1, <2>2, <3>1, <4>1 DEF Told, Alert
    <3>4. CASE ThreadStarts \/ PollOther \/ process_packets_poll
               \/ process_packets_spin
      <4>1. irq' = irq /\ ~InRound
        BY <3>4 DEF ThreadStarts, PollOther, process_packets_poll, WakeUp,
           process_packets_spin, fds, InRound
      <4> QED BY <2>1, <2>2, <3>1, <4>1 DEF Told, Alert
    <3>5. CASE PacketArrives \/ UNCHANGED vars
      <4>1. irq' = irq /\ count' = count /\ bpc' = bpc
        BY <3>5 DEF PacketArrives, vars, beVars, fds
      <4> QED BY <2>1, <2>2, <3>1, <4>1 DEF Told, Alert, InRound
    <3> QED BY <2>4, <3>2, <3>3, <3>4, <3>5, <1>5 DEF HostStep
  <2>5. CASE RoundNotifies /\ ~UseOne
    <3>1. Told /\ Done' = Done /\ EventOff < Done /\ Armed
      BY <2>1, <2>5, <1>0, <1>3 DEF EventTold
    <3>2. irq' = (irq \/ (count > 0 /\ vring_packed_intr_needed(vq, count)))
      BY <2>5 DEF RoundNotifies
    <3>3. Done - EventOff <= N
      <4>1. CASE op = "xmit"
        <5>1. EventOff >= InUse - (N + 1) \div 2 - 1
          BY <4>1, <3>1, <1>0, <1>3, <1>4 DEF EventPlace
        <5>2. (N + 1) \div 2 + 1 <= N
          BY <1>0
        <5> QED BY <5>1, <5>2, <1>0, <1>4
      <4>2. CASE op # "xmit"
        <5>1. EventOff = ArmedAt /\ ArmedAt >= 0
          <6>1. InUse \div 2 >= 0
            BY <1>0
          <6> QED BY <6>1, <4>2, <3>1, <1>0, <1>3 DEF EventPlace, ArmedAt
        <5> QED BY <5>1, <1>0, <1>4
      <4> QED BY <4>1, <4>2
    <3>4. Done - count <= EventOff => irq'
      <4>1. count \in Nat /\ count < 65536
        BY <1>0 DEF BudgetFits
      <4>2. Done - count <= EventOff =>
              count > 0 /\ vring_packed_intr_needed(vq, count)
        BY <4>1, <3>1, <3>3, <1>0, <1>3, IntrNeeded
      <4> QED BY <3>2, <4>2
    <3>5. irq => irq'
      BY <3>2
    <3> QED BY <2>2, <3>1, <3>4, <3>5 DEF Told, Alert
  <2> QED BY <2>3, <2>4, <2>5
\* The guest.
<1>6. CASE ~HostStep
  <2>1. bpc' = bpc /\ count' = count
    <3>1. CASE \/ bpfhv_start_xmit \/ bpfhv_intr \/ bpfhv_poll
               \/ vring_packed_xc \/ CleanDone \/ PublishOne
               \/ vring_packed_txp \/ vring_packed_rxp \/ RxPollComplete
               \/ RxAllocFails \/ RefillCutShort
      BY <3>1 DEF beVars, bpfhv_start_xmit, bpfhv_intr, bpfhv_poll,
        vring_packed_xc, CleanDone, PublishOne, vring_packed_txp,
        vring_packed_rxp, RxPollComplete, RxAllocFails, RefillCutShort
    <3>2. CASE \/ bpfhv_open \/ bpfhv_close \/ vring_packed_xi \/ XiCheck
               \/ CloseNapiDisable \/ vring_packed_xr \/ CloseDone
               \/ CloseGoesOn \/ CloseLeaks
      BY <3>2 DEF beVars, bpfhv_open, bpfhv_close, vring_packed_xi,
        XiCheck, CloseNapiDisable, vring_packed_xr, CloseDone, CloseGoesOn,
        CloseLeaks
    <3>3. ~OpenEnable
      BY <1>0, PassedPlace
    <3> QED BY <3>1, <3>2, <3>3, <1>6
            DEF Step, Next, GuestStep, BackendStep, HostStep
  <2>2. PICK c \in Int, r \in BOOLEAN : c = count /\ (r <=> InRound)
    <3>1. count \in Int
      BY <1>0
    <3>2. \E r \in BOOLEAN : r <=> InRound
      BY Zenon DEF InRound
    <3> QED BY <3>1, <3>2
  <2>3. Live /\ Armed /\ EventOff < Done => Tells(c, r)
    BY <2>2, <1>0 DEF EventTold, Told, Tells
  <2>4. Tells(c, r)'
    BY <2>3, <1>0, <1>6, GuestTold
  <2> QED BY <2>1, <2>2, <2>4 DEF Told, Tells, InRound
<1> QED BY <1>5, <1>6

\* No lost interrupt: on a device opened once, with at most 65535 buffers to a
\* round (BPFHV_BE_TX_BUDGET and BPFHV_BE_RX_BUDGET are 128), a guest that
\* waits for an interrupt has stored an event the backend has not passed,
\* whatever the laps of the two sides.
THEOREM NoLostInterruptHolds ==
  ASSUME ~MayReopen, BudgetFits PROVE Spec => []NoLostInterrupt
<1> DEFINE Inv == QInv /\ Served /\ KickPlace /\ EventInv
<1>1. Init => Inv
  <2> SUFFICES ASSUME Init PROVE Inv
    OBVIOUS
  <2>1. QInv /\ Served /\ InUse = 0 /\ Done = 0
    BY InitQInv
  <2>2. KickPlace
    BY InitKick DEF KickInv
  <2>3. EventOff = 0 /\ ArmedAt = 0 /\ Armed
    <3>1. PICK b \in Bufs : vq = vring_packed_init(b)
      BY DEF Init
    <3>2. /\ vq.driver_event.idx = 0 /\ vq.driver_event.wrap = 1 /\ Armed
          /\ vq.g.used = 0 /\ vq.g.uwrap = 1
      BY <3>1 DEF vring_packed_init, Armed
    <3> QED BY <2>1, <3>2 DEF EventOff, ArmedAt
  <2>4. EventInv
    BY <2>1, <2>3, QueueAssumption
       DEF Init, EventInv, CountPlace, EventPlace, EventTold, InRound, Live
  <2> QED BY <2>1, <2>2, <2>4
<1>2. Inv /\ [Next]_vars => Inv'
  BY NextQInv, NextServed, NextPlace, NextCount, NextEventPlace, NextEventTold
     DEF EventInv, Step
<1>3. Inv => NoLostInterrupt
  <2> SUFFICES ASSUME Inv, dev = "up", gpc = "idle", napi = "idle", ~irq,
                      bpc \notin {"look", "enable", "recheck", "remute",
                                  "use", "notify"},
                      vq.driver_event.flags = "DESC"
               PROVE  Dist(GUsed(vq), HUsed(vq))
                        <= Dist(GUsed(vq), Pos(vq.driver_event.idx,
                                               vq.driver_event.wrap))
    BY DEF NoLostInterrupt
  <2> DEFINE i == vq.driver_event.idx
             w == vq.driver_event.wrap
  <2>1. /\ RingInv /\ ~Reclaiming /\ vq \in Virtq /\ op = "none" /\ Live
        /\ Armed /\ Done \in 0 .. InUse /\ InUse \in 0 .. N /\ N \in Nat
    BY PackedAssumption
       DEF QInv, RingInv, PosInv, PlaceInv, Reclaiming, Live, Armed
  <2>2. EventOff = ArmedAt /\ ~(EventOff < Done)
    BY <2>1 DEF EventInv, EventPlace, EventTold, Told, Alert, InRound
  <2>3. ArmedAt \in 0 .. N
    BY <2>1 DEF ArmedAt
  <2>4. i \in Slots /\ w \in {0, 1} /\ vq.g.used \in Slots
        /\ vq.g.uwrap \in {0, 1}
    BY <2>1 DEF Virtq, Event
  <2>5. Ahead(i, w) = EventOff
    BY <2>1, <2>2, <2>3, <2>4 DEF Ahead, EventOff, Slots
  <2>6. Dist(GUsed(vq), Pos(i, w)) = EventOff
    <3> HIDE DEF i, w
    <3> QED BY <2>1, <2>2, <2>3, <2>4, <2>5, DistAhead
  <2>7. Dist(GUsed(vq), HUsed(vq)) = Done
    BY <2>1, Segments
  <2> QED BY <2>1, <2>2, <2>3, <2>6, <2>7
<1> QED BY <1>1, <1>2, <1>3, PTL DEF Spec

-----------------------------------------------------------------------------
(***************************************************************************)
(* The abstract queue.                                                     *)
(***************************************************************************)
\* The address at offset k, and the offset of the oldest posted buffer.
AddrAt(k) == vq.desc[At(k)].addr
From == IF Reclaiming THEN 0 ELSE Done

\* A sequence one longer, and one shorter at the front.
LEMMA AppendIs ==
  ASSUME NEW S, NEW s \in Seq(S), NEW t \in Seq(S), NEW e \in S,
         Len(t) = Len(s) + 1, \A k \in 1 .. Len(s) : t[k] = s[k],
         t[Len(s) + 1] = e
  PROVE  t = Append(s, e)
<1>1. /\ Append(s, e) \in Seq(S) /\ Len(Append(s, e)) = Len(s) + 1
      /\ \A k \in 1 .. Len(s) : Append(s, e)[k] = s[k]
      /\ Append(s, e)[Len(s) + 1] = e
  BY AppendProperties
<1>2. \A k \in 1 .. Len(t) : t[k] = Append(s, e)[k]
  <2>1. Len(s) \in Nat
    BY LenProperties
  <2>2. \A k \in 1 .. Len(t) : k \in 1 .. Len(s) \/ k = Len(s) + 1
    BY <2>1
  <2> QED BY <1>1, <2>2
<1> QED BY <1>1, <1>2, SeqEqual

\* A sequence without its first element.
LEMMA TailIs ==
  ASSUME NEW S, NEW s \in Seq(S), NEW t \in Seq(S), Len(s) >= 1,
         Len(t) = Len(s) - 1, \A k \in 1 .. Len(t) : t[k] = s[k + 1]
  PROVE  s # <<>> /\ t = Tail(s) /\ Head(s) = s[1]
<1>1. s # <<>>
  BY EmptySeq
<1>2. /\ Tail(s) \in Seq(S) /\ Len(Tail(s)) = Len(s) - 1
      /\ \A k \in 1 .. Len(Tail(s)) : Tail(s)[k] = s[k + 1]
  BY <1>1, HeadTailProperties
<1>3. t = Tail(s)
  BY <1>2, SeqEqual
<1> QED BY <1>1, <1>3

\* The two sequences of buffers, by offset.
LEMMA Places ==
  RingInv /\ Served =>
    /\ From \in 0 .. InUse /\ InUse \in 0 .. N
    /\ \A k \in 0 .. InUse - 1 : AddrAt(k) \in Bufs
    /\ Posted \in Seq(Bufs) /\ Len(Posted) = InUse - From
    /\ \A k \in 1 .. InUse - From : Posted[k] = AddrAt(From + k - 1)
    /\ Handed \in Seq(Bufs) /\ Len(Handed) = From
    /\ \A k \in 1 .. From : Handed[k] = AddrAt(k - 1)
<1> SUFFICES ASSUME RingInv, Served
             PROVE  /\ From \in 0 .. InUse /\ InUse \in 0 .. N
                    /\ \A k \in 0 .. InUse - 1 : AddrAt(k) \in Bufs
                    /\ Posted \in Seq(Bufs) /\ Len(Posted) = InUse - From
                    /\ \A k \in 1 .. InUse - From :
                         Posted[k] = AddrAt(From + k - 1)
                    /\ Handed \in Seq(Bufs) /\ Len(Handed) = From
                    /\ \A k \in 1 .. From : Handed[k] = AddrAt(k - 1)
  OBVIOUS
<1>1. /\ vq \in Virtq /\ InUse \in 0 .. N /\ From \in 0 .. InUse /\ N \in Nat
  BY PackedAssumption DEF RingInv, PosInv, From
<1>2. \A k \in 0 .. InUse - 1 : AddrAt(k) \in Bufs
  <2>1. \A k \in 0 .. InUse - 1 : At(k) \in Slots
    <3>1. \A k \in 0 .. InUse - 1 : k \in 0 .. N - 1
      BY <1>1
    <3> QED BY <3>1, <1>1, SlotAt
  <2>2. \A i \in Slots : vq.desc[i].addr \in Bufs
    BY <1>1 DEF Virtq, Desc
  <2> QED BY <2>1, <2>2 DEF AddrAt
<1>3. Posted = [k \in 1 .. InUse - From |-> AddrAt(From + k - 1)]
  <2>1. CASE Reclaiming
    <3>1. From = 0 /\ InUse - From = InUse
          /\ \A k \in 1 .. InUse : From + k - 1 = k - 1
      BY <2>1, <1>1 DEF From
    <3>2. InRing = [k \in 1 .. InUse |-> vq.desc[At(k - 1)]]
      BY Segments
    <3> QED BY <3>1, <3>2, <2>1 DEF Posted, Addrs, AddrAt
  <2>2. CASE ~Reclaiming
    <3>1. From = Done
      BY <2>2 DEF From
    <3>2. DescsFrom(vq, HAvail(vq), GAvail(vq)) =
            [k \in 1 .. InUse - Done |-> vq.desc[At(Done + k - 1)]]
      BY <2>2, Segments DEF Served, HUsed, HAvail
    <3> QED BY <3>1, <3>2, <2>2 DEF Posted, Addrs, AddrAt
  <2> QED BY <2>1, <2>2
<1>4. Handed = [k \in 1 .. From |-> AddrAt(k - 1)]
  <2>1. CASE Reclaiming
    BY <2>1 DEF Handed, Addrs, From
  <2>2. CASE ~Reclaiming
    <3>1. DescsFrom(vq, GUsed(vq), HUsed(vq)) =
            [k \in 1 .. Done |-> vq.desc[At(k - 1)]]
      BY <2>2, Segments
    <3> QED BY <3>1, <2>2 DEF Handed, Addrs, AddrAt, From
  <2> QED BY <2>1, <2>2
<1>5. \A k \in 1 .. InUse - From : From + k - 1 \in 0 .. InUse - 1
  BY <1>1
<1>6. \A k \in 1 .. From : k - 1 \in 0 .. InUse - 1
  BY <1>1
<1> HIDE DEF From
<1>7. InUse - From \in Nat /\ From \in Nat
  BY <1>1
<1> QED BY <1>1, <1>2, <1>3, <1>4, <1>5, <1>6, <1>7

\* The same in the state a step leads to.
LEMMA PlacesNext ==
  ASSUME RingInv', Served'
  PROVE  /\ From' \in 0 .. InUse' /\ InUse' \in 0 .. N
         /\ Posted' \in Seq(Bufs) /\ Len(Posted') = InUse' - From'
         /\ \A k \in 1 .. InUse' - From', m \in 0 .. InUse' - 1 :
              m = From' + k - 1 => Posted'[k] = AddrAt(m)'
         /\ Handed' \in Seq(Bufs) /\ Len(Handed') = From'
         /\ \A k \in 1 .. From', m \in 0 .. InUse' - 1 :
              m = k - 1 => Handed'[k] = AddrAt(m)'
<1>1. (/\ From \in 0 .. InUse /\ InUse \in 0 .. N
       /\ \A k \in 0 .. InUse - 1 : AddrAt(k) \in Bufs
       /\ Posted \in Seq(Bufs) /\ Len(Posted) = InUse - From
       /\ \A k \in 1 .. InUse - From : Posted[k] = AddrAt(From + k - 1)
       /\ Handed \in Seq(Bufs) /\ Len(Handed) = From
       /\ \A k \in 1 .. From : Handed[k] = AddrAt(k - 1))'
  BY Places, PTL
<1> QED BY <1>1 DEF AddrAt, At

\* Nothing moves.
LEMMA QueueStays ==
  ASSUME RingInv, RingInv', Served, RingSame, From' = From
  PROVE  Posted' = Posted /\ Handed' = Handed
<1>1. InUse' = InUse /\ Served' /\ \A k : AddrAt(k)' = AddrAt(k)
  BY DEF RingSame, InUse, Ahead, AddrAt, At, Served
<1>2. From \in Nat /\ InUse \in Nat /\ InUse - From \in Nat
  BY Places, PackedAssumption
<1>3. \A k \in 1 .. InUse - From : From + k - 1 \in 0 .. InUse - 1
  BY <1>2
<1>4. \A k \in 1 .. From : k - 1 \in 0 .. InUse - 1
  BY Places, PackedAssumption
<1>5. \A k \in 1 .. InUse - From : Posted'[k] = Posted[k]
  BY <1>1, <1>3, Places, PlacesNext
<1>6. \A k \in 1 .. From : Handed'[k] = Handed[k]
  BY <1>1, <1>4, Places, PlacesNext
<1> QED BY <1>1, <1>2, <1>5, <1>6, Places, PlacesNext, SeqEqual

\* txp, rxp: the addresses, by offset.
LEMMA AddrAdds ==
  ASSUME RingInv, ~Reclaiming, ~Reclaiming',
         NEW b \in held, NEW bad \in BOOLEAN,
         vq' = vring_packed_add(vq, b, bad), held' = held \ {b}
  PROVE  /\ RingInv' /\ InUse' = InUse + 1 /\ Done' = Done
         /\ vq'.h = vq.h /\ vq'.g.used = vq.g.used /\ vq'.g.uwrap = vq.g.uwrap
         /\ InUse \in 0 .. N - 1 /\ b \in Bufs
         /\ \A k \in 0 .. InUse - 1 : AddrAt(k)' = AddrAt(k)
         /\ \A k : k = InUse => AddrAt(k)' = b
<1>0. vq \in Virtq /\ b \in Bufs /\ held \subseteq Bufs
  BY DEF RingInv, PosInv, HeldInv
<1>1. /\ RingInv' /\ InUse' = InUse + 1 /\ Done' = Done
      /\ vq'.h = vq.h /\ vq'.g.used = vq.g.used /\ vq'.g.uwrap = vq.g.uwrap
  BY AddKeepsRing
<1>2. /\ vq'.desc[vq.g.avail].addr = b
      /\ \A i \in Slots : i # vq.g.avail => vq'.desc[i] = vq.desc[i]
  <2>1. vq.g.avail \in Slots /\ vq.desc \in [Slots -> Desc]
    BY <1>0 DEF Virtq
  <2>2. vq'.desc = [vq.desc EXCEPT ![vq.g.avail] =
                      [addr |-> b, id |-> vq.g.free_id, bad |-> bad,
                       avail |-> vq.g.awrap, used |-> 1 - vq.g.awrap]]
    <3>1. /\ vq' \in Virtq
          /\ vq'.desc = [vq.desc EXCEPT ![vq.g.avail] =
                          [addr |-> b, id |-> vq.g.free_id, bad |-> bad,
                           avail |-> vq.g.awrap, used |-> 1 - vq.g.awrap]]
          /\ vq'.state = [vq.state EXCEPT ![vq.g.free_id] =
                           [busy |-> TRUE,
                            next |-> vq.state[vq.g.free_id].next,
                            cookie |-> b]]
      BY <1>0, AddEffect
    <3> QED BY <3>1
  <2> QED BY <2>1, <2>2
<1>3. InUse \in 0 .. N /\ InUse' \in 0 .. N /\ N \in Nat
  BY <1>1, PackedAssumption DEF RingInv, PosInv
<1>4. InUse \in 0 .. N - 1
  BY <1>1, <1>3
<1>5. At(InUse) = vq.g.avail
  <2>1. Off(vq.g.avail) = InUse /\ vq.g.avail \in Slots
    BY <1>0, <1>4, Offsets DEF InUse
  <2> QED BY <2>1, <1>0, SlotAt
<1>6. \A k : At(k)' = At(k)
  BY <1>1 DEF At
<1>7. \A k \in 0 .. InUse - 1 : AddrAt(k)' = AddrAt(k)
  <2> SUFFICES ASSUME NEW k \in 0 .. InUse - 1
               PROVE  vq'.desc[At(k)] = vq.desc[At(k)]
    BY <1>6 DEF AddrAt
  <2>1. k \in 0 .. N - 1 /\ k # InUse
    BY <1>3
  <2>2. At(k) \in Slots /\ At(k) # vq.g.avail
    BY <2>1, <1>0, <1>4, <1>5, SlotAt
  <2> QED BY <2>2, <1>2
<1>8. ASSUME NEW k, k = InUse PROVE AddrAt(k)' = b
  BY <1>2, <1>5, <1>6, <1>8 DEF AddrAt
<1> QED BY <1>0, <1>1, <1>4, <1>7, <1>8

\* txp, rxp: a buffer is appended to what is posted.
LEMMA QueueAdds ==
  ASSUME RingInv, Served, ~Reclaiming, ~Reclaiming',
         NEW b \in held, NEW bad \in BOOLEAN,
         vq' = vring_packed_add(vq, b, bad), held' = held \ {b}
  PROVE  Posted' = Append(Posted, b) /\ Handed' = Handed
<1>0. /\ RingInv' /\ InUse' = InUse + 1 /\ Done' = Done /\ Served'
      /\ b \in Bufs
  BY AddrAdds DEF Served
<1>3. /\ InUse \in 0 .. N /\ InUse' \in 0 .. N /\ From' = From /\ N \in Nat
      /\ From \in 0 .. InUse
  BY <1>0, Places, PlacesNext, PackedAssumption DEF From
<1>7. \A k \in 0 .. InUse - 1 : AddrAt(k)' = AddrAt(k)
  BY AddrAdds
<1>8. ASSUME NEW k, k = InUse PROVE AddrAt(k)' = b
  BY <1>8, AddrAdds
<1>9. /\ Posted \in Seq(Bufs) /\ Len(Posted) = InUse - From
      /\ \A k \in 1 .. InUse - From : Posted[k] = AddrAt(From + k - 1)
      /\ Handed \in Seq(Bufs) /\ Len(Handed) = From
      /\ \A k \in 1 .. From : Handed[k] = AddrAt(k - 1)
  BY Places
<1>10. /\ Posted' \in Seq(Bufs) /\ Len(Posted') = InUse + 1 - From
       /\ \A k \in 1 .. InUse + 1 - From, m \in 0 .. InUse :
            m = From + k - 1 => Posted'[k] = AddrAt(m)'
       /\ Handed' \in Seq(Bufs) /\ Len(Handed') = From
       /\ \A k \in 1 .. From, m \in 0 .. InUse :
            m = k - 1 => Handed'[k] = AddrAt(m)'
  <2>1. (InUse + 1) - 1 = InUse
    BY <1>3
  <2> QED BY <2>1, <1>0, <1>3, PlacesNext
<1>11. Handed' = Handed
  <2>1. \A k \in 1 .. From : k - 1 \in 0 .. InUse - 1 /\ k - 1 \in 0 .. InUse
    BY <1>3
  <2> QED BY <2>1, <1>7, <1>9, <1>10, SeqEqual
<1>12. Posted' = Append(Posted, b)
  <2>1. \A k \in 1 .. InUse - From : /\ From + k - 1 \in 0 .. InUse - 1
                                     /\ From + k - 1 \in 0 .. InUse
                                     /\ k \in 1 .. InUse + 1 - From
    BY <1>3
  <2>2. \A k \in 1 .. Len(Posted) : Posted'[k] = Posted[k]
    BY <2>1, <1>7, <1>9, <1>10
  <2>3. PICK k : k = InUse - From + 1
    OBVIOUS
  <2>4. k \in 1 .. InUse + 1 - From /\ From + k - 1 = InUse
        /\ InUse \in 0 .. InUse
        /\ InUse + 1 - From = InUse - From + 1
    BY <2>3, <1>3
  <2>5. Posted'[k] = b
    BY <2>4, <1>8, <1>10
  <2>6. PICK s, t : s = Posted /\ t = Posted'
    OBVIOUS
  <2>7. /\ s \in Seq(Bufs) /\ t \in Seq(Bufs) /\ Len(t) = Len(s) + 1
        /\ \A n \in 1 .. Len(s) : t[n] = s[n]
        /\ t[Len(s) + 1] = b
    BY <2>2, <2>3, <2>4, <2>5, <2>6, <1>9, <1>10
  <2>8. t = Append(s, b)
    BY <2>7, <1>0, AppendIs
  <2> QED BY <2>6, <2>8
<1> QED BY <1>11, <1>12

\* txc, rxc, txr, rxr: the addresses, by offset.
LEMMA AddrGets ==
  ASSUME RingInv, Reclaiming' <=> Reclaiming, InUse >= 1,
         ~Reclaiming => Done >= 1, vq' = vring_packed_get(vq),
         held' = held \cup {GotCookie(vq)}
  PROVE  /\ RingInv' /\ InUse' = InUse - 1 /\ InUse \in 1 .. N
         /\ vq'.h = vq.h
         /\ ~Reclaiming => Done' = Done - 1
         /\ \A k \in 0 .. InUse - 2 : AddrAt(k)' = AddrAt(k + 1)
         /\ held' = held \cup {AddrAt(0)}
<1>0. vq \in Virtq /\ N \in Nat
  BY PackedAssumption DEF RingInv, PosInv
<1>1. /\ RingInv' /\ InUse' = InUse - 1 /\ vq'.h = vq.h
      /\ ~Reclaiming => Done' = Done - 1
      /\ vq'.g.used = NextIdx(vq.g.used)
      /\ GotCookie(vq) = GotAddr(vq)
  BY GetKeepsRing
<1>2. vq'.desc = vq.desc
  <2>1. PICK v, w, id : v = vq /\ w = vq' /\ id = v.desc[v.g.used].id
    OBVIOUS
  <2>2. v \in Virtq /\ w = vring_packed_get(v)
    BY <2>1, <1>0
  <2>3. w \in Virtq /\ w.desc = v.desc /\ id \in Slots
    BY <2>1, <2>2, GetEffect
  <2> QED BY <2>1, <2>3
<1>3. InUse \in 1 .. N
  BY <1>0 DEF RingInv, PosInv
<1>4. ASSUME NEW k \in 0 .. InUse - 2 PROVE AddrAt(k)' = AddrAt(k + 1)
  <2>1. vq.g.used \in Slots /\ k \in 0 .. N - 2
    BY <1>0, <1>3 DEF Virtq
  <2>2. At(k)' = At(k + 1)
    BY <2>1, <1>0, <1>1 DEF At, NextIdx, Slots
  <2> QED BY <2>2, <1>2 DEF AddrAt
<1>5. held' = held \cup {AddrAt(0)}
  <2>1. At(0) = vq.g.used
    BY <1>0 DEF At, Virtq, Slots
  <2> QED BY <2>1, <1>1 DEF AddrAt, GotAddr
<1> QED BY <1>1, <1>3, <1>4, <1>5

\* txc, rxc, txr, rxr: the buffer that comes back is the oldest one handed
\* back, or, when the rest is reclaimed, the oldest one posted.
LEMMA QueueGets ==
  ASSUME RingInv, Served, Reclaiming' <=> Reclaiming, InUse >= 1,
         ~Reclaiming => Done >= 1, vq' = vring_packed_get(vq),
         held' = held \cup {GotCookie(vq)}
  PROVE  /\ ~Reclaiming => /\ Handed # <<>> /\ Handed' = Tail(Handed)
                           /\ held' = held \cup {Head(Handed)}
                           /\ Posted' = Posted
         /\ Reclaiming => /\ Posted # <<>> /\ Posted' = Tail(Posted)
                          /\ held' = held \cup {Head(Posted)}
                          /\ Handed = <<>> /\ Handed' = <<>>
<1>1. /\ RingInv' /\ InUse' = InUse - 1 /\ Served'
      /\ ~Reclaiming => Done' = Done - 1
  BY AddrGets DEF Served
<1>3. /\ From \in 0 .. InUse /\ InUse \in 1 .. N
      /\ From' = IF Reclaiming THEN 0 ELSE From - 1
      /\ Reclaiming => From = 0
      /\ ~Reclaiming => From >= 1
  BY <1>1, Places, PackedAssumption DEF From
<1>4. \A k \in 0 .. InUse - 2 : AddrAt(k)' = AddrAt(k + 1)
  BY AddrGets
<1>5. held' = held \cup {AddrAt(0)}
  BY AddrGets
<1> DEFINE n == InUse - 1
<1>6. /\ Posted \in Seq(Bufs) /\ Len(Posted) = InUse - From
      /\ \A k \in 1 .. InUse - From : Posted[k] = AddrAt(From + k - 1)
      /\ Handed \in Seq(Bufs) /\ Len(Handed) = From
      /\ \A k \in 1 .. From : Handed[k] = AddrAt(k - 1)
  BY Places
<1>7. /\ Posted' \in Seq(Bufs) /\ Len(Posted') = n - From'
      /\ \A k \in 1 .. n - From', m \in 0 .. n - 1 :
           m = From' + k - 1 => Posted'[k] = AddrAt(m)'
      /\ Handed' \in Seq(Bufs) /\ Len(Handed') = From'
      /\ \A k \in 1 .. From', m \in 0 .. n - 1 :
           m = k - 1 => Handed'[k] = AddrAt(m)'
  BY <1>1, PlacesNext
<1>8. n \in Nat /\ n - 1 = InUse - 2
  BY <1>3
<1> HIDE DEF n, From
<1>9. ASSUME ~Reclaiming
      PROVE  /\ Handed # <<>> /\ Handed' = Tail(Handed)
             /\ Head(Handed) = AddrAt(0) /\ Posted' = Posted
  <2>0. From' = From - 1 /\ From \in 1 .. InUse /\ InUse \in Nat
        /\ n - From' = InUse - From /\ InUse - From \in Nat
    BY <1>3, <1>9 DEF n
  <2>1. \A k \in 1 .. InUse - From :
          /\ From' + k - 1 \in 0 .. n - 1
          /\ From' + k - 1 + 1 = From + k - 1
    BY <2>0 DEF n
  <2>2. \A k \in 1 .. From' : /\ k - 1 \in 0 .. n - 1 /\ k - 1 + 1 = k
                              /\ k + 1 \in 1 .. From /\ k + 1 - 1 = k
    BY <2>0 DEF n
  <2>3. \A k \in 1 .. Len(Posted) : Posted'[k] = Posted[k]
    <3> SUFFICES ASSUME NEW k \in 1 .. InUse - From
                 PROVE  Posted'[k] = Posted[k]
      BY <1>6
    <3>1. PICK m : m = From' + k - 1
      OBVIOUS
    <3>2. m \in 0 .. n - 1 /\ m \in 0 .. InUse - 2 /\ m + 1 = From + k - 1
      BY <3>1, <2>1, <1>8
    <3>3. Posted'[k] = AddrAt(m)' /\ Posted[k] = AddrAt(m + 1)
      BY <3>1, <3>2, <2>0, <1>6, <1>7
    <3> QED BY <3>2, <3>3, <1>4
  <2>4. Posted' = Posted
    BY <2>0, <2>3, <1>6, <1>7, SeqEqual
  <2>5. \A k \in 1 .. Len(Handed') : Handed'[k] = Handed[k + 1]
    BY SMTT(40), <2>0, <2>2, <1>4, <1>6, <1>7, <1>8
  <2>6. PICK s, t : s = Handed /\ t = Handed'
    OBVIOUS
  <2>7. s # <<>> /\ t = Tail(s) /\ Head(s) = s[1]
    <3>1. /\ s \in Seq(Bufs) /\ t \in Seq(Bufs)
          /\ Len(s) >= 1 /\ Len(t) = Len(s) - 1
      BY <2>0, <2>6, <1>6, <1>7
    <3>2. \A k \in 1 .. Len(t) : t[k] = s[k + 1]
      BY <2>5, <2>6
    <3> QED BY <3>1, <3>2, TailIs
  <2>8. Handed[1] = AddrAt(0)
    BY <2>0, <1>6
  <2> QED BY <2>4, <2>6, <2>7, <2>8
<1>10. ASSUME Reclaiming
       PROVE  /\ Posted # <<>> /\ Posted' = Tail(Posted)
              /\ Head(Posted) = AddrAt(0) /\ Handed = <<>> /\ Handed' = <<>>
  <2>0. From' = 0 /\ From = 0 /\ InUse \in Nat /\ InUse >= 1
        /\ n - From' = InUse - 1 /\ InUse - From = InUse
    BY <1>3, <1>10 DEF n
  <2>1. Handed = <<>> /\ Handed' = <<>>
    BY <2>0, <1>6, <1>7
  <2>2. \A k \in 1 .. InUse - 1 :
          /\ From' + k - 1 \in 0 .. n - 1 /\ From' + k - 1 + 1 = k
          /\ k + 1 \in 1 .. InUse /\ From + (k + 1) - 1 = k
    BY <2>0 DEF n
  <2>5. \A k \in 1 .. Len(Posted') : Posted'[k] = Posted[k + 1]
    BY <2>0, <2>2, <1>4, <1>6, <1>7, <1>8
  <2>6. PICK s, t : s = Posted /\ t = Posted'
    OBVIOUS
  <2>7. s # <<>> /\ t = Tail(s) /\ Head(s) = s[1]
    <3>1. /\ s \in Seq(Bufs) /\ t \in Seq(Bufs)
          /\ Len(s) >= 1 /\ Len(t) = Len(s) - 1
      BY <2>0, <2>6, <1>6, <1>7
    <3>2. \A k \in 1 .. Len(t) : t[k] = s[k + 1]
      BY <2>5, <2>6
    <3> QED BY <3>1, <3>2, TailIs
  <2>8. Posted[1] = AddrAt(0)
    BY <2>0, <1>6
  <2> QED BY <2>1, <2>6, <2>7, <2>8
<1> QED BY <1>5, <1>9, <1>10

\* txq_drain, rxq_push: the oldest posted buffer is handed back last.
LEMMA QueueUses ==
  ASSUME RingInv, Served, ~Reclaiming, ~Reclaiming', Done < InUse,
         vq' = UseInOrder(vq), held' = held
  PROVE  /\ Posted # <<>> /\ Posted' = Tail(Posted)
         /\ Handed' = Append(Handed, Head(Posted))
<1>0. /\ vq \in Virtq /\ N \in Nat
      /\ vq.h.used = vq.h.avail /\ vq.h.uwrap = vq.h.awrap
  BY PackedAssumption DEF RingInv, PosInv, Served
<1>1. RingInv' /\ InUse' = InUse /\ Done' = Done + 1 /\ Served'
  BY UseKeepsRing
<1>2. /\ \A i \in Slots : vq'.desc[i].addr = vq.desc[i].addr
      /\ vq'.g = vq.g
  <2>1. /\ vq' \in Virtq
        /\ \A i \in Slots : i # vq.h.avail => vq'.desc[i] = vq.desc[i]
        /\ vq'.desc[vq.h.avail].addr = vq.desc[vq.h.avail].addr
        /\ vq'.desc[vq.h.avail].id = vq.desc[vq.h.avail].id
        /\ vq'.g = vq.g
    BY <1>0, UseEffect
  <2> QED BY <2>1
<1>3. /\ From \in 0 .. InUse /\ InUse \in 0 .. N /\ From < InUse
      /\ From' = From + 1
      /\ \A k \in 0 .. InUse - 1 : AddrAt(k) \in Bufs
  BY <1>1, Places DEF From
<1>4. ASSUME NEW k \in 0 .. InUse - 1 PROVE AddrAt(k)' = AddrAt(k)
  <2>1. k \in 0 .. N - 1
    BY <1>0, <1>3
  <2>2. At(k)' = At(k) /\ At(k) \in Slots
    BY <2>1, <1>0, <1>2, SlotAt DEF At
  <2> QED BY <2>2, <1>2 DEF AddrAt
<1>5. /\ Posted \in Seq(Bufs) /\ Len(Posted) = InUse - From
      /\ \A k \in 1 .. InUse - From : Posted[k] = AddrAt(From + k - 1)
      /\ Handed \in Seq(Bufs) /\ Len(Handed) = From
      /\ \A k \in 1 .. From : Handed[k] = AddrAt(k - 1)
  BY Places
<1>6. /\ Posted' \in Seq(Bufs) /\ Len(Posted') = InUse - From'
      /\ \A k \in 1 .. InUse - From', m \in 0 .. InUse - 1 :
           m = From' + k - 1 => Posted'[k] = AddrAt(m)'
      /\ Handed' \in Seq(Bufs) /\ Len(Handed') = From'
      /\ \A k \in 1 .. From', m \in 0 .. InUse - 1 :
           m = k - 1 => Handed'[k] = AddrAt(m)'
  BY <1>1, PlacesNext
<1> HIDE DEF From
<1>7. \A k \in 1 .. InUse - From' :
        /\ From' + k - 1 \in 0 .. InUse - 1
        /\ k + 1 \in 1 .. InUse - From /\ From + (k + 1) - 1 = From' + k - 1
  BY <1>3
<1>8. \A k \in 1 .. From : k - 1 \in 0 .. InUse - 1 /\ k \in 1 .. From'
  BY <1>3
<1>9. \A k \in 1 .. Len(Posted') : Posted'[k] = Posted[k + 1]
  BY <1>4, <1>5, <1>6, <1>7
<1>10. \A k \in 1 .. Len(Handed) : Handed'[k] = Handed[k]
  BY <1>4, <1>5, <1>6, <1>8
<1>11. PICK s, t : s = Posted /\ t = Posted'
  OBVIOUS
<1>12. s # <<>> /\ t = Tail(s) /\ Head(s) = s[1]
  <2>1. Len(s) >= 1 /\ Len(t) = Len(s) - 1
    BY <1>3, <1>5, <1>6, <1>11
  <2> QED BY <2>1, <1>5, <1>6, <1>9, <1>11, TailIs
<1>13. /\ Posted[1] = AddrAt(From) /\ Handed'[From + 1] = AddrAt(From)
       /\ AddrAt(From) \in Bufs
  <2>1. PICK m : m = From
    OBVIOUS
  <2>2. /\ m \in 0 .. InUse - 1 /\ 1 \in 1 .. InUse - From /\ From + 1 - 1 = m
        /\ m + 1 \in 1 .. From' /\ m = m + 1 - 1
    BY <2>1, <1>3
  <2>3. Posted[1] = AddrAt(m) /\ AddrAt(m) \in Bufs
    BY <2>2, <1>3, <1>5
  <2>4. Handed'[m + 1] = AddrAt(m)
    BY <2>2, <1>4, <1>6
  <2> QED BY <2>1, <2>3, <2>4
<1>14. PICK u, v, e : u = Handed /\ v = Handed' /\ e = AddrAt(From)
  OBVIOUS
<1>15. v = Append(u, e)
  <2>1. Len(v) = Len(u) + 1 /\ v[Len(u) + 1] = e /\ e \in Bufs
    BY <1>3, <1>5, <1>6, <1>13, <1>14
  <2> QED BY <2>1, <1>5, <1>6, <1>10, <1>14, AppendIs
<1> QED BY <1>11, <1>12, <1>13, <1>14, <1>15

\* What comes out of the ring was not out of it.
LEMMA GotNotHeld ==
  ASSUME RingInv, Served, Reclaiming' <=> Reclaiming, InUse >= 1,
         ~Reclaiming => Done >= 1, vq' = vring_packed_get(vq),
         held' = held \cup {GotCookie(vq)}
  PROVE  /\ GotCookie(vq) \notin held
         /\ ~Reclaiming => Head(Handed) \notin held
         /\ Reclaiming => Head(Posted) \notin held
<1>1. GotCookie(vq) \in Bufs \ held
  BY GetKeepsRing
<1> QED BY <1>1, QueueGets

\* A step that leaves the ring alone leaves the abstract queue alone, but for
\* the backend starting or stopping.
LEMMA QuietStep ==
  ASSUME RingInv, RingInv', Served, RingSame, From' = From, lost' = lost
  PROVE  [BQ!Next]_(BQ!bqVars)
<1>1. Posted' = Posted /\ Handed' = Handed /\ held' = held
  BY QueueStays DEF RingSame
<1>2. CASE (bpc' # "halted") <=> (bpc # "halted")
  BY <1>1, <1>2 DEF BQ!bqVars
<1>3. CASE bpc = "halted" /\ bpc' # "halted"
  <2>1. BQ!Enable
    BY <1>1, <1>3 DEF BQ!Enable
  <2> QED BY <2>1 DEF BQ!Next
<1>4. CASE bpc # "halted" /\ bpc' = "halted"
  <2>1. Posted = <<>> \o Posted
    BY Places, ConcatEmptySeq
  <2>2. Cardinality({}) = 0 /\ <<>> \in [1 .. 0 -> {}]
        /\ {<<>>[k] : k \in DOMAIN <<>>} = {}
    BY FS_EmptySet
  <2>3. BQ!Disable
    <3> DEFINE s == <<>>
    <3>1. s \in [1 .. Cardinality({}) -> {}] /\ {s[k] : k \in DOMAIN s} = {}
          /\ Posted' = s \o Posted
      BY <2>1, <2>2, <1>1
    <3> HIDE DEF s
    <3>2. \E r \in [1 .. Cardinality({}) -> {}] :
            {r[k] : k \in DOMAIN r} = {} /\ Posted' = r \o Posted
      BY <3>1
    <3>3. (bpc' # "halted") = FALSE
      BY <1>4
    <3>4. BQ!Cardinality({}) = Cardinality({})
      BY DEF BQ!Cardinality, Cardinality
    <3> QED BY <3>2, <3>3, <3>4, <1>1, <1>4 DEF BQ!Disable
  <2> QED BY <2>3 DEF BQ!Next
<1> QED BY <1>2, <1>3, <1>4

\* Every step of the packed queue is a step of the abstract queue, or none.
LEMMA NextRefines ==
  ASSUME ~MayReopen, QInv, Served, Step
  PROVE  [BQ!Next]_(BQ!bqVars)
<1>0. /\ PlaceInv /\ RingInv /\ RingInv' /\ vq \in Virtq /\ held \subseteq Bufs
      /\ InUse \in 0 .. N /\ (~Reclaiming => Done \in 0 .. InUse)
  BY NextQInv DEF QInv, RingInv, PosInv, HeldInv
<1>1. CASE PublishOne
  <2>1. ~Reclaiming /\ ~Reclaiming' /\ bpc' = bpc
    BY <1>0, <1>1 DEF PublishOne, Reclaiming, PlaceInv, beVars
  <2>2. PICK b \in held \ lost, bad \in {FALSE, BadBufs} :
          vq' = vring_packed_add(vq, b, bad) /\ held' = held \ {b}
    BY <1>1 DEF PublishOne
  <2>3. bad \in BOOLEAN /\ b \in Bufs
    BY <1>0, QueueAssumption
  <2>4. Posted' = Append(Posted, b) /\ Handed' = Handed
    BY <2>1, <2>2, <2>3, <1>0, QueueAdds
  <2>6. (held \ lost)' = (held \ lost) \ {b}
    BY <2>2, <1>1 DEF PublishOne
  <2>5. BQ!Publish(b)
    BY <2>1, <2>2, <2>4, <2>6 DEF BQ!Publish
  <2> QED BY <2>3, <2>5 DEF BQ!Next
<1>2. CASE vring_packed_xc
  <2>1. ~Reclaiming /\ ~Reclaiming' /\ bpc' = bpc
    BY <1>0, <1>2 DEF vring_packed_xc, Reclaiming, PlaceInv, beVars
  <2>2. Done >= 1 /\ InUse >= 1
    BY <2>1, <1>0, <1>2, Reads DEF vring_packed_xc
  <2>3. /\ Handed # <<>> /\ Handed' = Tail(Handed)
        /\ held' = held \cup {Head(Handed)} /\ Posted' = Posted
    BY <2>1, <2>2, <1>0, <1>2, QueueGets DEF vring_packed_xc
  <2>5. (held \ lost)' = (held \ lost) \cup {Head(Handed)}
    <3>1. Head(Handed) \notin held
      BY <2>1, <2>2, <2>3, <1>0, <1>2, GotNotHeld DEF vring_packed_xc
    <3> QED BY <3>1, <2>3, <1>0, <1>2 DEF vring_packed_xc, PlaceInv
  <2>4. BQ!Complete
    BY <2>1, <2>3, <2>5 DEF BQ!Complete
  <2> QED BY <2>4 DEF BQ!Next
<1>3. CASE vring_packed_xr
  <2>1. Reclaiming /\ Reclaiming' /\ bpc' = bpc /\ bpc = "halted"
    BY <1>0, <1>3 DEF vring_packed_xr, Reclaiming, beVars, PlaceInv
  <2>2. InUse >= 1
    BY <2>1, <1>0, <1>3, Reads DEF vring_packed_xr
  <2>3. /\ Posted # <<>> /\ Posted' = Tail(Posted)
        /\ held' = held \cup {Head(Posted)}
        /\ Handed = <<>> /\ Handed' = <<>>
    BY <2>1, <2>2, <1>0, <1>3, QueueGets DEF vring_packed_xr
  <2>5. (held \ lost)' = (held \ lost) \cup {Head(Posted)}
    <3>1. Head(Posted) \notin held
      BY <2>1, <2>2, <2>3, <1>0, <1>3, GotNotHeld DEF vring_packed_xr
    <3> QED BY <3>1, <2>3, <1>0, <1>3 DEF vring_packed_xr, PlaceInv
  <2>4. BQ!Reclaim
    BY <2>1, <2>3, <2>5 DEF BQ!Reclaim
  <2> QED BY <2>4 DEF BQ!Next
<1>4. CASE UseOne
  <2>1. ~Reclaiming /\ ~Reclaiming'
    BY <1>0, <1>4 DEF UseOne, Reclaiming, guestVars, PlaceInv
  <2>2. /\ Done < InUse /\ vq' = UseInOrder(vq) /\ held' = held
        /\ bpc = "use" /\ bpc' = "look" /\ lost' = lost
    BY <1>0, <1>4 DEF UseOne, PlaceInv, guestVars
  <2>3. /\ Posted # <<>> /\ Posted' = Tail(Posted)
        /\ Handed' = Append(Handed, Head(Posted))
    BY <2>1, <2>2, <1>0, QueueUses
  <2>4. BQ!Consume
    BY <2>2, <2>3 DEF BQ!Consume
  <2> QED BY <2>4 DEF BQ!Next
<1>12. CASE RxAllocFails
  <2>1. ~Reclaiming /\ ~Reclaiming' /\ bpc' = bpc
    BY <1>0, <1>12 DEF RxAllocFails, Reclaiming, PlaceInv, beVars
  <2>2. Done >= 1 /\ InUse >= 1
    BY <2>1, <1>0, <1>12, Reads DEF RxAllocFails
  <2>3. Handed # <<>> /\ Handed' = Tail(Handed) /\ Posted' = Posted
    BY <2>1, <2>2, <1>0, <1>12, QueueGets DEF RxAllocFails
  <2>4. (held \ lost)' = held \ lost
    <3>1. GotCookie(vq) \notin held
      BY <2>1, <2>2, <1>0, <1>12, GotNotHeld DEF RxAllocFails
    <3> QED BY <3>1, <1>12 DEF RxAllocFails
  <2>5. BQ!Lose
    BY <2>1, <2>3, <2>4, <1>12 DEF BQ!Lose, RxAllocFails
  <2> QED BY <2>5 DEF BQ!Next
<1>5. ASSUME vq' = vq, held' = held PROVE RingSame
  BY <1>0, <1>5 DEF RingSame
<1>6. CASE CleanDone
  <2>1. ~Reclaiming /\ RingSame
    BY <1>0, <1>5, <1>6 DEF CleanDone, Reclaiming, PlaceInv
  <2>2. op = "close" => Done = 0
    <3>1. /\ vring_packed_more_used(vq) <=> Done >= 1
          /\ Done >= 1 => ~vring_packed_get_fails(vq)
          /\ Done \in 0 .. N
      BY <2>1, <1>0, Reads, PackedAssumption
    <3> QED BY <3>1, <1>0, <1>6, PackedAssumption
            DEF CleanDone, BudgetLeft, PlaceInv
  <2>3. Reclaiming' => op = "close"
    BY <2>1, <1>6 DEF CleanDone, Reclaiming, Return
  <2>4. Done' = Done
    BY <2>1 DEF RingSame, Done, Ahead
  <2>5. From' = From /\ lost' = lost
    BY <2>1, <2>2, <2>3, <2>4, <1>6 DEF From, CleanDone
  <2> QED BY <2>1, <2>5, <1>0, QuietStep
<1>13. CASE CloseGoesOn
  <2>1. ~Reclaiming /\ RingSame /\ lost' = lost
    BY <1>0, <1>5, <1>13 DEF CloseGoesOn, Reclaiming, PlaceInv
  <2>2. Done = 0
    BY <2>1, <1>0, <1>13, Reads DEF CloseGoesOn
  <2>3. Done' = Done
    BY <2>1 DEF RingSame, Done, Ahead
  <2>4. From' = From
    BY <2>1, <2>2, <2>3 DEF From
  <2> QED BY <2>1, <2>4, <1>0, QuietStep
<1>7. ASSUME RingSame, Reclaiming' <=> Reclaiming, lost' = lost
      PROVE  [BQ!Next]_(BQ!bqVars)
  <2>1. From' = From
    BY <1>7 DEF RingSame, From, Done, Ahead
  <2> QED BY <2>1, <1>0, <1>7, QuietStep
<1>8. ASSUME NEW e \in BOOLEAN, vq' = vring_packed_notification(vq, e),
             held' = held
      PROVE  RingSame
  BY <1>0, <1>8, NotificationEffect DEF RingSame
<1>9. CASE bpfhv_poll \/ vring_packed_xi
  <2>1. PICK n \in 0 .. N : vq' = vring_packed_intr(vq, n)
    BY <1>0, <1>9, PackedAssumption
       DEF bpfhv_poll, vring_packed_xi, PlaceInv
  <2>2. RingSame
    BY <2>1, <1>0, <1>9, IntrSame DEF bpfhv_poll, vring_packed_xi
  <2> QED BY <2>2, <1>7, <1>9 DEF bpfhv_poll, vring_packed_xi, Reclaiming
<1>10. CASE ThreadStarts \/ RoundBegins \/ RoundEnables \/ RoundRemutes
  <2>1. held' = held /\ lost' = lost /\ (Reclaiming' <=> Reclaiming)
    BY <1>0, <1>10 DEF ThreadStarts, RoundBegins, RoundEnables, RoundRemutes,
       guestVars, Reclaiming, Return, PlaceInv
  <2>2. vq' = vq \/ \E e \in BOOLEAN : vq' = vring_packed_notification(vq, e)
    BY <1>0, <1>10
       DEF ThreadStarts, RoundBegins, RoundEnables, RoundRemutes, PlaceInv
  <2> QED BY <2>1, <2>2, <1>5, <1>7, <1>8
<1>11. CASE \/ bpfhv_open \/ bpfhv_start_xmit \/ bpfhv_close \/ bpfhv_intr
            \/ PacketArrives \/ PollOther \/ vring_packed_txp
            \/ vring_packed_rxp \/ RxPollComplete \/ XiCheck
            \/ CloseNapiDisable \/ CloseDone \/ CloseLeaks \/ OpenEnable
            \/ RefillCutShort
            \/ process_packets_poll \/ process_packets_spin \/ RoundLooks
            \/ RoundRechecks \/ RoundOutOfBudget \/ UseFails \/ RoundNotifies
            \/ UNCHANGED vars
  <2>1. vq' = vq /\ held' = held /\ lost' = lost
    BY <1>11 DEF bpfhv_open, bpfhv_start_xmit, bpfhv_close, bpfhv_intr,
      PacketArrives, PollOther, vring_packed_txp, vring_packed_rxp,
      RxPollComplete, XiCheck, CloseNapiDisable, CloseDone, WakeUp,
      CloseLeaks, OpenEnable, RefillCutShort,
      process_packets_poll, process_packets_spin, RoundLooks, RoundRechecks,
      RoundOutOfBudget, UseFails, RoundNotifies, vars, guestVars
  <2>2. CASE \/ bpfhv_open \/ bpfhv_start_xmit \/ bpfhv_close \/ bpfhv_intr
             \/ vring_packed_txp \/ vring_packed_rxp \/ RxPollComplete
             \/ XiCheck \/ CloseNapiDisable \/ CloseDone \/ CloseLeaks
             \/ OpenEnable \/ RefillCutShort
    <3>2. Reclaiming' <=> Reclaiming
      BY <2>2, <1>0 DEF CloseLeaks, OpenEnable, RefillCutShort, bpfhv_open,
         bpfhv_start_xmit, bpfhv_close, bpfhv_intr, vring_packed_txp,
         vring_packed_rxp, RxPollComplete, XiCheck, CloseNapiDisable,
         CloseDone, Reclaiming, Return, PlaceInv
    <3> QED BY <2>1, <3>2, <1>5, <1>7
  <2>3. CASE \/ PacketArrives \/ PollOther
             \/ process_packets_poll \/ process_packets_spin \/ RoundLooks
             \/ RoundRechecks \/ RoundOutOfBudget \/ UseFails \/ RoundNotifies
             \/ UNCHANGED vars
    <3>1. gpc' = gpc /\ dev' = dev
      BY <2>3 DEF PacketArrives, PollOther, WakeUp, process_packets_poll,
        process_packets_spin, RoundLooks, RoundRechecks, RoundOutOfBudget,
        UseFails, RoundNotifies, vars, guestVars
    <3> QED BY <2>1, <3>1, <1>5, <1>7 DEF Reclaiming
  <2> QED BY <2>2, <2>3, <1>11
<1> QED BY <1>1, <1>2, <1>3, <1>4, <1>6, <1>9, <1>10, <1>11, <1>12, <1>13
        DEF Step, Next, GuestStep, BackendStep

\* vring_packed keeps the contract of bpfhv.h on a device that is opened once:
\* whatever the size of the ring, the laps, the interface's failures and the
\* moment of a close, buffers come back complete, once and in order, are only
\* reclaimed after the backend stopped and the last completions were
\* collected, and are lost to the driver only where rx_pkt_alloc fails.
THEOREM ImplementsQueueHolds ==
  ASSUME ~MayReopen PROVE Spec => ImplementsQueue
<1>1. Init => BQ!Init
  <2> SUFFICES ASSUME Init PROVE BQ!Init
    OBVIOUS
  <2>1. RingInv /\ Served /\ InUse = 0
    BY InitQInv DEF QInv
  <2>2. Posted = <<>> /\ Handed = <<>>
    <3>1. From = 0 /\ InUse - From = 0
      BY <2>1, Places
    <3> QED BY <2>1, <3>1, Places
  <2> QED BY <2>2 DEF Init, BQ!Init
<1>2. QInv /\ Served /\ [Next]_vars => [BQ!Next]_(BQ!bqVars)
  BY NextRefines DEF Step
<1> QED BY <1>1, <1>2, QInvHolds, PTL DEF Spec, ImplementsQueue, BQ!Spec
=============================================================================
