------------------------------ MODULE PackedRing ------------------------------
(***************************************************************************)
(* The packed virtqueue of the "vring_packed" device: struct               *)
(* vring_packed_virtq as a record vq, and the functions that guest         *)
(* programs and backend apply to it, each giving the queue it leaves.      *)
(*                                                                         *)
(* A descriptor is available or used according to its two flags AVAIL and  *)
(* USED and to the lap (wrap counter) of whoever looks.  The field         *)
(* avail_used_flags of either side always spells that side's wrap counter  *)
(* (guest: AVAIL = wrap, USED = not wrap; host: both = wrap) and is not    *)
(* kept.  The field "bad" of a descriptor tells that the backend cannot     *)
(* translate its address; it is forgotten once the descriptor is used.     *)
(***************************************************************************)
EXTENDS Integers, Sequences

CONSTANTS
  N,     \* num_desc
  Bufs   \* the guest's buffers: both address and cookie of a descriptor

ASSUME PackedAssumption == N \in 1 .. 2^15

Slots == 0 .. N - 1
U16(x) == x % 65536

Event == [flags : {"ENABLE", "DISABLE", "DESC"}, idx : Slots, wrap : {0, 1}]
Desc == [addr : Bufs, id : Slots, bad : BOOLEAN, avail : {0, 1},
         used : {0, 1}]
Virtq ==
  [g : [free_id : Slots, avail : Slots, used : Slots, awrap : {0, 1},
        uwrap : {0, 1}],
   h : [avail : Slots, used : Slots, awrap : {0, 1}, uwrap : {0, 1}],
   driver_event : Event, device_event : Event,
   desc : [Slots -> Desc],
   state : [Slots -> [busy : BOOLEAN, next : Slots, cookie : Bufs]]]

-----------------------------------------------------------------------------
\* The next index of a ring, and the wrap counter that goes with it.
NextIdx(i) == IF i + 1 >= N THEN 0 ELSE i + 1

NextWrap(i, w) == IF i + 1 >= N THEN 1 - w ELSE w

\* device_event.off_wrap and flags change in one store.
vring_packed_notification(vq, enable) ==
  [vq EXCEPT !.device_event =
     IF enable
     THEN [flags |-> "DESC", idx |-> vq.h.avail, wrap |-> vq.h.awrap]
     ELSE [@ EXCEPT !.flags = "DISABLE"]]

\* vring_packed_init: everything zero, all wrap counters 1, the identifiers in
\* a free list (the last one's next stays 0), kicks on, the guest waiting for
\* the first descriptor.  Memory of addr and cookie is zeroed: any buffer.
vring_packed_init(b0) ==
  LET zero == [flags |-> "DESC", idx |-> 0, wrap |-> 1]
  IN  [g |-> [free_id |-> 0, avail |-> 0, used |-> 0, awrap |-> 1,
              uwrap |-> 1],
       h |-> [avail |-> 0, used |-> 0, awrap |-> 1, uwrap |-> 1],
       driver_event |-> zero, device_event |-> zero,
       desc |-> [i \in Slots |-> [addr |-> b0, id |-> 0, bad |-> FALSE,
                                  avail |-> 0, used |-> 0]],
       state |-> [i \in Slots |-> [busy |-> FALSE, next |-> NextIdx(i),
                                   cookie |-> b0]]]

\* Did the index, moving from old to new, pass the event index?  All in 16
\* bits.
vring_need_event(old, event, new) == U16(new - event - 1) < U16(new - old)

\* Mutant of EventPassed: the lap of the event is ignored.
EventSameLap(ev, idx, wrap, num) ==
  IF ev.flags # "DESC"
  THEN ev.flags = "ENABLE"
  ELSE vring_need_event(U16(idx - num), ev.idx, idx)

\* Shared by vring_packed_intr_needed and vring_packed_kick_needed: must the
\* side that moved num descriptors on, to index idx of lap wrap, notify the
\* side that published ev?  An event of the other lap lies N behind.
EventPassed(ev, idx, wrap, num) ==
  IF ev.flags # "DESC"
  THEN ev.flags = "ENABLE"
  ELSE vring_need_event(U16(idx - num),
                        U16(IF ev.wrap # wrap THEN ev.idx - N ELSE ev.idx),
                        idx)

-----------------------------------------------------------------------------
(***************************************************************************)
(* Guest side (eBPF programs).                                             *)
(***************************************************************************)

\* vring_packed_add: fill the next descriptor, take an identifier from the
\* free list, and publish by the store to the flags.
vring_packed_add(vq, b, bad) ==
  LET a  == vq.g.avail
      id == vq.g.free_id
  IN  [vq EXCEPT
         !.desc[a] = [addr |-> b, id |-> id, bad |-> bad,
                      avail |-> vq.g.awrap, used |-> 1 - vq.g.awrap],
         !.state[id] = [busy |-> TRUE, next |-> @.next, cookie |-> b],
         !.g = [vq.g EXCEPT !.free_id = vq.state[id].next,
                            !.avail = NextIdx(a), !.awrap = NextWrap(a, @)]]

vring_packed_kick_needed(vq, num) ==
  EventPassed(vq.device_event, vq.g.avail, vq.g.awrap, num)

vring_packed_desc_is_used(vq, i, wrap) ==
  vq.desc[i].avail = vq.desc[i].used /\ vq.desc[i].used = wrap

vring_packed_more_used(vq) ==
  vring_packed_desc_is_used(vq, vq.g.used, vq.g.uwrap)

vring_packed_more_pending(vq) ==
  LET d == vq.desc[vq.g.used]
  IN  d.avail # d.used /\ d.used # vq.g.uwrap

\* vring_packed_get fails ("This is a bug") on an identifier that is not busy.
vring_packed_get_fails(vq) == ~vq.state[vq.desc[vq.g.used].id].busy

\* The buffer vring_packed_get returns: the caller frees the cookie and
\* unmaps the address.
GotCookie(vq) == vq.state[vq.desc[vq.g.used].id].cookie
GotAddr(vq)   == vq.desc[vq.g.used].addr

\* Mutant of vring_packed_get: the identifier does not become the head of
\* the free list.
GetUnlinked(vq) ==
  LET u  == vq.g.used
      id == vq.desc[u].id
  IN  [vq EXCEPT
         !.state[id] = [busy |-> FALSE, next |-> vq.g.free_id,
                        cookie |-> @.cookie],
         !.g = [vq.g EXCEPT !.used = NextIdx(u), !.uwrap = NextWrap(u, @)]]

vring_packed_get(vq) ==
  LET u  == vq.g.used
      id == vq.desc[u].id
  IN  [vq EXCEPT
         !.state[id] = [busy |-> FALSE, next |-> vq.g.free_id,
                        cookie |-> @.cookie],
         !.g = [vq.g EXCEPT !.free_id = id,
                            !.used = NextIdx(u), !.uwrap = NextWrap(u, @)]]

\* The used descriptor number min, counting from 1 at the guest's used index.
EventIdx(vq, min) == (vq.g.used + min - 1) % N
EventWrap(vq, min) ==
  IF vq.g.used + min - 1 >= N THEN 1 - vq.g.uwrap ELSE vq.g.uwrap

\* vring_packed_intr, the store to driver_event, for min <= num_desc.
vring_packed_intr(vq, min) ==
  [vq EXCEPT !.driver_event =
     IF min = 0
     THEN [@ EXCEPT !.flags = "DISABLE"]
     ELSE [flags |-> "DESC", idx |-> EventIdx(vq, min),
           wrap |-> EventWrap(vq, min)]]

\* What it returns, after the full barrier.
vring_packed_intr_check(vq, min) ==
  min > 0 /\ vring_packed_desc_is_used(vq, EventIdx(vq, min),
                                       EventWrap(vq, min))

-----------------------------------------------------------------------------
(***************************************************************************)
(* Host side (backend).                                                    *)
(***************************************************************************)
vring_packed_more_avail(vq) ==
  LET d == vq.desc[vq.h.avail]
  IN  d.avail # d.used /\ d.avail = vq.h.awrap

vring_packed_advance_avail(vq) ==
  [vq EXCEPT !.h = [vq.h EXCEPT !.avail = NextIdx(@),
                                !.awrap = NextWrap(vq.h.avail, @)]]

vring_packed_advance_used(vq) ==
  [vq EXCEPT !.h = [vq.h EXCEPT !.used = NextIdx(@),
                                !.uwrap = NextWrap(vq.h.used, @)]]

\* Expose the descriptor at the used index with the flags of the host's lap.
ExposeUsed(vq) ==
  vring_packed_advance_used(
    [vq EXCEPT !.desc[vq.h.used] = [@ EXCEPT !.avail = vq.h.uwrap,
                                             !.used = vq.h.uwrap]])

\* The in-order body of txq_drain and rxq_push: the descriptor at the avail
\* index becomes the next used one (copied there should the two differ).
UseInOrder(vq) ==
  vring_packed_advance_avail(
    ExposeUsed([vq EXCEPT !.desc[vq.h.used] =
                            [vq.desc[vq.h.avail] EXCEPT !.bad = FALSE]]))

vring_packed_intr_needed(vq, num) ==
  EventPassed(vq.driver_event, vq.h.used, vq.h.uwrap, num)

-----------------------------------------------------------------------------
(***************************************************************************)
(* Positions on the double lap 0 .. 2N - 1, for the properties.            *)
(***************************************************************************)
Pos(idx, wrap) == IF wrap = 1 THEN idx ELSE idx + N
Dist(from, to) == (to - from) % (2 * N)

GAvail(vq) == Pos(vq.g.avail, vq.g.awrap)
GUsed(vq)  == Pos(vq.g.used, vq.g.uwrap)
HAvail(vq) == Pos(vq.h.avail, vq.h.awrap)
HUsed(vq)  == Pos(vq.h.used, vq.h.uwrap)

\* The descriptors from one position to another, as a sequence.
DescsFrom(vq, from, to) ==
  [k \in 1 .. Dist(from, to) |-> vq.desc[(from + k - 1) % N]]

\* The identifiers on the free list: n steps from next_free_id.
FreeIds(vq, n) ==
  LET walk[k \in 0 .. n] == IF k = 0 THEN vq.g.free_id
                            ELSE vq.state[walk[k - 1]].next
  IN  {walk[k] : k \in 0 .. n - 1}
=============================================================================
