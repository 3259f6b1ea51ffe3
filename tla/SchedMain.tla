------------------------------ MODULE SchedMain ------------------------------
(***************************************************************************)
(* sched_main.c: the scheduler the worker of the backend sends its packets *)
(* through.  One algorithm is chosen at start; sched_enq and sched_deq     *)
(* call it and keep the count of pending packets.                          *)
(***************************************************************************)
EXTENDS DnRr, DnWf2q, DnQfq

CONSTANTS
  Algs,         \* the values of "-alg" considered
  Lens,         \* packet lengths
  MaxPending,   \* bound: packets the mbuf cache has room for
  MaxEnqueue    \* bound: calls of sched_enq, for each algorithm

VARIABLES
  alg,       \* the algorithm
  si,        \* its state, the queues of packets included
  enqueue,   \* c->_enqueue
  pending,   \* c->pending
  lag        \* history: see Lag

vars == <<alg, si, enqueue, pending, lag>>

-----------------------------------------------------------------------------
\* The algorithm with a single queue, of any length for "default", with the
\* limit for "fifo".
Single == {"default", "fifo"}

new_sched(a) ==
  CASE a \in Single -> [q |-> <<>>]
    [] a = "rr"     -> rr_new_sched
    [] a = "wf2qp"  -> wf2qp_new_sched
    [] a = "qfq"    -> qfq_new_sched

\* What makes dn_enqueue drop the packet.
Drops(a, s, q) ==
  CASE a = "default" -> FALSE
    [] a = "fifo"    -> Len(s.q) >= QueueMax
    [] OTHER         -> Full(s, q)

enq(a, s, q, len) ==
  CASE a \in Single -> [s EXCEPT !.q = Append(@, [flow |-> q, len |-> len])]
    [] a = "rr"     -> rr_enqueue(s, q, len)
    [] a = "wf2qp"  -> wf2qp_enqueue(s, q, len)
    [] a = "qfq"    -> qfq_enqueue(s, q, len)

deq(a, s) ==
  CASE a \in Single -> IF s.q = <<>> THEN [m |-> NULL, s |-> s]
                       ELSE [m |-> Head(s.q), s |-> [s EXCEPT !.q = Tail(@)]]
    [] a = "rr"     -> rr_dequeue(s)
    [] a = "wf2qp"  -> wf2qp_dequeue(s)
    [] a = "qfq"    -> qfq_dequeue(s)

Lmax == Max(Lens)
WSum == SumFunction([f \in Flows |-> FlowsetOf[f].w])

\* History.  gnet_stats_deq compares, when a queue drains, its share of the
\* bytes served since it became busy with the bytes it was served.  Lag is the
\* same difference (times the sum of the weights), over the stretch of the
\* busy period that makes it largest; kept for the algorithms that Fair is
\* about.
Lag(s, m) ==
  IF alg \notin {"rr", "wf2qp"} THEN lag
  ELSE [f \in Flows |->
          IF ~Backlogged(s, f) THEN 0
          ELSE Max({0, lag[f] + m.len * FlowsetOf[f].w
                         - (IF f = m.flow THEN m.len * WSum ELSE 0)})]

-----------------------------------------------------------------------------
Init ==
  /\ alg \in Algs
  /\ si = new_sched(alg)
  /\ enqueue = 0
  /\ pending = 0
  /\ lag = [f \in Flows |-> 0]

\* sched_enq; the caller has an mbuf for the packet.
sched_enq(f, len) ==
  /\ pending < MaxPending /\ enqueue < MaxEnqueue[alg]
  /\ enqueue' = enqueue + 1
  /\ IF Drops(alg, si, f) THEN UNCHANGED <<si, pending>>
     ELSE si' = enq(alg, si, f, len) /\ pending' = pending + 1
  /\ UNCHANGED <<alg, lag>>

\* sched_deq; with nothing pending it returns at once.
Dequeued(r) ==
  /\ si' = r.s
  /\ pending' = IF r.m = NULL THEN pending ELSE pending - 1
  /\ lag' = Lag(r.s, r.m)

sched_deq ==
  /\ pending > 0
  /\ Dequeued(deq(alg, si))
  /\ UNCHANGED <<alg, enqueue>>

\* The packets of a flow are at most as long as its flowset says, which the
\* program does not check (dn_sched_qfq.c:662).
PacketLens(f) == {len \in Lens : len <= FlowsetOf[f].len}

Next == sched_deq \/ \E f \in Flows : \E len \in PacketLens(f) : sched_enq(f, len)

Spec == Init /\ [][Next]_vars

-----------------------------------------------------------------------------
Queued ==
  IF alg \in Single THEN Len(si.q)
  ELSE SumFunction([f \in Flows |-> Len(si.mq[f])])

\* sched_deq never finds the algorithm without a packet while some are pending
\* ("ouch, cannot operate"): every algorithm is work conserving, and the count
\* is the number of packets queued.
WorkConserving ==
  /\ pending = Queued
  /\ pending > 0 => deq(alg, si).m # NULL

\* What WF2Q+ relies on between two calls holds (dn_sched_wf2q.c:80 and 163):
\* each flow in at most one of three ordered heaps, the right one; the flows in
\* sch_heap eligible, those in ne_heap not, and sch_heap not the empty one.
Wf2qEligibility == alg = "wf2qp" => WfConsistent(si, Lmax)

\* What QFQ relies on between two calls: every group with flows in one set, ER
\* not empty and in order, the buckets where full_slots says (the slot numbers
\* below QFQ_MAX_SLOTS, dn_sched_qfq.c:427).
QfqGroups == alg = "qfq" => QfqConsistent(si)

\* No flow with packets falls behind its share by more than the algorithm
\* promises: one packet for WF2Q+ (its worst-case fair index), a quantum and a
\* packet of every other flow for round robin.
LagBound(f) ==
  LET w == FlowsetOf[f].w
  IN  CASE alg = "wf2qp" -> Lmax * WSum
        [] alg = "rr"    -> w * SumFunction([g \in Flows \ {f} |->
                                               quantum[g] + Lmax])
        [] OTHER         -> 0

Fair == \A f \in Flows : lag[f] <= LagBound(f)

=============================================================================
