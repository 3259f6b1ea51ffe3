------------------------------- MODULE DnWf2q -------------------------------
(***************************************************************************)
(* The WF2Q+ scheduler of dummynet.  Every flow has a start and a finish   *)
(* time; the flows with packets are in sch_heap (eligible, by finish time) *)
(* or in ne_heap (not yet, by start time), the ones that ran empty in      *)
(* idle_heap until the virtual time V passes them.                         *)
(***************************************************************************)
EXTENDS DnFlows, DnHeap

\* wf2qp_new_fsk, and inv_w of wf2qp_new_queue.
WfWeight == [f \in Flows |-> ipdn_bound_var(FlowsetOf[f].w, 1, 1, 100)]

\* Mutant of WfInv: every flow has the same weight.
InvUnweighted == [f \in Flows |-> ONE_FP]

WfInv == [f \in Flows |-> ONE_FP \div WfWeight[f]]

\* F < S marks the times of a flow as invalid.
wf2qp_new_sched ==
  [mq |-> [f \in Flows |-> <<>>], w |-> WfWeight, inv_w |-> WfInv,
   S |-> [f \in Flows |-> 1], F |-> [f \in Flows |-> 0],
   V |-> 0, wsum |-> 0, inv_wsum |-> 0,
   sch |-> <<>>, ne |-> <<>>, idle |-> <<>>,
   pos |-> [f \in Flows |-> NoPos]]

Fresh(s, q) == DN_KEY_LT(s.F[q], s.S[q])

\* The heap operations on the fields of a scheduler state.
SetSch(s, h)  == [s EXCEPT !.sch = h.p, !.pos = h.pos]
SetNe(s, h)   == [s EXCEPT !.ne = h.p, !.pos = h.pos]
SetIdle(s, h) == [s EXCEPT !.idle = h.p, !.pos = h.pos]

InsertSch(s, q)  == SetSch(s, heap_insert(s.sch, s.pos, s.F[q], q))
InsertNe(s, q)   == SetNe(s, heap_insert(s.ne, s.pos, s.S[q], q))
InsertIdle(s, q) == SetIdle(s, heap_insert(s.idle, s.pos, s.F[q], q))

ExtractSch(s) == SetSch(s, heap_extract(s.sch, s.pos, 1))
ExtractNe(s)  == SetNe(s, heap_extract(s.ne, s.pos, 1))
ExtractIdle(s, father) == SetIdle(s, heap_extract(s.idle, s.pos, father))

\* idle_check(si, 1, 0): at most one flow is forgotten, when V is past it.
idle_check(s) ==
  IF s.idle # <<>> /\ DN_KEY_LT(HEAP_TOP(s.idle).key, s.V)
  THEN LET q == HEAP_TOP(s.idle).obj
           w == s.wsum - s.w[q]
       IN  [ExtractIdle(s, 1) EXCEPT
              !.S[q] = Plus(s.F[q], 1), !.wsum = w,
              !.inv_wsum = IF w > 0 THEN ONE_FP \div w ELSE @]
  ELSE s

-----------------------------------------------------------------------------
\* The start time of a flow that gets its first packet.
WfStart(s, q) ==
  IF Fresh(s, q)
  THEN [s EXCEPT !.S[q] = s.V, !.wsum = @ + s.w[q],
                 !.inv_wsum = ONE_FP \div (s.wsum + s.w[q])]
  ELSE [ExtractIdle(s, s.pos[q]) EXCEPT !.S[q] = MAX64(s.F[q], s.V)]

WfFinish(s, q, len) == [s EXCEPT !.F[q] = Plus(s.S[q], len * s.inv_w[q])]

\* With nothing backlogged, V jumps to the start time of the flow.
WfCatchUp(s, q) ==
  IF s.ne = <<>> /\ s.sch = <<>> THEN [s EXCEPT !.V = MAX64(s.S[q], @)] ELSE s

WfPlace(s, q) ==
  IF DN_KEY_LT(s.V, s.S[q]) THEN InsertNe(s, q) ELSE InsertSch(s, q)

wf2qp_enqueue(s, q, len) ==
  IF Backlogged(s, q) THEN dn_enqueue(s, q, len)
  ELSE WfPlace(WfCatchUp(WfFinish(WfStart(dn_enqueue(s, q, len), q), q, len),
                         q), q)

-----------------------------------------------------------------------------
\* V = max(V, min S_i), and the flows of ne_heap that are eligible at V move.
WfEligible(s) ==
  LET bumped == IF s.sch = <<>> /\ s.ne # <<>>
                THEN [s EXCEPT !.V = MAX64(@, HEAP_TOP(s.ne).key)] ELSE s
      moved[n \in Nat] ==
        IF n = 0 THEN bumped
        ELSE LET t == moved[n - 1]
             IN  IF t.ne # <<>> /\ DN_KEY_LEQ(HEAP_TOP(t.ne).key, t.V)
                 THEN InsertSch(ExtractNe(t), HEAP_TOP(t.ne).obj) ELSE t
  IN  moved[Len(s.ne)]

\* The flow with the least finish time sends; V advances by the packet's share
\* of the weights, and the flow is put where its next packet belongs.
WfRequeue(s, q) ==
  IF ~Backlogged(s, q) THEN InsertIdle(s, q)
  ELSE LET t == [s EXCEPT !.F[q] = Plus(@, Head(s.mq[q]) * s.inv_w[q])]
       IN  IF DN_KEY_LEQ(s.S[q], s.V) THEN InsertSch(t, q) ELSE InsertNe(t, q)

WfServe(s) ==
  LET q == HEAP_TOP(s.sch).obj
  IN  WfRequeue([ExtractSch(dn_dequeue(s, q)) EXCEPT
                   !.V = Plus(@, Head(s.mq[q]) * s.inv_wsum),
                   !.S[q] = s.F[q]], q)

WfSend(s) ==
  [m |-> Packet(s, HEAP_TOP(s.sch).obj), s |-> WfEligible(WfServe(s))]

wf2qp_dequeue(s) ==
  IF s.sch = <<>> /\ s.ne = <<>>
  THEN [m |-> NULL,    \* idle_check forgets every flow
        s |-> [s EXCEPT !.V = 0, !.wsum = 0, !.idle = <<>>,
                        !.S = [q \in Flows |->
                                 IF Fresh(s, q) THEN @[q]
                                 ELSE Plus(s.F[q], 1)],
                        !.pos = [q \in Flows |-> NoPos]]]
  ELSE WfSend(WfEligible(idle_check(s)))

-----------------------------------------------------------------------------
In(h, q) == \E i \in DOMAIN h : h[i].obj = q

\* The three heaps are heaps that share no flow: the flows with packets are in
\* sch_heap or ne_heap, the others whose times are valid in idle_heap.
\* sch_heap holds the eligible ones and is empty only when ne_heap is; wsum is
\* the weight of the flows in the heaps, and no start time is ahead of V by
\* more than the flow's longest packet.
WfConsistent(s, lmax) ==
  /\ \A h \in {s.sch, s.ne, s.idle} : HeapOrdered(h, s.pos)
  /\ Len(s.sch) + Len(s.ne) + Len(s.idle)
       = Cardinality({q \in Flows : ~Fresh(s, q)})
  /\ \A q \in Flows :
       /\ Backlogged(s, q) <=> In(s.sch, q) \/ In(s.ne, q)
       /\ ~Backlogged(s, q) /\ ~Fresh(s, q) <=> In(s.idle, q)
       /\ In(s.sch, q) => DN_KEY_LEQ(s.S[q], s.V)
       /\ In(s.ne, q) => /\ DN_KEY_LT(s.V, s.S[q])
                         /\ (s.S[q] - s.V) % TS <= lmax * s.inv_w[q]
  /\ s.sch = <<>> => s.ne = <<>>
  /\ s.wsum = SumFunction([q \in {r \in Flows : ~Fresh(s, r)} |-> s.w[q]])

=============================================================================
