-------------------------------- MODULE DnRr --------------------------------
(***************************************************************************)
(* The deficit round robin scheduler of dummynet.  The circular list of    *)
(* active queues is the sequence list, its first element si->head and its  *)
(* last one si->tail.                                                      *)
(***************************************************************************)
EXTENDS DnFlows

CONSTANTS
  min_q, max_q, q_bytes   \* rr_config: 60, 2048 and 1500 in the code

\* rr_new_fsk and rr_new_queue; the products stay below 2^32.
quantum ==
  [f \in Flows |-> ipdn_bound_var(FlowsetOf[f].w, 1, 1, 65536)
                     * ipdn_bound_var(FlowsetOf[f].len, q_bytes, min_q, max_q)]

rr_new_sched ==
  [mq |-> [f \in Flows |-> <<>>], list |-> <<>>, q_tot |-> 0,
   status |-> [f \in Flows |-> 0], credit |-> quantum, quantum |-> quantum]

rr_append(s, q) ==
  [s EXCEPT !.status[q] = 1, !.credit[q] = s.quantum[q],
            !.q_tot = @ + s.quantum[q], !.list = Append(@, q)]

rr_remove_head(s) ==
  LET q == Head(s.list)
  IN  [s EXCEPT !.status[q] = 0, !.q_tot = @ - s.quantum[q], !.list = Tail(@)]

next_pointer(s) == [s EXCEPT !.list = Append(Tail(@), Head(@))]

\* A queue that was empty joins the list unless it is still in it: dequeue
\* leaves an emptied queue there until its next turn.
rr_enqueue(s, q, len) ==
  LET t == dn_enqueue(s, q, len)
  IN  IF Backlogged(s, q) \/ t.status[q] = 1 THEN t ELSE rr_append(t, q)

\* One round of the loop that finds the queue to serve.
RrSkip(s) ==
  LET q == Head(s.list)
  IN  IF ~Backlogged(s, q) THEN rr_remove_head(s)
      ELSE next_pointer([s EXCEPT !.credit[q] = @ + s.quantum[q]])

RrServes(s) ==
  s.list = <<>> \/ LET q == Head(s.list)
                   IN  Backlogged(s, q) /\ Head(s.mq[q]) <= s.credit[q]

\* The loop cannot go on longer than this: a queue is passed until its credit
\* covers its packet, or taken off the list when it has none.
RrTurns(s) ==
  Len(s.list) * (1 + Max({0} \cup {Head(s.mq[q]) :
                                     q \in {r \in Flows : Backlogged(s, r)}}))

RrServe(s, q) ==
  [m |-> Packet(s, q),
   s |-> dn_dequeue([s EXCEPT !.credit[q] = @ - Head(s.mq[q])], q)]

RrHead(s) == IF s.list = <<>> THEN [m |-> NULL, s |-> s]
             ELSE RrServe(s, Head(s.list))

rr_dequeue(s) ==
  LET turn(t) == IF RrServes(t) THEN t ELSE RrSkip(t)
      loop[n \in Nat] == IF n = 0 THEN s ELSE turn(loop[n - 1])
  IN  RrHead(loop[RrTurns(s)])

=============================================================================
