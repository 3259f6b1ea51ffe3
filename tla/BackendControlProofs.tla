------------------------- MODULE BackendControlProofs -------------------------
(***************************************************************************)
(* The batch's counters and the worker's instances, for every number of    *)
(* clients and queues.                                                     *)
(***************************************************************************)
EXTENDS BackendControl, FiniteSetTheorems, TLAPS

Running == {i \in Instances : running[i]}

(***************************************************************************)
(* There is a worker only while every instance is running: the client that *)
(* completes the batch creates it, and the first one that leaves joins it. *)
(* An instance that is running was ready when it was enabled, and the      *)
(* requests that could undo that are refused while it is running.          *)
(***************************************************************************)
ThreadInv ==
  /\ th_running \in BOOLEAN
  /\ th_running <=> wpc # "none"
  /\ th_running => \A i \in Instances : running[i]

ReadyInv ==
  /\ running \in [Instances -> BOOLEAN]
  /\ params \in [Instances -> BOOLEAN]
  /\ ctx \in [Instances -> [Queues -> {"null", "mapped", "dangling"}]]
  /\ \A i \in Instances :
       running[i] => params[i] /\ \A q \in Queues : ctx[i][q] # "null"

\* The instance that backend_stop is stopping is one of the batch, and there is
\* a worker to wait for.
StopInv ==
  /\ mpc = "join" => self \in Instances /\ th_running
  /\ mpc = "sigjoin" => turn \in Instances /\ th_running
  /\ turn \in Nat \ {0}

CountInv == used_instances = Cardinality(Running)

ControlInv == ThreadInv /\ ReadyInv /\ StopInv /\ CountInv

-----------------------------------------------------------------------------
\* The instances are finitely many, and as many as all of them are all of them.
LEMMA Counting ==
  ASSUME NEW S \in SUBSET Instances
  PROVE  /\ IsFiniteSet(S) /\ Cardinality(S) \in 0 .. Threshold
         /\ Cardinality(S) = Threshold => S = Instances
<1>1. IsFiniteSet(Instances) /\ Cardinality(Instances) = Threshold
  BY ControlAssumption, FS_Interval DEF Instances
<1>2. /\ IsFiniteSet(S) /\ Cardinality(S) <= Cardinality(Instances)
      /\ Cardinality(Instances) = Cardinality(S) => Instances = S
  BY <1>1, FS_Subset
<1>3. Cardinality(S) \in Nat
  BY <1>2, FS_CardinalityType
<1> QED BY <1>1, <1>2, <1>3, ControlAssumption

\* One more instance runs.
LEMMA OneMoreRuns ==
  ASSUME running \in [Instances -> BOOLEAN], NEW i \in Instances, ~running[i],
         running' = [running EXCEPT ![i] = TRUE]
  PROVE  Cardinality(Running') = Cardinality(Running) + 1
<1>1. Running' = Running \cup {i} /\ i \notin Running
  BY DEF Running, Instances
<1>2. IsFiniteSet(Running)
  BY Counting DEF Running
<1> QED BY <1>1, <1>2, FS_AddElement

\* One instance less runs.
LEMMA OneLessRuns ==
  ASSUME running \in [Instances -> BOOLEAN], NEW i \in Instances, running[i],
         running' = [running EXCEPT ![i] = FALSE]
  PROVE  Cardinality(Running') = Cardinality(Running) - 1
<1>1. Running' = Running \ {i} /\ i \in Running
  BY DEF Running, Instances
<1>2. IsFiniteSet(Running)
  BY Counting DEF Running
<1> QED BY <1>1, <1>2, FS_RemoveElement

\* No instance runs when the backend starts.
LEMMA InitControl == Init => ControlInv
<1> SUFFICES ASSUME Init PROVE ControlInv
  OBVIOUS
<1>1. Running = {}
  BY DEF Init, setup_backend, Running
<1>2. CountInv
  BY <1>1, FS_EmptySet DEF CountInv, Init
<1>3. ReadyInv
  BY DEF Init, setup_backend, ReadyInv
<1>4. ThreadInv
  BY Zenon DEF Init, ThreadInv
<1>5. StopInv
  BY DEF Init, StopInv
<1> QED BY <1>2, <1>3, <1>4, <1>5 DEF ControlInv

\* A message, a signal or a step of the worker keeps the invariant, unless
\* pthread_create may fail.
LEMMA KeepsControl == ~CreateFails /\ ControlInv /\ [Next]_vars => ControlInv'
<1> SUFFICES ASSUME ~CreateFails, ControlInv, [Next]_vars PROVE ControlInv'
  OBVIOUS
<1> USE DEF batchVars, setupVars, enableVars, mainVars, workerVars
<1> USE DEF ControlInv, ThreadInv, ReadyInv, StopInv, CountInv, Request,
        RequestAtRest
<1>0. Cardinality(Running) \in 0 .. Threshold /\ Threshold \in Nat \ {0}
  BY Counting, ControlAssumption DEF Running
<1>r. ASSUME running' = running PROVE Running' = Running
  BY <1>r DEF Running, Instances
\* Connections.
<1>1. CASE assign_backend
  BY <1>1, <1>r DEF assign_backend
<1>2. ASSUME NEW i \in Instances, Disconnect(i) PROVE ControlInv'
  BY <1>2, <1>r DEF Disconnect
\* The setup of an instance: contexts of a running one are not taken away.
<1>3. ASSUME NEW i \in Instances, SET_PARAMETERS(i) PROVE ControlInv'
  BY <1>3, <1>r DEF SET_PARAMETERS
<1>4. ASSUME NEW i \in Instances, SET_MEM_TABLE(i) \/ SET_MEM_TABLE_fails(i)
      PROVE  ControlInv'
  <2>1. /\ ctx' = [ctx EXCEPT ![i] = [q \in Queues |-> Unmapped(ctx[i][q])]]
        /\ UNCHANGED <<batchVars, params, running, mainVars, workerVars>>
    BY <1>4 DEF SET_MEM_TABLE, SET_MEM_TABLE_fails
  <2> QED BY <2>1, <1>r DEF Unmapped
<1>5. ASSUME NEW i \in Instances, SET_QUEUE_CTX(i) PROVE ControlInv'
  <2>1. PICK q \in Queues, c \in {"null", "mapped"} :
          ctx' = [ctx EXCEPT ![i][q] = c]
    BY <1>5 DEF SET_QUEUE_CTX
  <2>2. ctx' \in [Instances -> [Queues -> {"null", "mapped", "dangling"}]]
    BY <2>1
  <2>3. \A j \in Instances : j # i => ctx'[j] = ctx[j]
    BY <2>1
  <2> QED BY <1>5, <1>r, <2>2, <2>3 DEF SET_QUEUE_CTX
<1>6. ASSUME NEW i \in Instances, SET_QUEUE_KICK(i) \/ SET_QUEUE_IRQ(i)
      PROVE  ControlInv'
  BY <1>6, <1>r DEF SET_QUEUE_KICK, SET_QUEUE_IRQ
\* The client that completes the batch starts the worker.
<1>7. ASSUME NEW i \in Instances, NEW dir, ENABLE(i, dir) PROVE ControlInv'
  <2>1. CASE running[i] \/ used_instances >= Threshold
    BY <1>7, <2>1, <1>r DEF ENABLE
  <2>2. CASE ~(running[i] \/ used_instances >= Threshold)
    <3>1. PICK created \in BOOLEAN : activate_backend(i, created)
      BY <1>7, <2>2 DEF ENABLE
    <3>2. created
      BY <3>1 DEF activate_backend
    <3>3. /\ used_instances' = used_instances + 1
          /\ running' = [running EXCEPT ![i] = TRUE]
      BY <3>1, <3>2 DEF activate_backend
    <3>4. CountInv'
      BY <3>3, <2>2, OneMoreRuns
    <3>5. Cardinality(Running') = Threshold => \A j \in Instances : running'[j]
      <4>1. Running' \in SUBSET Instances
        BY DEF Running, Instances
      <4>2. Cardinality(Running') = Threshold => Running' = Instances
        BY <4>1, Counting
      <4> QED BY <4>2 DEF Running, Instances
    <3>6. ReadyInv'
      BY <1>7, <3>3 DEF ENABLE, backend_ready
    <3>7. StopInv'
      BY <1>7 DEF ENABLE
    <3>8. ThreadInv'
      BY <1>7, <3>1, <3>2, <3>3, <3>4, <3>5, <2>2, <1>0
         DEF activate_backend, ENABLE
    <3> QED BY <3>4, <3>6, <3>7, <3>8
  <2> QED BY <2>1, <2>2
\* An instance is stopped only once the worker is gone.
<1>s. ASSUME NEW i \in Instances, running[i], Stopped(i), wpc' = "none",
             th_running' = FALSE, UNCHANGED <<setupVars, turn>>,
             mpc' \notin {"join", "sigjoin"}
      PROVE  ControlInv'
  <2>1. CountInv'
    BY <1>s, OneLessRuns DEF Stopped
  <2> QED BY <2>1, <1>s DEF Stopped
<1>8. ASSUME NEW i \in Instances, NEW dir, DISABLE(i, dir) PROVE ControlInv'
  <2>1. CASE running[i] /\ status[i] \subseteq {dir} /\ ~th_running
    BY <1>8, <1>s, <2>1 DEF DISABLE, backend_stop
  <2>2. CASE running[i] /\ status[i] \subseteq {dir} /\ th_running
    BY <1>8, <1>r, <2>2 DEF DISABLE, backend_stop
  <2>3. CASE ~(running[i] /\ status[i] \subseteq {dir})
    BY <1>8, <1>r, <2>3 DEF DISABLE
  <2> QED BY <2>1, <2>2, <2>3
<1>9. CASE Join
  BY <1>9, <1>s DEF Join
\* Signals.
<1>10. CASE sigint_handler
  BY <1>10, <1>r DEF sigint_handler
<1>11. CASE SignalTurn
  <2>0. turn \in Instances
    BY <1>11, <1>0 DEF SignalTurn, Instances
  <2>1. CASE running[turn] /\ ~th_running
    BY <1>11, <1>s, <2>0, <2>1 DEF SignalTurn
  <2>2. CASE running[turn] /\ th_running
    BY <1>11, <1>r, <2>0, <2>2 DEF SignalTurn
  <2>3. CASE ~running[turn]
    BY <1>11, <1>r, <2>3 DEF SignalTurn
  <2> QED BY <2>1, <2>2, <2>3
<1>12. CASE SignalJoin
  BY <1>12, <1>s DEF SignalJoin
<1>13. CASE backend_drain
  BY <1>13, <1>r DEF backend_drain
<1>14. CASE SignalExit
  BY <1>14, <1>r DEF SignalExit
\* The worker.
<1>15. CASE sched_all_start
  BY <1>15, <1>r DEF sched_all_start, WorkerFrame
<1>16. CASE process_packets_spin_many
  BY <1>16, <1>r DEF process_packets_spin_many, WorkerFrame
<1>17. CASE Serve
  BY <1>17, <1>r DEF Serve, WorkerFrame
<1>18. CASE sched_all_finish
  BY <1>18, <1>r DEF sched_all_finish, WorkerFrame
<1>19. CASE UNCHANGED vars
  BY <1>19, <1>r DEF vars
<1> QED
  BY <1>1, <1>2, <1>3, <1>4, <1>5, <1>6, <1>7, <1>8, <1>9, <1>10, <1>11, <1>12,
     <1>13, <1>14, <1>15, <1>16, <1>17, <1>18, <1>19
     DEF Next, process_guest_message, SignalStep, WorkerStep

\* The control plane keeps its invariant as long as every pthread_create of
\* activate_backend succeeds.
LEMMA ControlInvHolds == ASSUME ~CreateFails PROVE Spec => []ControlInv
BY InitControl, KeepsControl, PTL DEF Spec

(***************************************************************************)
(* As long as pthread_create does not fail, used_instances is the number   *)
(* of running instances and th_running tells whether there is a worker to  *)
(* join, for every number of clients, whatever they send and in whatever   *)
(* order, and wherever a signal interrupts the main thread.                *)
(***************************************************************************)
THEOREM CountsAgreeHolds == ASSUME ~CreateFails PROVE Spec => []CountsAgree
<1>1. ControlInv => CountsAgree
  BY DEF ControlInv, ThreadInv, CountInv, CountsAgree, Running
<1> QED BY ControlInvHolds, <1>1, PTL

(***************************************************************************)
(* Under the same assumption the worker never meets an instance that is    *)
(* not running or has lost a queue context.                                *)
(***************************************************************************)
THEOREM WorkerServesReadyHolds ==
  ASSUME ~CreateFails PROVE Spec => []WorkerServesReady
<1>1. ControlInv => WorkerServesReady
  BY DEF ControlInv, ThreadInv, ReadyInv, WorkerServesReady, Working
<1> QED BY ControlInvHolds, <1>1, PTL

=============================================================================
