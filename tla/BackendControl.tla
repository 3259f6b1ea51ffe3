---------------------------- MODULE BackendControl ----------------------------
(***************************************************************************)
(* The control plane of the backend process, in scheduler mode.            *)
(*                                                                         *)
(* The main thread (main_server_select) accepts hypervisors, one instance  *)
(* each, and handles their control messages (process_guest_message).  When *)
(* the last of the expected clients enables its device the main thread     *)
(* creates the one worker thread (process_packets), which serves every     *)
(* instance until it sees the batch's stopflag.  A message is handled in   *)
(* one step, except that backend_stop waits for the worker in              *)
(* pthread_join.  A request that is answered with BPFHV_PROXY_F_ERROR      *)
(* changes nothing, so it is a stuttering step.                            *)
(***************************************************************************)
EXTENDS Naturals, FiniteSets

CONSTANTS
  Threshold,    \* client_threshold_activation: instances, and active clients
                \* that start the worker
  Queues,       \* queues of a device (BPFHV_PROXY_REQ_SET_PARAMETERS: one pair)
  CreateFails,  \* may pthread_create fail?
  Remaps,       \* may SET_MEM_TABLE come again once there is a table?
  Signals,      \* may SIGINT or SIGTERM come?
  Leftover      \* may packets wait in a transmit ring when the worker stops?

ASSUME ControlAssumption ==
  /\ Threshold \in Nat \ {0} /\ IsFiniteSet(Queues) /\ Queues # {}
  /\ CreateFails \in BOOLEAN /\ Remaps \in BOOLEAN
  /\ Signals \in BOOLEAN /\ Leftover \in BOOLEAN

Instances == 1 .. Threshold

VARIABLES
  \* BpfhvBackendBatch
  allocated_instances, used_instances, th_running, stopflag,
  \* BpfhvBackend, by instance
  conn,      \* the control socket: "none", "open", "closed"
  params,    \* buffers and queues negotiated
  mem,       \* num_regions > 0
  ctx,       \* queue contexts: "null", "mapped", or "dangling" after a munmap
  kickfd, irqfd,
  status, running,
  \* threads
  mpc, self, \* the main thread, and the instance that DISABLE is stopping
  turn,      \* sigint_handler's loop
  wpc,       \* the worker
  sched      \* bp.sched_f: "created", "started", "freed"

batchVars  == <<allocated_instances, used_instances, th_running, stopflag>>
setupVars  == <<params, mem, ctx, kickfd, irqfd>>
enableVars == <<status, running>>
mainVars   == <<mpc, self, turn>>
workerVars == <<wpc, sched>>
vars == <<batchVars, conn, setupVars, enableVars, mainVars, workerVars>>

TypeOK ==
  /\ allocated_instances \in 0 .. Threshold
  /\ used_instances \in 0 .. Threshold
  /\ th_running \in BOOLEAN /\ stopflag \in {"NOEVENT", "HALT"}
  /\ conn \in [Instances -> {"none", "open", "closed"}]
  /\ params \in [Instances -> BOOLEAN] /\ mem \in [Instances -> BOOLEAN]
  /\ ctx \in [Instances -> [Queues -> {"null", "mapped", "dangling"}]]
  /\ kickfd \in [Instances -> SUBSET Queues]
  /\ irqfd \in [Instances -> SUBSET Queues]
  /\ status \in [Instances -> SUBSET {"RX", "TX"}]
  /\ running \in [Instances -> BOOLEAN]
  /\ mpc \in {"select", "join", "signal", "sigjoin", "sigdrain", "exited",
              "crashed"}
  /\ self \in 0 .. Threshold /\ turn \in 1 .. Threshold + 1
  /\ wpc \in {"none", "start", "loop", "serve", "finish", "exited"}
  /\ sched \in {"created", "started", "freed"}

\* What setup_backend makes of an instance: nothing negotiated, mapped, passed
\* or enabled.  No instance is used a second time.
setup_backend ==
  /\ params = [i \in Instances |-> FALSE] /\ mem = [i \in Instances |-> FALSE]
  /\ ctx = [i \in Instances |-> [q \in Queues |-> "null"]]
  /\ kickfd = [i \in Instances |-> {}] /\ irqfd = [i \in Instances |-> {}]
  /\ status = [i \in Instances |-> {}]
  /\ running = [i \in Instances |-> FALSE]

\* main, with -w: the batch is empty and the scheduler exists.
Init ==
  /\ allocated_instances = 0 /\ used_instances = 0
  /\ th_running = FALSE /\ stopflag = "NOEVENT"
  /\ conn = [i \in Instances |-> "none"]
  /\ setup_backend
  /\ mpc = "select" /\ self = 0 /\ turn = 1
  /\ wpc = "none" /\ sched = "created"

-----------------------------------------------------------------------------
(***************************************************************************)
(* Connections.                                                            *)
(***************************************************************************)

\* A hypervisor connects: assign_backend and setup_backend.  Once every
\* instance is taken, further connections are closed.
assign_backend ==
  /\ mpc = "select" /\ allocated_instances < Threshold
  /\ allocated_instances' = allocated_instances + 1
  /\ conn' = [conn EXCEPT ![allocated_instances + 1] = "open"]
  /\ UNCHANGED <<used_instances, th_running, stopflag, setupVars, enableVars,
                 mainVars, workerVars>>

\* EOF, a malformed message, or a reply that cannot be sent: the socket is
\* closed.  The instance stays as it is.
Disconnect(i) ==
  /\ mpc = "select" /\ conn[i] = "open"
  /\ conn' = [conn EXCEPT ![i] = "closed"]
  /\ UNCHANGED <<batchVars, setupVars, enableVars, mainVars, workerVars>>

-----------------------------------------------------------------------------
(***************************************************************************)
(* process_guest_message, by request.                                      *)
(***************************************************************************)
Request(i) == mpc = "select" /\ conn[i] = "open"

\* The requests that are refused while the backend is running.
RequestAtRest(i) == Request(i) /\ ~running[i]

SET_PARAMETERS(i) ==
  /\ RequestAtRest(i)
  /\ params' = [params EXCEPT ![i] = TRUE]
  /\ UNCHANGED <<batchVars, conn, mem, ctx, kickfd, irqfd, enableVars,
                 mainVars, workerVars>>

\* munmap of the previous table: contexts inside it point nowhere.
Unmapped(c) == IF c = "null" THEN "null" ELSE "dangling"

SET_MEM_TABLE(i) ==
  /\ Request(i) /\ (mem[i] => Remaps)
  /\ \E regions \in BOOLEAN : mem' = [mem EXCEPT ![i] = regions]
  /\ ctx' = [ctx EXCEPT ![i] = [q \in Queues |-> Unmapped(@[q])]]
  /\ UNCHANGED <<batchVars, conn, params, kickfd, irqfd, enableVars, mainVars,
                 workerVars>>

\* mmap fails after the previous table is gone: the client is disconnected.
SET_MEM_TABLE_fails(i) ==
  /\ Request(i) /\ (mem[i] => Remaps)
  /\ mem' = [mem EXCEPT ![i] = FALSE]
  /\ ctx' = [ctx EXCEPT ![i] = [q \in Queues |-> Unmapped(@[q])]]
  /\ conn' = [conn EXCEPT ![i] = "closed"]
  /\ UNCHANGED <<batchVars, params, kickfd, irqfd, enableVars, mainVars,
                 workerVars>>

\* Mutant of SET_QUEUE_CTX: accepted while the backend is running.
QueueCtxAnytime(i) ==
  /\ Request(i) /\ params[i]
  /\ \E q \in Queues :
       \/ mem[i] /\ ctx' = [ctx EXCEPT ![i][q] = "mapped"]
       \/ ctx' = [ctx EXCEPT ![i][q] = "null"]
  /\ UNCHANGED <<batchVars, conn, params, mem, kickfd, irqfd, enableVars,
                 mainVars, workerVars>>

\* A guest physical address that translate_addr finds in the memory table, or
\* no address: there is no context (yet).
SET_QUEUE_CTX(i) ==
  /\ RequestAtRest(i) /\ params[i]
  /\ \E q \in Queues :
       \/ mem[i] /\ ctx' = [ctx EXCEPT ![i][q] = "mapped"]
       \/ ctx' = [ctx EXCEPT ![i][q] = "null"]
  /\ UNCHANGED <<batchVars, conn, params, mem, kickfd, irqfd, enableVars,
                 mainVars, workerVars>>

\* A new descriptor replaces the old one; without one the notifier is removed.
SET_QUEUE_KICK(i) ==
  /\ RequestAtRest(i) /\ params[i]
  /\ \E q \in Queues :
       \/ kickfd' = [kickfd EXCEPT ![i] = @ \cup {q}]
       \/ kickfd' = [kickfd EXCEPT ![i] = @ \ {q}]
  /\ UNCHANGED <<batchVars, conn, params, mem, ctx, irqfd, enableVars,
                 mainVars, workerVars>>

SET_QUEUE_IRQ(i) ==
  /\ Request(i) /\ params[i]
  /\ \E q \in Queues :
       \/ irqfd' = [irqfd EXCEPT ![i] = @ \cup {q}]
       \/ irqfd' = [irqfd EXCEPT ![i] = @ \ {q}]
  /\ UNCHANGED <<batchVars, conn, params, mem, ctx, kickfd, enableVars,
                 mainVars, workerVars>>

backend_ready(i) ==
  /\ params[i] /\ mem[i]
  /\ \A q \in Queues : ctx[i][q] # "null"
  /\ kickfd[i] = Queues /\ irqfd[i] = Queues

\* activate_backend, and be->running = 1 when it succeeds: the client that
\* completes the batch starts the worker.
activate_backend(i, created) ==
  /\ used_instances < Threshold
  /\ used_instances' = used_instances + 1
  /\ IF used_instances + 1 = Threshold
     THEN /\ created \/ CreateFails
          /\ th_running' = (th_running \/ created)
          /\ wpc' = IF created THEN "start" ELSE wpc
          /\ running' = [running EXCEPT ![i] = created]
     ELSE /\ created
          /\ running' = [running EXCEPT ![i] = TRUE]
          /\ UNCHANGED <<th_running, wpc>>

\* RX_ENABLE and TX_ENABLE.  (activate_backend that finds the batch full is
\* reported to nobody.)
ENABLE(i, dir) ==
  /\ Request(i) /\ backend_ready(i)
  /\ status' = [status EXCEPT ![i] = @ \cup {dir}]
  /\ IF running[i] \/ used_instances >= Threshold
     THEN UNCHANGED <<used_instances, th_running, wpc, running>>
     ELSE \E created \in BOOLEAN : activate_backend(i, created)
  /\ UNCHANGED <<allocated_instances, stopflag, conn, setupVars, mainVars,
                 sched>>

\* backend_stop after the join, or when there was no worker to join.
Stopped(i) ==
  /\ running' = [running EXCEPT ![i] = FALSE]
  /\ used_instances' = used_instances - 1

\* Mutant of backend_stop: the flag of the instance is set, not the batch's.
StopUnheard(i) ==
  IF th_running
  THEN /\ mpc' = "join" /\ self' = i
       /\ UNCHANGED <<used_instances, running, stopflag>>
  ELSE Stopped(i) /\ UNCHANGED <<mpc, self, stopflag>>

\* backend_stop: tell the worker and wait for it in pthread_join.
backend_stop(i) ==
  IF th_running
  THEN /\ stopflag' = "HALT" /\ mpc' = "join" /\ self' = i
       /\ UNCHANGED <<used_instances, running>>
  ELSE Stopped(i) /\ UNCHANGED <<mpc, self, stopflag>>

\* RX_DISABLE and TX_DISABLE: the second of them stops the backend.
DISABLE(i, dir) ==
  /\ Request(i)
  /\ status' = [status EXCEPT ![i] = @ \ {dir}]
  /\ IF running[i] /\ status[i] \subseteq {dir}
     THEN backend_stop(i)
     ELSE UNCHANGED <<stopflag, mpc, self, used_instances, running>>
  /\ UNCHANGED <<allocated_instances, th_running, conn, setupVars, turn, workerVars>>

\* Mutant of Join: does not wait.
JoinNotWaiting ==
  /\ mpc = "join"
  /\ th_running' = FALSE
  /\ Stopped(self)
  /\ mpc' = "select" /\ self' = 0
  /\ UNCHANGED <<allocated_instances, stopflag, conn, setupVars, status, turn,
                 workerVars>>

\* pthread_join returns and backend_stop goes on.
Join ==
  /\ mpc = "join" /\ wpc = "exited"
  /\ wpc' = "none" /\ th_running' = FALSE
  /\ Stopped(self)
  /\ mpc' = "select" /\ self' = 0
  /\ UNCHANGED <<allocated_instances, stopflag, conn, setupVars, status, turn,
                 sched>>

-----------------------------------------------------------------------------
(***************************************************************************)
(* sigint_handler, run by the main thread out of select or pthread_join.   *)
(* It never returns.  In the latter case (self # 0) a second join of the   *)
(* same thread fails at once (EINVAL) and backend_stop gives up.           *)
(***************************************************************************)
sigint_handler ==
  /\ Signals /\ mpc \in {"select", "join"}
  /\ mpc' = "signal"
  /\ UNCHANGED <<batchVars, conn, setupVars, enableVars, self, turn,
                 workerVars>>

\* One turn of the loop over the first used_instances instances.
SignalTurn ==
  /\ mpc = "signal" /\ turn <= used_instances
  /\ IF ~running[turn]
     THEN turn' = turn + 1 /\ UNCHANGED <<mpc, stopflag, used_instances, running>>
     ELSE /\ UNCHANGED turn
          /\ IF th_running
             THEN /\ stopflag' = "HALT"
                  /\ mpc' = IF self = 0 THEN "sigjoin" ELSE "sigdrain"
                  /\ UNCHANGED <<used_instances, running>>
             ELSE Stopped(turn) /\ mpc' = "sigdrain" /\ UNCHANGED stopflag
  /\ UNCHANGED <<allocated_instances, th_running, conn, setupVars, status,
                 self, workerVars>>

SignalJoin ==
  /\ mpc = "sigjoin" /\ wpc = "exited"
  /\ wpc' = "none" /\ th_running' = FALSE
  /\ Stopped(turn)
  /\ mpc' = "sigdrain"
  /\ UNCHANGED <<allocated_instances, stopflag, conn, setupVars, status, self,
                 turn, sched>>

\* backend_drain finds the transmit rings empty, or calls be->send, which
\* setup_backend left NULL in scheduler mode.
backend_drain ==
  /\ mpc = "sigdrain"
  /\ \/ mpc' = "signal" /\ turn' = turn + 1
     \/ Leftover /\ mpc' = "crashed" /\ UNCHANGED turn
  /\ UNCHANGED <<batchVars, conn, setupVars, enableVars, self, workerVars>>

SignalExit ==
  /\ mpc = "signal" /\ turn > used_instances
  /\ mpc' = "exited"
  /\ UNCHANGED <<batchVars, conn, setupVars, enableVars, self, turn,
                 workerVars>>

-----------------------------------------------------------------------------
(***************************************************************************)
(* The worker: process_packets and process_packets_spin_many.              *)
(***************************************************************************)
Alive == mpc \notin {"exited", "crashed"}

WorkerFrame == UNCHANGED <<batchVars, conn, setupVars, enableVars, self, turn>>

\* sched_all_start.  If the scheduler was freed the program is in undefined
\* territory: it goes on, or dies.
sched_all_start ==
  /\ Alive /\ wpc = "start"
  /\ wpc' = "loop"
  /\ \/ mpc' = mpc /\ sched' = (IF sched = "freed" THEN "freed" ELSE "started")
     \/ sched = "freed" /\ mpc' = "crashed" /\ UNCHANGED sched
  /\ WorkerFrame

\* The test of the while loop.
process_packets_spin_many ==
  /\ Alive /\ wpc = "loop"
  /\ wpc' = IF stopflag = "NOEVENT" THEN "serve" ELSE "finish"
  /\ UNCHANGED <<mpc, sched>> /\ WorkerFrame

\* One iteration: acquire from, schedule and notify all instances.
Serve ==
  /\ Alive /\ wpc = "serve"
  /\ wpc' = "loop"
  /\ UNCHANGED <<mpc, sched>> /\ WorkerFrame

sched_all_finish ==
  /\ Alive /\ wpc = "finish"
  /\ wpc' = "exited" /\ sched' = "freed"
  /\ UNCHANGED mpc /\ WorkerFrame

-----------------------------------------------------------------------------
process_guest_message(i) ==
  \/ SET_PARAMETERS(i) \/ SET_MEM_TABLE(i) \/ SET_MEM_TABLE_fails(i)
  \/ SET_QUEUE_CTX(i) \/ SET_QUEUE_KICK(i) \/ SET_QUEUE_IRQ(i)
  \/ \E dir \in {"RX", "TX"} : ENABLE(i, dir) \/ DISABLE(i, dir)

SignalStep == SignalTurn \/ SignalJoin \/ backend_drain \/ SignalExit

WorkerStep ==
  sched_all_start \/ process_packets_spin_many \/ Serve \/ sched_all_finish

Next ==
  \/ assign_backend
  \/ \E i \in Instances : Disconnect(i) \/ process_guest_message(i)
  \/ Join \/ sigint_handler \/ SignalStep \/ WorkerStep

Spec == Init /\ [][Next]_vars

(***************************************************************************)
(* Fairness.  The operating system runs both threads, and the main thread  *)
(* goes on when it can.  Nobody has to connect or to send messages.        *)
(***************************************************************************)
Fairness == WF_vars(WorkerStep) /\ WF_vars(Join) /\ WF_vars(SignalStep)

FairSpec == Spec /\ Fairness

-----------------------------------------------------------------------------
(***************************************************************************)
(* Properties.                                                             *)
(***************************************************************************)

\* The worker is about to touch, or touching, the instances' rings.
Working == wpc \in {"start", "loop", "serve", "finish"}

\* The worker only ever serves instances that are running and have all their
\* queue contexts: no client can take its context away (SET_QUEUE_CTX), or be
\* stopped, while the worker is between pthread_create and pthread_join.
WorkerServesReady ==
  Working => \A i \in Instances : /\ running[i] /\ params[i]
                                  /\ \A q \in Queues : ctx[i][q] # "null"

\* The batch's used_instances ("Active clients" of the status file) is the number
\* of running instances, and th_running ("Scheduler thread active") says whether
\* there is a worker to join.
CountsAgree ==
  Alive => /\ used_instances = Cardinality({i \in Instances : running[i]})
           /\ th_running = (wpc # "none")

\* A device whose status is enabled in some direction is running, and one that
\* is disabled in both is not, between two messages.
StatusAgrees ==
  mpc = "select" => \A i \in Instances : running[i] = (status[i] # {})

\* "Notify the worker thread and join it": backend_stop comes back, whatever the
\* worker is doing when the flag is set.
StopReturns == mpc \in {"join", "sigjoin"} ~> mpc \notin {"join", "sigjoin"}

\* "Make sure that the processing thread sees stopflag == 0" (ENABLE): a worker
\* that was just created is not told to stop, unless somebody is stopping it.
StartSeesNoHalt == wpc = "start" /\ mpc = "select" => stopflag = "NOEVENT"

\* "This is not thread-safe at the moment being" (translate_addr): the memory
\* table that the worker translates addresses with does not change under it.
TableStable == [][wpc = "serve" => UNCHANGED <<mem, ctx>>]_<<mem, ctx>>

=============================================================================
