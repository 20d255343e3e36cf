-------------------------------- MODULE Node --------------------------------
(***************************************************************************)
(* The node orchestrator (crates/node/src/node.rs), the command that runs  *)
(* it (run_blocking in crates/cli/src/commands/node/run.rs) and the        *)
(* modules it hosts, composed with the event router.                       *)
(*                                                                         *)
(* Three kinds of task run concurrently:                                   *)
(*   - the caller, run_blocking: Node::start inline, then it spawns        *)
(*     Node::wait, waits for ctrl-c, sends Stop on the control channel and *)
(*     joins the wait task;                                                *)
(*   - the wait task: receives the control signal, publishes               *)
(*     (Control, Stop), joins six module handles in a fixed order, then    *)
(*     the router task;                                                    *)
(*   - the router's dispatch loop and one run loop per enabled module.     *)
(*                                                                         *)
(* node.rs, run.rs and BroadcastModule are modelled from the source.  The   *)
(* bootstrapper (setup_runtime_components), the broadcast engine and the   *)
(* modules' run loops are not among the sources and are modelled from the  *)
(* specification (4.2, 4.3 step 3, 4.4); BroadcastModule::handle stands    *)
(* for the handler of every module.  The NodeConfig is the one module      *)
(* Options builds from the options of the command; an address stands for   *)
(* its port, which is all of it the broadcast engine is given.             *)
(***************************************************************************)
EXTENDS Options, Naturals, Sequences, FiniteSets, SequencesExt

CONSTANTS
    Stop,              \* Event::Stop
    NoEvent,           \* "the dispatch loop holds no event"
    MaxPublished,      \* bound: events published on the fan-in sender
    StopEndsDispatch,  \* see EventRouter
    BulkCapacity,      \* the capacity node.rs gives Network, Consensus, Storage
    EnabledChoices,    \* the sets of modules the bootstrapper may enable
    Faulty,            \* modules whose handler may fail on an event
    GivenConfigs,      \* the NodeConfig the command may start the node with
    FreeAddresses      \* the addresses a socket can be bound to

NodeTopics == {"Control", "State", "Network", "Consensus", "Storage"}

Modules == {"mempool", "state", "gossip", "controller",
            "validator", "miner", "jsonrpc", "http"}

\* The owner of the original events_tx: the frame of Node::start, then the
\* Node value.
NodeHolder == "node"

ASSUME /\ EnabledChoices \subseteq SUBSET Modules
       /\ Faulty \subseteq Modules
       /\ BulkCapacity \in Nat \ {0}
       /\ \A c \in GivenConfigs : IsNodeConfig(c)
       /\ OsAssigned \notin FreeAddresses

\* setup_event_routing_system
TopicCapacity ==
    [t \in NodeTopics |-> IF t \in {"Control", "State"} THEN 1
                          ELSE BulkCapacity]

\* The eight subscribe calls of Node::start, in order.
Subscriptions ==
    [t \in NodeTopics |->
        CASE t = "Storage"   -> <<"mempool", "state">>
          [] t = "Network"   -> <<"gossip", "controller">>
          [] t = "Consensus" -> <<"validator", "miner">>
          [] t = "Control"   -> <<"jsonrpc", "http">>
          [] OTHER           -> <<>>]

\* The handles Node::wait awaits, in the order it awaits them.
JoinOrder == <<"state", "miner", "gossip", "validator", "jsonrpc", "http">>

RouterJoin == Len(JoinOrder) + 1

VARIABLES
    capacity, subscribers, queues, open, inbound, senders, routerPc, pending,
    dispatched, delivered,   \* the router, see EventRouter
    callerPc,        \* where run_blocking (and Node::start inside it) is
    waitPc,          \* where the task running Node::wait is
    joinIdx,         \* the position in JoinOrder being awaited, 0 = none yet
    running_status,  \* Node.running_status, "None" while no Node exists
    control_rx,      \* the control channel's queue
    ctrlTx,          \* TRUE while run_blocking holds ctrl_tx
    task,            \* per module: "none" | "running" | "ok" | "err"
    status,          \* per module: its ActorState
    config,          \* the config given to start, then Node.config
    keypair,         \* Node.keypair, None while start has not read it
    addr             \* BroadcastModule.addr, None while none is built

routerVars == <<capacity, subscribers, queues, open, inbound, senders,
                routerPc, pending, dispatched, delivered>>
nodeVars   == <<callerPc, waitPc, joinIdx, running_status, control_rx, ctrlTx>>
moduleVars == <<task, status>>
dataVars   == <<config, keypair, addr>>
vars       == <<routerVars, nodeVars, moduleVars, dataVars>>

\* What the accessors of a Node answer: its config and the fields of it
\* they project, its running status and its keypair.
Accessors ==
    [config |-> config, id |-> config.id, node_idx |-> config.idx,
     node_type |-> config.node_type,
     is_bootsrap |-> config.node_type = "Bootstrap",
     status |-> running_status, keypair |-> keypair,
     udp_gossip_address |-> config.udp_gossip_address,
     raprtorq_gossip_address |-> config.raptorq_gossip_address,
     bootstrap_node_addresses |-> config.bootstrap_node_addresses,
     jsonrpc_server_address |-> config.jsonrpc_server_address]

R == INSTANCE EventRouter
        WITH Topics <- NodeTopics, Subscribers <- Modules,
             Holders <- Modules \cup {NodeHolder}, Capacities <- {}

-----------------------------------------------------------------------------
(* Node::start, run inline by run_blocking.                                *)

\* The fan-in channel is created, the router built with its five topics and
\* the eight endpoints subscribed.  Nothing else runs yet.
StartBegin ==
    /\ callerPc = "start_begin"
    /\ senders' = {NodeHolder}
    /\ capacity' = TopicCapacity
    /\ subscribers' = Subscriptions
    /\ open' = Modules
    /\ keypair' = config.keypair
    /\ callerPc' = "bootstrap"
    /\ UNCHANGED <<queues, inbound, routerPc, pending, dispatched, delivered,
                   waitPc, joinIdx, running_status, control_rx, ctrlTx,
                   moduleVars, config, addr>>

\* The broadcast engine binds its socket: the address asked for when it is
\* free, any free one when the port is left to the system.
Bindable(address) ==
    IF address = OsAssigned THEN FreeAddresses ELSE {address} \cap FreeAddresses

\* BroadcastModule::new, with local_addr: the address the new module listens
\* on, for every way the engine can bind; no module when it cannot.
New(address) == Bindable(address)

\* The modules a node with networking disabled is built without.
Networking == {"gossip", "controller"}

\* The config the bootstrapper returns: the one it was given, with the
\* address the gossip module resolved if it built one.
Updated(given, local_addr) ==
    IF local_addr = None THEN given
    ELSE [given EXCEPT !.udp_gossip_address = local_addr]

\* start keeps the config it was called with.
MutAmendedKeepsGiven(given, updated_config) == given

\* config = updated_config
Amended(given, updated_config) == updated_config

\* The bootstrapper holds on to the endpoints of the modules it does not
\* build.
MutKeptAll(enabled) == Modules

\* The endpoints that outlive the bootstrapper: those it moved into the
\* task of a module; the others go with its frame.
Kept(enabled) == enabled

\* setup_runtime_components succeeds: the enabled modules are running, each
\* with its endpoint and a clone of events_tx; the endpoints of the others
\* are dropped and their handles are None.  The gossip module is enabled
\* only with its socket bound, and start takes over the amended config.
Bootstrap(enabled) ==
    /\ callerPc = "bootstrap"
    /\ config.disable_networking => enabled \cap Networking = {}
    /\ \E local_addr \in IF "gossip" \in enabled
                          THEN New(config.udp_gossip_address) ELSE {None} :
          /\ addr' = local_addr
          /\ config' = Amended(config, Updated(config, local_addr))
    /\ task' = [m \in Modules |-> IF m \in enabled THEN "running" ELSE "none"]
    /\ senders' = senders \cup enabled
    /\ open' = Kept(enabled)
    /\ callerPc' = "start_finish"
    /\ UNCHANGED <<capacity, subscribers, queues, inbound, routerPc, pending,
                   dispatched, delivered, waitPc, joinIdx, running_status,
                   control_rx, ctrlTx, status, keypair>>

\* setup_runtime_components fails: start returns the error, and the router,
\* both halves of the fan-in channel and control_rx go with its frame;
\* run_blocking returns the error in turn.
BootstrapFail ==
    /\ callerPc = "bootstrap"
    /\ senders' = {}
    /\ open' = {}
    /\ routerPc' = "dropped"
    /\ ctrlTx' = FALSE
    /\ callerPc' = "failed"
    /\ UNCHANGED <<capacity, subscribers, queues, inbound, pending, dispatched,
                   delivered, waitPc, joinIdx, running_status, control_rx,
                   moduleVars, dataVars>>

\* The dispatch loop is spawned and the Node value built.
StartFinish ==
    /\ callerPc = "start_finish"
    /\ routerPc' = "recv"
    /\ running_status' = "Stopped"
    /\ callerPc' = "spawn_wait"
    /\ UNCHANGED <<capacity, subscribers, queues, open, inbound, senders,
                   pending, dispatched, delivered, waitPc, joinIdx,
                   control_rx, ctrlTx, moduleVars, dataVars>>

-----------------------------------------------------------------------------
(* run_blocking after Node::start.                                         *)

SpawnWait ==
    /\ callerPc = "spawn_wait"
    /\ waitPc' = "begin"
    /\ callerPc' = "ctrl_c"
    /\ UNCHANGED <<routerVars, joinIdx, running_status, control_rx, ctrlTx,
                   moduleVars, dataVars>>

\* ctrl-c arrives and Stop is sent on the control channel.
CtrlC ==
    /\ callerPc = "ctrl_c"
    /\ control_rx' = Append(control_rx, Stop)
    /\ callerPc' = "join_node"
    /\ UNCHANGED <<routerVars, waitPc, joinIdx, running_status, ctrlTx,
                   moduleVars, dataVars>>

\* Listening for ctrl-c fails: run_blocking returns the error, dropping
\* ctrl_tx and the handle of the wait task.
CtrlCFail ==
    /\ callerPc = "ctrl_c"
    /\ ctrlTx' = FALSE
    /\ callerPc' = "failed"
    /\ UNCHANGED <<routerVars, waitPc, joinIdx, running_status, control_rx,
                   moduleVars, dataVars>>

\* The wait task has ended.  Only a failed join is an error to run_blocking:
\* the value wait returned is not looked at.
JoinNode ==
    /\ callerPc = "join_node"
    /\ waitPc \in {"ok", "err"}
    /\ ctrlTx' = FALSE
    /\ callerPc' = "done"
    /\ UNCHANGED <<routerVars, waitPc, joinIdx, running_status, control_rx,
                   moduleVars, dataVars>>

-----------------------------------------------------------------------------
(* Node::wait.                                                             *)

WaitBegin ==
    /\ waitPc = "begin"
    /\ running_status' = "Running"
    /\ waitPc' = "recv_ctrl"
    /\ UNCHANGED <<routerVars, callerPc, joinIdx, control_rx, ctrlTx,
                   moduleVars, dataVars>>

\* wait returns: the Node value is dropped, and with it the original
\* events_tx and every handle not awaited (their tasks run on, detached).
Return(outcome) ==
    /\ waitPc' = outcome
    /\ senders' = senders \ {NodeHolder}
    /\ UNCHANGED <<capacity, subscribers, queues, open, inbound, routerPc,
                   pending, dispatched, delivered, callerPc, joinIdx,
                   control_rx, ctrlTx, moduleVars, dataVars>>

\* A handle that is None is awaited like any other.
MutNextJoinNoSkip(i) == i

\* The first handle at or after position i that is Some; RouterJoin if none.
NextJoin(i) ==
    LET some == {j \in i..Len(JoinOrder) : task[JoinOrder[j]] # "none"}
    IN IF some = {} THEN RouterJoin ELSE Min(some)

\* The stop broadcast goes to the Network topic.
MutStopTopicNetwork == "Network"

\* The topic the stop broadcast is published on.
StopTopic == "Control"

\* The control signal arrives: (Control, Stop) is published and wait moves
\* on to its first join.
WaitRecvStop ==
    /\ waitPc = "recv_ctrl"
    /\ control_rx # <<>>
    /\ control_rx' = Tail(control_rx)
    /\ R!InboundOpen
    /\ R!Send(<<StopTopic, Stop>>)
    /\ joinIdx' = NextJoin(1)
    /\ waitPc' = "join"
    /\ UNCHANGED <<capacity, subscribers, queues, open, senders, routerPc,
                   pending, dispatched, delivered, callerPc, running_status,
                   ctrlTx, moduleVars, dataVars>>

\* The control channel is closed with nothing in it: wait returns an error
\* before it has told anything to stop.
WaitRecvClosed ==
    /\ waitPc = "recv_ctrl"
    /\ control_rx = <<>>
    /\ ~ctrlTx
    /\ Return("err")
    /\ UNCHANGED running_status

Awaited == JoinOrder[joinIdx]

\* A task that ended with an error is passed like one that ended well.
MutPassingAny == {"ok", "err"}

\* The results of a module task that let wait go on to the next handle.
Passing == {"ok"}

\* The awaited module task has ended well: on to the next handle.
JoinOk ==
    /\ waitPc = "join"
    /\ joinIdx \in DOMAIN JoinOrder
    /\ task[Awaited] \in Passing
    /\ joinIdx' = NextJoin(joinIdx + 1)
    /\ UNCHANGED <<routerVars, callerPc, waitPc, running_status, control_rx,
                   ctrlTx, moduleVars, dataVars>>

\* The awaited module task has ended with an error: wait returns it at once.
JoinErr ==
    /\ waitPc = "join"
    /\ joinIdx \in DOMAIN JoinOrder
    /\ task[Awaited] \notin Passing \cup {"running"}
    /\ Return("err")
    /\ UNCHANGED running_status

\* The router task has ended: the node is Stopped and wait returns Ok.
JoinRouter ==
    /\ waitPc = "join"
    /\ joinIdx = RouterJoin
    /\ routerPc = "done"
    /\ running_status' = "Stopped"
    /\ Return("ok")

-----------------------------------------------------------------------------
(* The modules.                                                            *)

\* Stop is handled like any other event.
MutHandleIgnoresStop(event) == "Running"

\* Every event ends the module.
MutHandleAlwaysTerminating(event) == "Terminating"

\* BroadcastModule::new: the state a module is built in.
InitialStatus == "Stopped"

\* Handler::set_status
SetStatus(m, actor_status) == status' = [status EXCEPT ![m] = actor_status]

\* BroadcastModule::handle
Handle(event) == IF event = Stop THEN "Terminating" ELSE "Running"

\* The run loop's turn on the next event: handle it, store the state it
\* returns, and leave the loop if that is Terminating.  A module that leaves
\* drops its endpoint and its clone of events_tx, and its task ends with
\* the given result.
Turn(m, state, result) ==
    /\ SetStatus(m, state)
    /\ R!Receive(m, state # "Terminating")
    /\ IF state = "Terminating"
       THEN /\ task' = [task EXCEPT ![m] = result]
            /\ senders' = senders \ {m}
       ELSE UNCHANGED <<task, senders>>

ModuleStep(m) ==
    /\ task[m] = "running"
    /\ queues[m] # <<>>
    /\ Turn(m, Handle(Head(queues[m])), "ok")
    /\ UNCHANGED <<capacity, subscribers, inbound, routerPc, pending,
                   dispatched, nodeVars, dataVars>>

\* An unrecoverable fault while handling an event other than Stop: the
\* module terminates itself and its task ends with an error.
ModuleFault(m) ==
    /\ m \in Faulty
    /\ task[m] = "running"
    /\ queues[m] # <<>>
    /\ Head(queues[m]) # Stop
    /\ Turn(m, "Terminating", "err")
    /\ UNCHANGED <<capacity, subscribers, inbound, routerPc, pending,
                   dispatched, nodeVars, dataVars>>

\* A running module publishes an event of its own on some topic.
ModulePublish(m, t) ==
    /\ task[m] = "running"
    /\ R!Publish(m, t, R!NumPublished + 1)
    /\ UNCHANGED <<nodeVars, moduleVars, dataVars>>

-----------------------------------------------------------------------------
Init ==
    /\ R!Fresh
    /\ senders = {}
    /\ callerPc = "start_begin"
    /\ waitPc = "idle"
    /\ joinIdx = 0
    /\ running_status = "None"
    /\ control_rx = <<>>
    /\ ctrlTx = TRUE
    /\ task = [m \in Modules |-> "none"]
    /\ status = [m \in Modules |-> InitialStatus]
    /\ config \in GivenConfigs
    /\ keypair = None
    /\ addr = None

Caller ==
    \/ StartBegin
    \/ \E enabled \in EnabledChoices : Bootstrap(enabled)
    \/ StartFinish
    \/ SpawnWait
    \/ JoinNode

\* What the caller's environment decides: a module fails to start, ctrl-c
\* arrives, or listening for it fails.
Environment == BootstrapFail \/ CtrlC \/ CtrlCFail

Wait ==
    WaitBegin \/ WaitRecvStop \/ WaitRecvClosed \/ JoinOk \/ JoinErr \/ JoinRouter

Router == R!Dispatch /\ UNCHANGED <<nodeVars, moduleVars, dataVars>>

Next ==
    \/ Caller
    \/ Environment
    \/ Wait
    \/ Router
    \/ \E m \in Modules :
          \/ ModuleStep(m)
          \/ ModuleFault(m)
          \/ \E t \in NodeTopics : ModulePublish(m, t)

\* Every task is scheduled by the runtime and runs when it can: the caller,
\* the wait task, the dispatch loop and each module's run loop.  Whether a
\* module publishes or fails, and whether and when ctrl-c arrives, is not
\* promised.
Fairness ==
    /\ WF_vars(Caller)
    /\ WF_vars(Wait)
    /\ WF_vars(Router)
    /\ \A m \in Modules : WF_vars(ModuleStep(m))

Spec == Init /\ [][Next]_vars /\ Fairness

-----------------------------------------------------------------------------
ActorStates == {"Starting", "Running", "Terminating", "Stopped"}

TypeOK ==
    /\ R!TypeOK
    /\ callerPc \in {"start_begin", "bootstrap", "start_finish", "spawn_wait",
                     "ctrl_c", "join_node", "done", "failed"}
    /\ waitPc \in {"idle", "begin", "recv_ctrl", "join", "ok", "err"}
    /\ joinIdx \in 0..RouterJoin
    /\ joinIdx \in DOMAIN JoinOrder => task[Awaited] # "none"
    /\ running_status \in ActorStates \cup {"None"}
    /\ control_rx \in Seq({Stop})
    /\ ctrlTx \in BOOLEAN
    /\ task \in [Modules -> {"none", "running", "ok", "err"}]
    /\ status \in [Modules -> ActorStates]
    /\ IsNodeConfig(config)
    /\ keypair \in {None} \cup {c.keypair : c \in GivenConfigs}
    /\ addr \in {None} \cup FreeAddresses

\* Stop is the last event a module processes (4.2, 8): once its handler has
\* seen Stop the run loop is left, whatever was published behind it.
StopIsLast ==
    \A m \in Modules :
        Contains(delivered[m], Stop) => Last(delivered[m]) = Stop

\* A module task ends well only by being told to stop, and nothing is told
\* to stop before the operator asked for it (4.2, 4.3): a task result "ok"
\* means Stop was received, and a received Stop means run_blocking had sent
\* the control signal.
CleanExitOnlyOnStop ==
    \A m \in Modules :
        /\ task[m] = "ok" => Contains(delivered[m], Stop)
        /\ Contains(delivered[m], Stop) => callerPc \in {"join_node", "done"}

\* wait returns Ok only from an orderly shutdown (4.3, 7; the `??` of
\* node.rs 159-186): every handle it owns in the join order is absent or
\* its task ended well, whichever modules failed and whenever they did.
OrderlyShutdown ==
    waitPc = "ok" => \A m \in ToSet(JoinOrder) : task[m] \in {"none", "ok"}

\* The node reports the address its gossip module listens on (3, 4.3 step
\* 3, 4.4 and the end-to-end scenario of 8; BroadcastModule::new, node.rs
\* 118 and udp_gossip_address): once start has returned a node with a
\* gossip module, the address the node answers is the one the module's
\* socket is bound to, which is the configured address or, when the port
\* was left to the system, the address the system assigned, never the
\* placeholder with port 0.
ReportsBoundAddress ==
    (running_status # "None" /\ task["gossip"] # "none") =>
        /\ Accessors.udp_gossip_address = addr
        /\ addr \in FreeAddresses

\* The node keeps the router's promise to its modules (4.1, 5; node.rs
\* 85-122 and the modules' run loops): with the endpoints subscribed in
\* one step, dropped by the bootstrapper or with the frame of a failed
\* start, and closed by a module in the step that handles its last event,
\* every module still reads the log of its topic in order and whole.
ImplementsPubSub == R!PS!Spec

\* The broadcast of Stop reaches every module wait is going to join: those
\* that run are subscribed to the topic it is published on.
StopReachesJoined ==
    \A m \in ToSet(JoinOrder) :
        task[m] = "none" \/ m \in ToSet(Subscriptions["Control"])

\* Once the stop signal is sent to a node whose joined modules all listen
\* on Control, the command returns (4.3, 8): wait
\* receives it however the two tasks were scheduled, the broadcast reaches
\* the modules, the joins resolve and run_blocking gets its node back.
ShutdownCompletes ==
    (callerPc = "join_node" /\ StopReachesJoined) ~> (callerPc = "done")

-----------------------------------------------------------------------------
(* What the specification says of the node and the code does not do.       *)

\* 4.3 "wait" step 3 and 8 (baseline liveness): once the stop signal is
\* received, wait drops the outbound sender, the router's inbound stream
\* closes, the router task ends and wait returns.
WaitReturns == (waitPc = "join") ~> (waitPc \in {"ok", "err"})

\* 8, end-to-end scenario: with the gossip module enabled, after the stop
\* signal its join reports success.
GossipStops == (callerPc = "join_node") ~> (task["gossip"] = "ok")

\* 7: a module task that ended with an error does not keep wait from
\* awaiting the handles after it in the order.
JoinsProceedPastError ==
    (waitPc = "err" /\ joinIdx > 0) => joinIdx = RouterJoin

\* 7: no error is silently swallowed; when run_blocking returns Ok the
\* shutdown it waited for succeeded.
ErrorsSurface == callerPc = "done" => waitPc = "ok"

=============================================================================
