# TLA+ models of the vrrb node runtime

This directory holds the TLA+ specifications of the node runtime of
`pineappleworkshop/vrrb`, the TLC configurations that check them, and
`PROJECT.json`, which records, for every definition, the source lines it
models, and for every run what it checks. The written specification of the
system is `spec.md`; section numbers below (4.1, 4.3, ...) refer to it.

## 1. The system

A node is a set of long-running modules that talk only through a topic-based
event router. Five kinds of task run concurrently on the tokio runtime:

| Part | Source | What it does |
|---|---|---|
| Event router | `vrrb_core::event_router` (not among the sources; spec 4.1) | Fan-in channel of `(Topic, Event)`, fan-out to the bounded queue of every subscriber of the topic; blocks while a queue is full; the loop ends when every sender is dropped |
| Orchestrator | `crates/node/src/node.rs` | `Node::start` builds the router, subscribes eight endpoints, calls the bootstrapper, spawns the dispatch loop; `Node::wait` receives the stop signal, publishes `(Control, Stop)`, joins six module handles in a fixed order, then the router |
| Modules | `crates/node/src/runtime/broadcast_module.rs` and modules outside the sources | `BroadcastModule::new` binds the gossip socket and keeps its address; a run loop per module: receive an event, `handle` it, leave the loop on `Terminating` |
| Run command | `crates/cli/src/commands/node/run.rs` | `run` reads or generates the node's keypair, writes the node config, and calls `run_blocking`, which starts the node, spawns `wait`, waits for ctrl-c, sends `Stop` on the control channel and joins the wait task |
| Run options | `crates/cli/src/commands/node/run.rs` | `RunOpts` as parsed from the command line, `RunOpts::from_file` for a config file, `RunOpts::merge` to combine the two, `From<RunOpts>` to build the `NodeConfig` |
| Wallet command | `crates/cli/src/commands/wallet/new.rs` | `exec` creates an account in the wallet's state and writes its keypair and its description to the alias' directory |
| Utilities | `crates/vrrb_lib/src/utils.rs` | `decay_calculator`, `restore_db` |

### Inventory

| Component | State | Operations | Talks to | Hard behaviours | Properties it should have |
|---|---|---|---|---|---|
| Event router | capacity and subscriber list per topic, one bounded queue per endpoint, the fan-in channel, the set of live senders | `add_topic`, `subscribe`, `start` (receive, push to each subscriber, exit), `send`, sender drop, endpoint receive, endpoint drop | every module, the orchestrator | backpressure on a full queue holds up every topic; a subscriber ends while the loop waits on it; senders dropped in any order | queues within capacity; FIFO per (topic, subscriber), no loss, no duplicate; exit only when closed and drained; dispatch comes to rest |
| Orchestrator | `config`, `keypair`, `running_status`, `control_rx`, `events_tx`, eight optional handles, the router handle | `start` (four steps, one fallible), `wait` (receive, broadcast, six joins, router join), the accessors | router, modules, the run command | sequential joins on modules that may never stop; first error returns; sender held across the router join; the config amended while the modules are built | wait returns; wait returns Ok only from an orderly shutdown; absent handles skipped; the address reported is the address bound |
| Module | `status`, `addr`, its endpoint, its clone of `events_tx`, its task result | `new`, run-loop turn (`handle`), fault, publish | router, the socket | events published behind Stop; publishing while being stopped | Stop is the last event handled; a task ends well only when stopped |
| `run_blocking` | `ctrl_tx`, the handle of the wait task | start, spawn wait, ctrl-c, send Stop, join | orchestrator, the OS signal | the signal races the start of `wait`; ctrl-c listening fails; the result of `wait` | the command returns after ctrl-c; errors surface |
| `run` | keypair file, config file, local `keypair` and `node_config` | create data dir, read keypair, generate and write keypair, build config, write config, dispatch | the file system, `run_blocking` | killed or failing between two writes; two runs at once | the node runs under the stored identity; a stored keypair is never replaced |
| Run options | none (pure functions of records) | `default`, `from_file`, `merge`, `from` | the config file, the command's caller | a file that does not deserialize; a different test per kind of value; a field overwritten on the way | whole records; one precedence rule per field; an explicit setting is not lost |
| Wallet `exec` | wallet state, alias directory, keys file, account file | generate keypair, create directory, create account, write keys, serialize, write account | wallet, file system | failure or kill between steps; torn writes; the command run again over what an earlier run left | nothing on disk that the state lacks; Ok means state and files are the new account's |
| Utilities | a database file | `restore_db`, `decay_calculator` | file system | load error hides data; division by zero | - |

## 2. Modules

| Module | Models | Kind |
|---|---|---|
| `PubSub` | what the router promises: a log per topic, read in order and to the end by every live subscriber | abstract specification, from 4.1 and 5 |
| `EventRouter` | the router, the fan-in channel and the receiving side of an endpoint; implements `PubSub` | from the specification (4.1, 5, 6), the router's code not being among the sources |
| `Node` | `Node::start`, `Node::wait`, the accessors, `run_blocking`, `BroadcastModule`, the module run loop and the bootstrapper, composed with `EventRouter` by `INSTANCE` and started with a `NodeConfig` of `Options` | from the source, except the run loop, the broadcast engine and the inside of the bootstrapper, which are from the specification (4.2, 4.3 step 3, 4.4) |
| `Options` | `RunOpts`, `Default for RunOpts`, `from_file`, `merge` and `From<RunOpts> for NodeConfig` as operators on records | from the source; `NodeType` and its parser are outside the sources |
| `ResolveOptions` | the way from a config file and a command line to a `NodeConfig`: `from_file`, then `merge`, then `From` | from the source; the order of the calls is the model's, `merge` having no caller in the sources |
| `RunCommand` | `run` over the files of one data directory, with the options and `From<RunOpts>` of `Options` | from the source; the file helpers it calls are outside the sources |
| `WalletNew` | `exec` of `wallet new` over the wallet's state and the files of one alias | from the source; `Wallet::create_account` is outside the sources |
| `MCEventRouter`, `MCNode`, `MCRunCommand`, `MCResolveOptions`, `MCWalletNew` | the instances TLC checks | - |

### PubSub

`subs` (the subscribers of each topic, in the order they joined), `live` (the
subscribers that still read), `log` (per topic, what was published) and `seen`
(per subscriber, what it has read). `Join` adds subscribers while nothing was
published, each to one topic; `Publish` appends to a log; `Read(s)` gives a
live subscriber the next entry of its topic's log, after which it may leave;
`Leave` takes subscribers out of `live`. `Read` is weakly fair: a live
subscriber with something to read reads it. There are no queues, no
capacities and no dispatch loop in it.

`EventRouter` implements it under the mapping `subs <- subscribers`,
`live <- open`, `log <- dispatched`, `seen <- delivered`: the router's
`RouterRecv` is a `Publish`, an endpoint's receive is a `Read`, and every
step of the fan-out, of the senders and of the queues is a stuttering step.
The property `ImplementsPubSub` is `PubSub`'s `Spec` under that mapping, its
fairness included, so it also says that a full queue, a closed endpoint or
the loop's exit never keep an open endpoint from the rest of its log.

### EventRouter

Variables: `capacity`, `subscribers` (per topic, in subscription order),
`queues` (per endpoint), `open` (endpoints whose receiving half is alive),
`inbound` (the unbounded fan-in channel), `senders` (holders of a sender),
`routerPc` and `pending` (the dispatch loop and the fan-out it is in the middle
of). `dispatched` and `delivered` are history variables: the events the loop
took off the stream per topic, and the events each endpoint received.

The dispatch loop is three actions. `RouterRecv` takes the head of the stream
and notes the endpoints it owes the event; `RouterPush` gives it to the next
one, and is enabled only while that queue has room (the blocking send); after
the last push the loop receives again. `RouterExit` leaves the loop when the
stream is closed and empty. An endpoint whose receiver was dropped is passed
over: a send to a closed channel returns at once. The specification does not
say so in words; a loop that waited for a closed endpoint would never end, and
`EventuallyQuiescent` with the mutant `MutPassedOverNever` shows it.

`StopEndsDispatch` selects between two readings of the loop. `FALSE` is the
router of 4.1: Stop is an event like any other. `TRUE` is a router that
returns after it has forwarded a Stop. The second is not what the
specification describes; it is the only reading under which `Node::wait` can
return Ok (section 4), and the shutdown properties of the node are checked
under it.

### Node

The router's ten variables, plus `callerPc` (`run_blocking`), `waitPc` and
`joinIdx` (the wait task), `running_status`, `control_rx`, `ctrlTx`, and per
module `task` (`none`, `running`, `ok`, `err`: the state of its handle) and
`status` (its `ActorState`); `config` (the `NodeConfig` the command starts
the node with, then `Node.config`), `keypair` (`Node.keypair`) and `addr`
(the address the gossip module's socket is bound to).

| Action | Code |
|---|---|
| `StartBegin` | `node.rs` 74-92: channel, router with five topics, eight subscriptions |
| `Bootstrap(enabled)`, `BootstrapFail` | 94-118: `setup_runtime_components(...).await?`, `config = updated_config` |
| `New`, `Bindable` | `broadcast_module.rs` 50-72: `BroadcastEngine::new(port, 32)`, `local_addr` |
| `Accessors` | `node.rs` 198-253 |
| `StartFinish` | 120-141: spawn of the dispatch loop, `running_status: Stopped` |
| `SpawnWait`, `CtrlC`, `CtrlCFail`, `JoinNode` | `run.rs` 288-312 |
| `WaitBegin` | `node.rs` 147 |
| `WaitRecvStop`, `WaitRecvClosed` | 150-157: `control_rx.recv()`, then `events_tx.send((Control, Stop))` |
| `JoinOk`, `JoinErr` | 159-187: `if let Some(handle) = ... { handle.await??; }`, six times |
| `JoinRouter` | 189-195 |
| `ModuleStep`, `ModuleFault` | the run loop calling `handle` (`broadcast_module.rs` 97-106) |
| `ModulePublish` | a module's `events_tx.send` |

`Return` is what the end of `wait` does besides returning: the `Node` value is
dropped, and with it `events_tx` and every handle not yet awaited, whose tasks
run on detached. `events_tx.send` in `wait` cannot fail in any reachable state
(the router holds the receiver until it ends, and it does not end before Stop
was published), and neither can `ctrl_tx.send` in `run_blocking`; their error
branches are therefore guards, not actions.

Which modules a configuration enables is decided inside the bootstrapper; the
model takes the sets from the constant `EnabledChoices`. `Faulty` names the
modules whose handler may return `Terminating` for an event other than Stop.

`InitialStatus` is the state `BroadcastModule::new` builds a module in and
`SetStatus` is `Handler::set_status`, which the run loop calls with what
`handle` returned.

The `NodeConfig` is a record of module `Options`: `Init` takes it from
`GivenConfigs`, which the instances fill with `From<RunOpts>` of a command
line (no option; a gossip address that is free; one that is taken;
`--disable-networking`). `start` reads the keypair from it (80), hands it to
the bootstrapper and keeps what comes back (118). The bootstrapper builds no
networking module (gossip, broadcast controller) for a config with
`disable_networking`, and it enables the gossip module only with the socket
`BroadcastModule::new` bound: `Bindable` is the configured address if it is
free, any free address if the port was left to the system (`OsAssigned`,
port 0), and nothing otherwise, in which case `new` fails and the only step
left is `BootstrapFail`. An address stands for its port: the port is all of
the address that `BroadcastModuleConfig` carries. `Accessors` is the record
of what the accessors of a `Node` answer; `ReportsBoundAddress` reads the
gossip address from it.

### Options and ResolveOptions

A `RunOpts` is a function on the sixteen `Fields`. Flags are booleans; every
other value is a string standing for the path, address, list or text the code
has there, with `None` for an `Option` that is `None` and `Empty` for an empty
string or path. Parsing a node type is `NodeTypeOf`, a function defined on the
names that parse. A config file is the function from the keys it has to their
values.

| Operator | Code |
|---|---|
| `ClapDefault` | the `default_value` of each clap attribute (32-87) |
| `RunOptsDefault` | `Default for RunOpts` (133-157) |
| `FileDefault`, `Deserializes`, `FromFile` | `from_file` (160-182): the `set_default` calls, `try_deserialize`, `unwrap_or_default` |
| `Overrides`, `SelfFirst`, `Merge` | `merge` (184-239) |
| `FromOption`, `FromDefault`, `Guarded`, `Present`, `FromRunOpts` | `From<RunOpts>` (89-131) |

`ResolveOptions` runs them in sequence on a file and a command line chosen in
`Init`: `Load` or `LoadFail` (the builder fails: no such file, unknown
format), `MergeOptions` with the file's options as `self` or as `other`, and
`Configure`.

### WalletNew

`accounts` is the wallet's state (the public keys that have an account),
`account_data_dir`, `keys_file` and `account_file` are the alias' directory
and its two files, `pc` the step each invocation is at. `Steps` is the
sequence of fallible steps of `exec` in the order of the code; each has an
action that succeeds and `Fail` is any of them returning its error. A write
that fails, or a kill during a write, leaves the file as it was or `partial`.
Invocations do not overlap: the command takes `&mut Wallet`, and a second
process on the same directory is left out (section 7).

### RunCommand

One *invocation* is one run of the command; any number of them work on the
same `keypair_file` and `config_file`. With `Concurrent = FALSE` an invocation
starts only when every other has returned, failed or been killed: this is the
command run again and again on one data directory, each run ending anywhere.
With `Concurrent = TRUE` they overlap. A keypair file is `absent`, `partial`
(created and not completed: a write that failed or was killed half way) or a
key; a read fails on the first two, and on no other: an error of the file
system while a complete file is read is left out. The failed read
(`ReadFails`) and the write that follows it (`GenerateKeypair`, which creates
the file, and `WriteKeypair`, which completes it) are steps of their own, so
that another invocation can store a key between them; the config, which
nothing reads back, is written in one step. `Keypair::random()` returns a key
no other call returns, modelled as the invocation's own name; the random
keypair that `NodeConfig::default()` generates inside `From<RunOpts>` is
`Throwaway`. The directory of the keypair file is what `get_node_data_dir()`
answers (244), not the `data_dir` of the options, which only travels into the
config (107): invocations share the keypair file whatever `--data-dir` each
was given, which is why the files are not indexed by the options.
`run_dettached` starts nothing and returns.

## 3. Runs

| Run | Module, cfg | Checks | Result |
|---|---|---|---|
| `router` | `MCEventRouter`, `MCEventRouter.cfg` | `TypeOK`, `InOrderNoLoss`, `EventuallyQuiescent`, `ImplementsPubSub` | pass, 541,294 states |
| `node_spec_router` | `MCNode`, `MCNodeSpecRouter.cfg` | `TypeOK`, `StopIsLast`, `ReportsBoundAddress`, `ImplementsPubSub` | pass, 182,590 states |
| `node_shutdown` | `MCNode`, `MCNodeShutdown.cfg` | `CleanExitOnlyOnStop`, `OrderlyShutdown`, `ShutdownCompletes` | pass, 246,064 states |
| `run_command` | `MCRunCommand`, `MCRunCommand.cfg` | `TypeOK`, `NodeIdentityOnDisk`, `KeypairStable` | pass, 106,098 states |
| `wallet_new` | `MCWalletNew`, `MCWalletNew.cfg` | `TypeOK`, `OnDiskIsInState`, `OkMeansComplete` | pass, 2,258 states |
| `resolve_options` | `MCResolveOptions`, `MCResolveOptions.cfg` | `FileValueReachesConfig`, `ResolvedByPrecedence`, `UnusableFileLeavesArgs` | pass, 5,957 states |
| `node_wait_returns` | `MCNode`, `MCNodeWaitReturns.cfg` | `WaitReturns` | violated |
| `node_gossip_stops` | `MCNode`, `MCNodeGossipStops.cfg` | `GossipStops` | violated |
| `node_joins_proceed` | `MCNode`, `MCNodeJoinsProceed.cfg` | `JoinsProceedPastError` | violated |
| `node_errors_surface` | `MCNode`, `MCNodeErrorsSurface.cfg` | `ErrorsSurface` | violated |
| `run_command_concurrent` | `MCRunCommand`, `MCRunCommandConcurrent.cfg` | `KeypairStable` | violated |
| `resolve_options_flag` | `MCResolveOptions`, `MCResolveOptionsFlag.cfg` | `FlagDisablesNetworking` | violated |

What the passing runs show:

- **`router`.** Whatever the order of `add_topic`, `subscribe`, publishing,
  receiving, endpoints closing and senders being dropped: no queue exceeds its
  topic's capacity; what an open endpoint received followed by what waits in
  its queue is exactly what was dispatched on its topic; and under fair
  scheduling of the loop and of the receivers the system always comes to rest
  with nothing in flight. The router implements `PubSub`: seen from its
  subscribers it is a log per topic that each of them reads in order, and
  reads to the end while it stays open.
- **`node_spec_router`.** With the router of 4.1, which keeps dispatching
  after Stop, events published behind Stop in the fan-in channel are
  dispatched after it, and no module that received Stop handles one (a Control
  queue holds one event, so nothing waits behind Stop in a queue). `wait`
  never awaits a handle that is `None`. Started with the gossip port left to
  the system, the node answers the address the system assigned, because
  `start` keeps the config the bootstrapper returns and not the one it was
  called with; started with an address that is taken, no node with a gossip
  module comes to exist. The node's use of the router keeps the promise of
  `PubSub`: all endpoints are subscribed in one step before anything is
  published, the bootstrapper drops those of the modules it does not enable,
  and a module closes its endpoint in the step that handles its last event.
- **`node_shutdown`.** A module task ends with Ok only after it received Stop,
  and Stop is received only after the operator's signal was sent; `wait`
  returns Ok only if every module in the join order is absent or ended well.
  When the joined modules
  that are enabled all listen on Control (`StopReachesJoined`), the command
  returns once ctrl-c was handled, under every interleaving of the caller,
  the wait task, the router and the modules, with modules publishing and
  failing on the way; the configuration also holds sets of modules for which
  that is not so, and for those nothing is claimed (finding 2).
- **`run_command`.** Over three runs of the command in sequence, each failing
  or killed at any step, a node only ever runs under the keypair stored in its
  data directory and recorded in its config, and a stored keypair is never
  replaced.
- **`wallet_new`.** Over three runs of the command for one alias, each
  failing at any step or killed, with writes torn: a key found in the keys
  file or the account file always has its account in the wallet's state
  (the code creates the account first), the files exist only inside the
  alias' directory, and in the step in which `exec` returns Ok the state
  has the new account and both files are the new account's, whatever an
  earlier run left there.
- **`resolve_options`.** For every file and command line of the model and
  both orders of `merge`: a value that a usable file gives for a field
  `merge` takes from `self` first reaches the `NodeConfig` when the file's
  options are `self`, over the builder's default and the command line; each
  field that `merge` takes from `self` first reaches the `NodeConfig` with
  the value of the first of `self`, `other` that gives one, else the default
  (for the fields `From` guards) or empty, the node type parsed; and when
  the file does not deserialize and its options are `self`, what is merged
  is the command line. The last holds only because `RunOpts::default()` is
  empty where merge tests for empty: had it been the command line's
  defaults, a broken file would override the command line.

## 4. Where code and specification disagree

Each of these is a run that TLC ends with a counterexample, and a finding in
`PROJECT.json`.

1. **`wait` cannot return with the specified router** (`node.rs:189`). `wait`
   awaits the router task while it still owns `events_tx`; the router of 4.1
   ends only when every sender is dropped. With no module at all, `wait` hangs
   at the router join (`WaitReturns`).
2. **Stop reaches Control subscribers only** (`node.rs:157`, `85-92`). The
   state, mempool, gossip, controller, validator and miner modules subscribe to
   Storage, Network and Consensus. A node with the gossip module enabled never
   gets past the join on its handle (`GossipStops`).
3. **The first failed join ends `wait`** (`node.rs:160`). The specification
   has the joins proceed past a failed module (`JoinsProceedPastError`).
4. **`run_blocking` discards the result of `wait`** (`run.rs:305-307`): a
   failed shutdown returns Ok (`ErrorsSurface`).
5. **Two runs of the command at once replace each other's keypair**
   (`run.rs:249-256`, `KeypairStable` with `Concurrent = TRUE`).

6. **`merge` turns networking back on** (`run.rs:237`). The result of
   `merge` has `disable_networking: false` whatever the two sides say; the
   flag's doc comment says it disables networking
   (`FlagDisablesNetworking`).

Five more are read off the source directly, and are findings in
`PROJECT.json` without a run:

- `from_file` answers a file that does not deserialize with
  `Ok(RunOpts::default())` (`run.rs:181`), where section 7 of the
  specification has no error swallowed;
- `Node::start` builds the node `Stopped` where 4.3 step 5 says `Running`
  (`node.rs:133`);
- `wait` never awaits `mempool_handle` and `broadcast_controller_handle`
  (`node.rs:63, 65`);
- `run_dettached` returns Ok and starts nothing, where its comment says it
  starts a child process that runs the node (`run.rs:316`): an invocation
  with `--dettached` leaves `Dispatch` for `returned` with the keypair and
  the configuration of a node that does not exist;
- `run_blocking` reports any error of `Node::start` as "failed to listen for
  ctrl+c" and drops the error (`run.rs:286`), the message of the failed
  signal handler eleven lines below, where section 7 asks for
  distinguishable error outcomes.

## 5. Bounds

| Constant | Value | Why it is enough |
|---|---|---|
| `Topics`, `Subscribers` (router) | 2 topics, 2 endpoints | one topic with two subscribers (fan-out order), two topics with one each (no order across topics), and a topic without subscriber all occur |
| `Capacities` (router) | {1, 2} | 1 is the capacity of Control and State; 2 lets a queue hold an event behind another |
| `MaxPublished` | 3 (router, node safety), 2 (violation runs) | with capacity 1 the third event meets a full queue while the second is pending in the loop |
| `BulkCapacity` | 2 | stands for the 100 of Network, Consensus and Storage: larger than the capacity 1 topics, and reached by three events |
| `EnabledChoices` | four or five sets of modules per run | no module; the two Control subscribers; sets with a module that never sees Stop; sets where the first joined handle is absent |
| `Faulty` | two or three modules | a module before and a module after others in the join order fail |
| `GivenConfigs` | two configs per passing run, one in the others | between the two runs: the port left to the system, a fixed address that is free, one that is taken, networking disabled |
| `FreeAddresses` | 1 | the address that is free: the one a fixed configuration asks for and the one the system assigns; the address that is taken is not in it |
| `Invocations` (`RunCommand`) | 3 (sequential), 2 (concurrent) | a run that is killed, one that fails and one that completes, in any order |
| `Invocations` (`WalletNew`) | 3 | a run that leaves a file torn, one that stops between two stores, and one that completes over what they left |
| `Files` | a complete file, the complete file with one option changed (22 of them), the complete file less one required key (13), the empty file | every key is once the one that is missing, and every field once the one that differs |
| `ArgChoices` (`ResolveOptions`) | the command line without options, and with one option given (22) | each field is once the only one the command line sets, to a value, to empty or to a flag |
| `ArgChoices` (`RunCommand`) | the command line without options, with `--dettached --disable-networking`, and with another `--data-dir` | both branches of the dispatch; runs that name different data directories and share the keypair file |

Every bound on a counter is a guard of the action that counts:
`NumPublished < MaxPublished` in `Publish`.

## 6. Fairness

`Node`: weak fairness of the caller's steps, of the wait task's steps, of the
dispatch loop and of each module's run-loop turn. These are tokio tasks: a task
that is ready is eventually polled. Nothing is assumed about the environment:
ctrl-c may never come, no module has to publish, no fault has to happen, and
`ShutdownCompletes` therefore starts from the moment the signal was sent.
`EventRouter` alone: weak fairness of `Start`, of the loop and of each
endpoint's receive. `PubSub` asks weak fairness of `Read(s)`; under the
refinement mapping that is an obligation on the router and the modules,
which the fairness above has to meet. `RunCommand`, `WalletNew` and
`ResolveOptions` have safety properties only and no fairness: a command may
stop at any step.

Deadlock checking is off in every configuration: a router with all senders
gone, a node after its command returned, a data directory or an alias after
the last invocation and a configuration that was built are states in which
the system has rightly stopped.

## 7. Not modelled

- The inside of the modules (gossip protocol, mempool, state store, validator,
  miner, RPC and HTTP servers): outside the sources; each is a subscriber with
  a run loop.
- The contents of events: an event is Stop or a number.
- The values of options beyond what the code tests: a path, an address or a
  title is one of a few strings, and a value of the wrong type in a config
  file is a missing key (both fail `try_deserialize`).
- `BroadcastModule`'s `id`, `label` and `name`, and the `RuntimeModule`
  trait, which nothing in the sources implements: names without state.
- The addresses other than the gossip address: the servers that bind them
  are outside the sources, and the config carries them through unchanged.
- `decay_calculator`: floating-point arithmetic (`log10` and division of
  `f64` made from `u128`), which TLC does not evaluate, in a function that
  nothing in the sources calls. Its edges, by the rules of `f64`:

  | `initial` | `epochs` | result |
  |---|---|---|
  | 0 | any | `-inf` (`1/0 = +inf`, its logarithm `+inf`, negated) |
  | 1 | 0 | `NaN` (`0/0`) |
  | 1 | > 0 | `-0.0` |
  | > 1 | 0 | `+inf` (a negative logarithm over zero, negated) |
  | > 1 | > 0 | positive and finite: `log10(initial) / epochs` |

  No input panics and none is refused; `initial` above 2^53 is rounded by
  `as f64`. There is no state of the program such a value reaches.
- `restore_db`: one call of `PickleDb::load` and, on any error, one of
  `PickleDb::new` on the same path. PickleDb is outside the sources and
  nothing in the sources calls `restore_db` or dumps a database; what can go
  wrong (a file that cannot be read is replaced by an empty database at the
  next dump) takes a dump to happen. A module for it would state how PickleDb
  loads, sets and dumps, none of which is code of this repository.
- Two `wallet new` commands at once. `exec` takes `&mut Wallet`, which rules
  the overlap out inside one process only. Two processes on one alias
  directory can interleave their writes of `keys` and `account.json`, and
  `OkMeansComplete` does not hold then: an invocation can return Ok over a
  keys file the other wrote. The model runs invocations one at a time; the
  overlap is listed among the hazards.
- An error of the file system while `run` reads a complete keypair file:
  `run.rs:251` sends every `Err` to the arm that generates and overwrites,
  so such an error replaces the node's identity. `KeypairStable` is checked
  under the assumption that a complete file reads.
- The two test files: they exercise the HTTP server and the state store,
  which are outside the sources.
- Panics and task cancellation: a failed join and a module error are one
  outcome, `err`.

## 8. Roadmap

1. The order in which the bootstrapper builds and spawns the modules, once
   it is among the sources: a start that fails after some modules were
   spawned leaves them running without a router.
2. The lifecycle `Starting -> Running -> Terminating -> Stopped` of 4.3 as a
   specification of its own. The code does not follow it (a node is built
   `Stopped`, `node.rs:133`, section 4); what `wait` promises is stated by
   `CleanExitOnlyOnStop`, `OrderlyShutdown` and `ShutdownCompletes`.
3. Larger instances. The node with all eight modules enabled, under the
   constants of `MCNodeShutdown.cfg` and the default configuration, has
   306,332 distinct states and takes TLC three minutes; the two invariants of
   that run hold, and `ShutdownCompletes` holds without being put to the test,
   since the first join is that of the state module, which never sees Stop:
   `wait` stays there or returns its error. It adds no case to the five sets
   of that run and is not one of the runs. The router with three endpoints is
   open.
4. `vrrb_lib::utils` once it has a caller: `restore_db` together with the
   code that dumps the database it returns, over a file that is absent,
   unreadable or whole.
