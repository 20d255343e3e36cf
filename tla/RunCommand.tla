----------------------------- MODULE RunCommand -----------------------------
(***************************************************************************)
(* The command that configures and runs a node: `run` in                   *)
(* crates/cli/src/commands/node/run.rs, with From<RunOpts> for NodeConfig. *)
(*                                                                         *)
(* The command works on two files of the node's data directory, the        *)
(* keypair file and the node config, and the directory outlives the        *)
(* command: it is run again after it returned, failed or was killed, and   *)
(* nothing in it keeps two of them from running at once.  An invocation is *)
(* one run of the command; the files are shared by all of them.            *)
(*                                                                         *)
(* What the running node does is the subject of module Node; here          *)
(* run_blocking is the state "running" and the step that leaves it.        *)
(* The options and From<RunOpts> are those of module Options.              *)
(* read_keypair_file, write_keypair_file and write_node_config_from_file   *)
(* are not among the sources: a read fails on a file that is absent or     *)
(* incomplete and on no other (an error of the file system while reading   *)
(* a complete file is left out), a write of the keypair creates the file   *)
(* before it completes it, and the config, which nothing reads back, is    *)
(* written in one step.                                                    *)
(***************************************************************************)
EXTENDS Options, Naturals, FiniteSets

CONSTANTS
    Invocations,   \* the runs of the command on one data directory
    ArgChoices,    \* the RunOpts an invocation may be given
    Concurrent     \* TRUE: invocations may overlap; FALSE: one at a time

ASSUME /\ \A opts \in ArgChoices : IsRunOpts(opts)
       /\ Concurrent \in BOOLEAN

Absent  == "absent"    \* no such file
Partial == "partial"   \* a file created and not completed

\* Keypair::random(): a key no other call returns.  The key an invocation
\* generates is named after the invocation.
Keys == Invocations

VARIABLES
    keypair_file,   \* <data_dir>/keypair: Absent, Partial or the key in it
    config_file,    \* the node config on disk: the set of the config
                    \* written, empty while there is no such file
    pc,             \* per invocation: the step of `run` it is at
    args,           \* per invocation: the RunOpts it is given
    keypair,        \* per invocation: the local `keypair`
    node_config     \* per invocation: the local `node_config`

vars == <<keypair_file, config_file, pc, args, keypair, node_config>>

Ended == {"idle", "returned", "failed", "killed"}

-----------------------------------------------------------------------------
\* Invocation i leaves step `from` for step `to`.
Goto(i, from, to) ==
    /\ pc[i] = from
    /\ pc' = [pc EXCEPT ![i] = to]

\* The command is started.
Invoke(i) ==
    /\ Concurrent \/ \A j \in Invocations : pc[j] \in Ended
    /\ Goto(i, "idle", "data_dir")
    /\ UNCHANGED <<keypair_file, config_file, args, keypair, node_config>>

\* The data directory is found and created if need be.
DataDir(i) ==
    /\ Goto(i, "data_dir", "read_keypair")
    /\ UNCHANGED <<keypair_file, config_file, args, keypair, node_config>>

\* A file that exists is taken to hold a keypair.
MutUnreadableIfAbsent(file) == file = Absent

\* Whatever is in the file, the read is taken to have failed.
MutUnreadableAlways(file) == TRUE

\* read_keypair_file returns Err.
Unreadable(file) == file \notin Keys

\* The keypair file holds a keypair: it is the node's.
ReadKeypair(i) ==
    /\ ~Unreadable(keypair_file)
    /\ Goto(i, "read_keypair", "configure")
    /\ keypair' = [keypair EXCEPT ![i] = keypair_file]
    /\ UNCHANGED <<keypair_file, config_file, args, node_config>>

\* It cannot be read: the invocation takes the arm that generates.
ReadFails(i) ==
    /\ Unreadable(keypair_file)
    /\ Goto(i, "read_keypair", "generate")
    /\ UNCHANGED <<keypair_file, config_file, args, keypair, node_config>>

\* A new keypair is generated and the file written over, whatever it has
\* come to hold since the read.
GenerateKeypair(i) ==
    /\ Goto(i, "generate", "write_keypair")
    /\ keypair' = [keypair EXCEPT ![i] = i]
    /\ keypair_file' = Partial
    /\ UNCHANGED <<config_file, args, node_config>>

WriteKeypair(i) ==
    /\ Goto(i, "write_keypair", "configure")
    /\ keypair_file' = keypair[i]
    /\ UNCHANGED <<config_file, args, keypair, node_config>>

\* The keypair From<RunOpts> put there is left in place.
MutConfiguredKeepsDefault(opts, kp) == FromRunOpts(opts)

\* The node config `run` goes on with: built from the options, its keypair
\* replaced by the one read or generated.
Configured(opts, kp) == [FromRunOpts(opts) EXCEPT !.keypair = kp]

Configure(i) ==
    /\ Goto(i, "configure", "write_config")
    /\ node_config' = [node_config EXCEPT ![i] = Configured(args[i], keypair[i])]
    /\ UNCHANGED <<keypair_file, config_file, args, keypair>>

WriteConfig(i) ==
    /\ Goto(i, "write_config", "dispatch")
    /\ config_file' = {node_config[i]}
    /\ UNCHANGED <<keypair_file, args, keypair, node_config>>

\* A step on the file system fails and `run` returns the error: the data
\* directory cannot be made, or a write stops and leaves the file as it is.
Fail(i) ==
    /\ \E step \in {"data_dir", "generate", "write_keypair", "write_config"} :
          Goto(i, step, "failed")
    /\ UNCHANGED <<keypair_file, config_file, args, keypair, node_config>>

\* run_dettached: no child process is started; it returns Ok at once.
run_dettached == "returned"

\* The node is run the way the options ask for; run_blocking runs it here.
Dispatch(i) ==
    /\ Goto(i, "dispatch", IF args[i].dettached THEN run_dettached ELSE "running")
    /\ UNCHANGED <<keypair_file, config_file, args, keypair, node_config>>

\* run_blocking returns, with the node stopped or with an error.
NodeEnds(i) ==
    /\ \E outcome \in {"returned", "failed"} : Goto(i, "running", outcome)
    /\ UNCHANGED <<keypair_file, config_file, args, keypair, node_config>>

\* The process is killed, at whatever step it is.
Kill(i) ==
    /\ pc[i] \notin Ended
    /\ pc' = [pc EXCEPT ![i] = "killed"]
    /\ UNCHANGED <<keypair_file, config_file, args, keypair, node_config>>

-----------------------------------------------------------------------------
Init ==
    /\ keypair_file = Absent
    /\ config_file = {}
    /\ pc = [i \in Invocations |-> "idle"]
    /\ args \in [Invocations -> ArgChoices]
    /\ keypair = [i \in Invocations |-> Throwaway]
    /\ node_config = [i \in Invocations |-> FromRunOpts(args[i])]

Next ==
    \E i \in Invocations :
        \/ Invoke(i)
        \/ DataDir(i)
        \/ ReadKeypair(i) \/ ReadFails(i)
        \/ GenerateKeypair(i) \/ WriteKeypair(i)
        \/ Configure(i) \/ WriteConfig(i)
        \/ Fail(i)
        \/ Dispatch(i)
        \/ NodeEnds(i)
        \/ Kill(i)

Spec == Init /\ [][Next]_vars

-----------------------------------------------------------------------------
TypeOK ==
    /\ keypair_file \in Keys \cup {Absent, Partial}
    /\ \A written \in config_file : IsNodeConfig(written)
    /\ Cardinality(config_file) <= 1
    /\ pc \in [Invocations ->
                 Ended \cup {"data_dir", "read_keypair", "generate",
                             "write_keypair", "configure", "write_config",
                             "dispatch", "running"}]
    /\ args \in [Invocations -> ArgChoices]
    /\ keypair \in [Invocations -> Keys \cup {Throwaway}]
    /\ \A i \in Invocations : /\ IsNodeConfig(node_config[i])
                              /\ node_config[i].keypair \in Keys \cup {Throwaway}

\* A node runs under the identity its data directory records (run, lines
\* 249-271): the keypair of a running node is the one in the keypair file,
\* the config on disk is the one the node was started with, and a config
\* on disk never names a keypair other than the stored one -- however many
\* earlier runs of the command failed or were killed, and wherever.
NodeIdentityOnDisk ==
    /\ \A written \in config_file : written.keypair = keypair_file
    /\ \A i \in Invocations :
          pc[i] = "running" => /\ config_file = {node_config[i]}
                               /\ node_config[i].keypair = keypair_file

\* The node's identity is generated once (run, lines 249-261): a keypair
\* that is stored is read by every later run of the command and is never
\* written over.
KeypairStable ==
    [][(keypair_file \in Keys) => (keypair_file' = keypair_file)]_vars

=============================================================================
