------------------------------- MODULE Options -------------------------------
(***************************************************************************)
(* The options of the `run` command, crates/cli/src/commands/node/run.rs:  *)
(* the RunOpts the command line parser yields, Default for RunOpts,        *)
(* RunOpts::from_file, RunOpts::merge and From<RunOpts> for NodeConfig, as *)
(* operators on records.                                                   *)
(*                                                                         *)
(* A RunOpts is a function on Fields.  A flag is a boolean; every other    *)
(* value is a string that stands for the path, address, list or text the   *)
(* code has there, None for an Option that is None and Empty for an empty  *)
(* string or path.                                                         *)
(***************************************************************************)
EXTENDS TLC

Flags     == {"dettached", "debug_config", "bootstrap", "disable_networking"}
Optional  == {"id", "idx", "bootstrap_node_addresses"}
Texts     == {"node_type", "data_dir", "db_path", "http_api_title",
              "http_api_version"}
Addresses == {"udp_gossip_address", "raptorq_gossip_address",
              "http_api_address", "jsonrpc_api_address"}
Fields    == Flags \cup Optional \cup Texts \cup Addresses

None       == "none"
Empty      == ""
OsAssigned == "127.0.0.1:0"     \* DEFAULT_OS_ASSIGNED_PORT_ADDRESS

\* str::parse::<NodeType>: the names that parse and what they parse to.
\* NodeType is not among the sources; two names stand for its list.
NodeTypeOf == [full |-> "Full", validator |-> "Validator"]

\* Field f has the same value in all of `fields`.
All(fields, value) == [f \in fields |-> value]

DefaultDataDir == "DEFAULT_VRRB_DATA_DIR_PATH"
DefaultDbPath  == "DEFAULT_VRRB_DB_PATH"
DefaultJsonRpc == "127.0.0.1:9293"     \* DEFAULT_JSONRPC_ADDRESS

\* The RunOpts of a command line that gives no option: the default_value
\* of each clap attribute, None where there is none.
ClapDefault ==
    [node_type |-> "full", data_dir |-> DefaultDataDir,
     db_path |-> DefaultDbPath, jsonrpc_api_address |-> DefaultJsonRpc,
     http_api_title |-> "Node RPC API", http_api_version |-> "1.0.0"]
        @@ All(Flags, FALSE) @@ All(Optional, None) @@ All(Addresses, OsAssigned)

\* The type defaults are taken to be what the command line defaults to.
MutDefaultAsClap == ClapDefault

\* Default for RunOpts: the default of each type, and localhost with a
\* port the system assigns for the four addresses.
RunOptsDefault ==
    All(Flags, FALSE) @@ All(Optional, None) @@ All(Texts, Empty)
        @@ All(Addresses, OsAssigned)

-----------------------------------------------------------------------------
\* from_file.  A config file is the function from the keys it has to their
\* values.

\* The set_default calls of the builder.  preload_mock_state is no field of
\* RunOpts and is left out.
FileDefault ==
    [id |-> "uuid", data_dir |-> DefaultDataDir, db_path |-> DefaultDbPath,
     node_type |-> "full", jsonrpc_api_address |-> DefaultJsonRpc,
     http_api_address |-> OsAssigned, http_api_title |-> "Node API",
     http_api_version |-> "1.0.1", bootstrap_node_addresses |-> "[]"]
        @@ All({"debug_config", "bootstrap", "dettached"}, FALSE)

\* try_deserialize: RunOpts derives Deserialize with no field defaulted, so
\* every field that is not an Option must be among the keys.
Deserializes(keys) == (Fields \ Optional) \subseteq keys

\* The builder's values are set as overrides and not as defaults.
MutFromFileOverridden(file) ==
    LET built == FileDefault @@ file
    IN  IF Deserializes(DOMAIN built) THEN built @@ All(Optional, None)
                                      ELSE RunOptsDefault

\* The options from_file returns for a file it could open: the file over
\* the builder's defaults, or, when that does not deserialize,
\* RunOpts::default() with no error (unwrap_or_default).
FromFile(file) ==
    LET built == file @@ FileDefault
    IN  IF Deserializes(DOMAIN built) THEN built @@ All(Optional, None)
                                      ELSE RunOptsDefault

-----------------------------------------------------------------------------
\* merge.

\* node_type is tested like the other strings: taken from self unless empty.
MutOverridesUnlessEmpty(f, value) == value \notin {None, Empty}

\* The tests merge makes of a value before it takes it: the node type
\* parses, the Option is Some, the string or path is not empty.
Overrides(f, value) ==
    CASE f = "node_type" -> value \in DOMAIN NodeTypeOf
      [] f \in Optional  -> value # None
      [] f \in Texts     -> value # Empty

\* The fields merge takes from self when self passes the test.
SelfFirst == Texts \cup {"id", "idx"}

\* self.merge(other): the fields of SelfFirst as said, the bootstrap node
\* addresses from other when other passes the test, disable_networking
\* false, and every other field from other.
Merge(self, other) ==
    [f \in Fields |->
        CASE f \in SelfFirst -> IF Overrides(f, self[f]) THEN self[f]
                                                          ELSE other[f]
          [] f = "bootstrap_node_addresses" ->
                 IF Overrides(f, other[f]) THEN other[f] ELSE self[f]
          [] f = "disable_networking" -> FALSE
          [] OTHER -> other[f]]

-----------------------------------------------------------------------------
\* From<RunOpts> for NodeConfig.

\* A field of NodeConfig::default().  The keypair it holds is random and is
\* written nowhere.
Default   == "default"
Throwaway == "throwaway"

\* The fields of NodeConfig that From fills from an option, with the option.
FromOption ==
    [jsonrpc_server_address |-> "jsonrpc_api_address"]
        @@ [f \in (Fields \ {"dettached", "debug_config", "bootstrap",
                             "jsonrpc_api_address"}) |-> f]

\* The fields it fills from NodeConfig::default() whatever the options.
FromDefault ==
    [keypair |-> Throwaway]
        @@ All({"http_api_shutdown_timeout", "preload_mock_state",
                "bootstrap_config"}, Default)

\* The options From replaces by the default unless they are present: the
\* node type parses, the Option is Some, the title is not empty.
Guarded == {"node_type", "http_api_title"} \cup Optional

Present(f, value) ==
    CASE f = "node_type" -> value \in DOMAIN NodeTypeOf
      [] f \in Optional  -> value # None
      [] f \in Texts     -> value # Empty

FromRunOpts(opts) ==
    [c \in DOMAIN FromOption |->
        LET f == FromOption[c] IN
        CASE f \in Guarded /\ ~Present(f, opts[f]) -> Default
          [] f = "node_type" -> NodeTypeOf[opts[f]]
          [] OTHER -> opts[f]]
        @@ FromDefault

-----------------------------------------------------------------------------
\* What a RunOpts and a NodeConfig are, as far as the model tells.
IsRunOpts(opts) ==
    /\ DOMAIN opts = Fields
    /\ \A f \in Flags : opts[f] \in BOOLEAN

IsNodeConfig(config) ==
    /\ DOMAIN config = DOMAIN FromOption \cup DOMAIN FromDefault
    /\ config.disable_networking \in BOOLEAN

=============================================================================
