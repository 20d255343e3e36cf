--------------------------- MODULE ResolveOptions ---------------------------
(***************************************************************************)
(* How a node's configuration comes out of its two sources of options, the *)
(* config file and the command line, through the functions of run.rs:      *)
(* from_file reads the file, merge combines what it returns with the       *)
(* parsed command line, and From<RunOpts> builds the NodeConfig.  The      *)
(* sources have no caller of merge, so it is called either way round.      *)
(***************************************************************************)
EXTENDS Options, Sequences

CONSTANTS
    Files,        \* the contents the config file may have
    ArgChoices    \* the RunOpts the command line may parse to

VARIABLES
    file,         \* the config file
    args,         \* the parsed command line
    loaded,       \* what from_file returned
    file_first,   \* whether merge is called on the file's options (self)
                  \* with the command line's (other), or the other way round
    merged,       \* what merge returned
    node_config,  \* the NodeConfig built from it
    pc            \* how far the resolution has come

vars == <<file, args, loaded, file_first, merged, node_config, pc>>

Self  == IF file_first THEN loaded ELSE args
Other == IF file_first THEN args ELSE loaded

-----------------------------------------------------------------------------
Load ==
    /\ pc = "start"
    /\ loaded' = FromFile(file)
    /\ pc' = "loaded"
    /\ UNCHANGED <<file, args, file_first, merged, node_config>>

\* The file cannot be opened or is not of a known format: the builder
\* fails and from_file returns the error.
LoadFail ==
    /\ pc = "start"
    /\ pc' = "failed"
    /\ UNCHANGED <<file, args, loaded, file_first, merged, node_config>>

MergeOptions ==
    /\ pc = "loaded"
    /\ \E first \in BOOLEAN :
          /\ file_first' = first
          /\ merged' = IF first THEN Merge(loaded, args)
                                ELSE Merge(args, loaded)
    /\ pc' = "merged"
    /\ UNCHANGED <<file, args, loaded, node_config>>

Configure ==
    /\ pc = "merged"
    /\ node_config' = FromRunOpts(merged)
    /\ pc' = "configured"
    /\ UNCHANGED <<file, args, loaded, file_first, merged>>

-----------------------------------------------------------------------------
Init ==
    /\ file \in Files
    /\ args \in ArgChoices
    /\ loaded = RunOptsDefault
    /\ file_first = TRUE
    /\ merged = RunOptsDefault
    /\ node_config = FromRunOpts(RunOptsDefault)
    /\ pc = "start"

Next == Load \/ LoadFail \/ MergeOptions \/ Configure

Spec == Init /\ [][Next]_vars

-----------------------------------------------------------------------------
\* Whether from_file could use the file.
Usable == Deserializes(DOMAIN (file @@ FileDefault))

\* What a field of the configuration is when the first of two sources
\* that gives it wins: the value of that source, as From converts it, and
\* without one the default where From has one and the empty value where
\* it has none.
Resolved(f, sources) ==
    LET given == SelectSeq(sources, LAMBDA value : Present(f, value))
    IN  IF given = <<>> THEN (IF f \in Guarded THEN Default ELSE Empty)
        ELSE IF f = "node_type" THEN NodeTypeOf[Head(given)]
        ELSE Head(given)

\* merge and From agree on what it is to give a value (merge, lines
\* 185-224, and From, lines 93-121): a field merge resolves self first
\* reaches the NodeConfig from the first operand From would take it from,
\* and a value From would reject never shadows one it would take.
ResolvedByPrecedence ==
    pc = "configured" =>
        \A f \in SelfFirst : node_config[f] = Resolved(f, <<Self[f], Other[f]>>)

\* A config file that is used is heard (from_file, lines 160-181, merge,
\* lines 185-224, From, lines 93-121): when its options are self, a value
\* the file gives for a field merge resolves self first reaches the
\* NodeConfig, over the builder's default for that key and over what the
\* command line says.
FileValueReachesConfig ==
    (pc = "configured" /\ file_first /\ Usable) =>
        \A f \in SelfFirst \cap DOMAIN file :
            Present(f, file[f]) => node_config[f] = Resolved(f, <<file[f]>>)

\* A config file that cannot be used leaves the command line in charge
\* when its options are self (from_file, line 181, Default, lines
\* 133-157, merge): what from_file returns in place of a file that does
\* not deserialize overrides no option the command line gives, except
\* disable_networking, which merge clears.  Nothing of the kind holds when
\* the command line's options are self: the addresses and flags are then
\* those of RunOpts::default().
UnusableFileLeavesArgs ==
    (pc \in {"merged", "configured"} /\ file_first /\ ~Usable)
        => \A f \in Fields \ {"disable_networking"} : merged[f] = args[f]

-----------------------------------------------------------------------------
(* What the documentation of an option says and the code does not do.      *)

\* RunOpts, lines 84-86, "Disables networking capabilities of the node":
\* a node run with the flag has its networking disabled.
FlagDisablesNetworking ==
    (pc = "configured" /\ args.disable_networking)
        => node_config.disable_networking

=============================================================================
