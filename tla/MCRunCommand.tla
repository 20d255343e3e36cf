---------------------------- MODULE MCRunCommand ----------------------------
(* RunCommand for TLC: the options an invocation may be given.               *)
EXTENDS RunCommand

\* A command line with no option, which blocks with networking, one that
\* asks for a dettached node without networking, and one that names another
\* data directory (the keypair file stays where get_node_data_dir puts it).
MCArgChoices ==
    {ClapDefault,
     [ClapDefault EXCEPT !.dettached = TRUE, !.disable_networking = TRUE],
     [ClapDefault EXCEPT !.data_dir = "elsewhere"]}

=============================================================================
