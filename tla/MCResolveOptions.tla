-------------------------- MODULE MCResolveOptions --------------------------
(* ResolveOptions for TLC: command lines that give one option, and config  *)
(* files that give every required key, give one key more or another value, *)
(* lack one key, or are empty.                                             *)
EXTENDS ResolveOptions

\* An option and a value given for it.
Changes ==
    (Flags \X {TRUE}) \cup (Optional \X {"x"}) \cup (Texts \X {"a", Empty})
        \cup (Addresses \X {"10.0.0.1:80"}) \cup {<<"node_type", "validator">>}

\* `base` with one option given.
Variants(base) == {(c[1] :> c[2]) @@ base : c \in Changes}

MCArgChoices == {ClapDefault} \cup Variants(ClapDefault)

Required == Fields \ Optional

CompleteFile == [f \in Required |-> ClapDefault[f]]

MCFiles ==
    {CompleteFile} \cup Variants(CompleteFile)
        \cup {[f \in Required \ {k} |-> CompleteFile[f]] : k \in Required}
        \cup {[f \in {} |-> Empty]}

=============================================================================
