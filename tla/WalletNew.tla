------------------------------ MODULE WalletNew ------------------------------
(***************************************************************************)
(* `wallet new`: exec in crates/cli/src/commands/wallet/new.rs.            *)
(*                                                                         *)
(* The command gives an alias a new account.  It touches three stores one  *)
(* after the other, each step ending the command on an error: the wallet's *)
(* state, where the account is created under a public key, and two files   *)
(* of the alias' directory, `keys` with the keypair and `account.json`     *)
(* with the account.  The stores outlive the command, which is run again   *)
(* for the same alias after it returned, failed or was killed.  An         *)
(* invocation is one run of the command; they do not overlap.              *)
(***************************************************************************)
EXTENDS Naturals, Sequences

CONSTANTS Invocations   \* the runs of the command for one alias

Absent  == "absent"     \* no such file
Partial == "partial"    \* a file created and not completed

\* generate_keypair: a keypair no other call returns, named after the
\* invocation that generated it.
Keys == Invocations

VARIABLES
    accounts,           \* the wallet's state: the public keys with an account
    account_data_dir,   \* whether the alias' directory exists
    keys_file,          \* <dir>/keys: Absent, Partial or the keypair in it
    account_file,       \* <dir>/account.json: Absent, Partial, or the key
                        \* of the account written to it
    pc                  \* per invocation: the step of exec it is at

vars == <<accounts, account_data_dir, keys_file, account_file, pc>>

Ended == {"idle", "returned", "failed", "killed"}

-----------------------------------------------------------------------------
\* The keypair is written before the account exists.
MutStepsKeysFirst ==
    <<"create_dir", "write_keys", "create_account", "serialize", "write_account">>

\* The alias' directory is taken to exist.
MutStepsNoCreateDir ==
    <<"create_account", "write_keys", "serialize", "write_account">>

\* The account is created and its file never written.
MutStepsNoAccountFile == <<"create_dir", "create_account", "write_keys">>

\* The fallible steps of exec, in the order it takes them.
Steps ==
    <<"create_dir", "create_account", "write_keys", "serialize", "write_account">>

\* Where exec is after a step that succeeded: at the next one, or at Ok(()).
After(step) ==
    LET n == CHOOSE k \in DOMAIN Steps : Steps[k] = step
    IN  IF n = Len(Steps) THEN "returned" ELSE Steps[n + 1]

\* Invocation i is at `step`; its outcome is `to` and leaves the stores as
\* the primed conjuncts of `stores` say.
Take(i, step, to, stores) ==
    /\ pc[i] = step
    /\ pc' = [pc EXCEPT ![i] = to]
    /\ stores

\* What a write that fails leaves of a file: the file as it was, or the
\* file created and not completed.
Torn(file) == {file, Partial}

-----------------------------------------------------------------------------
\* The command is started: the keypair is generated.
Invoke(i) ==
    /\ \A j \in Invocations : pc[j] \in Ended
    /\ Take(i, "idle", Steps[1],
            UNCHANGED <<accounts, account_data_dir, keys_file, account_file>>)

CreateDir(i) ==
    Take(i, "create_dir", After("create_dir"),
         /\ account_data_dir' = TRUE
         /\ UNCHANGED <<accounts, keys_file, account_file>>)

\* The wallet creates the account in the state, under the new public key.
CreateAccount(i) ==
    Take(i, "create_account", After("create_account"),
         /\ accounts' = accounts \cup {i}
         /\ UNCHANGED <<account_data_dir, keys_file, account_file>>)

WriteKeys(i) ==
    Take(i, "write_keys", After("write_keys"),
         /\ keys_file' = i
         /\ UNCHANGED <<accounts, account_data_dir, account_file>>)

Serialize(i) ==
    Take(i, "serialize", After("serialize"),
         UNCHANGED <<accounts, account_data_dir, keys_file, account_file>>)

WriteAccount(i) ==
    Take(i, "write_account", After("write_account"),
         /\ account_file' = i
         /\ UNCHANGED <<accounts, account_data_dir, keys_file>>)

\* A step returns an error and exec returns it.  A write that fails may
\* have torn its file; the other steps leave nothing behind.
Fail(i) ==
    \E n \in DOMAIN Steps : LET step == Steps[n] IN
        Take(i, step, "failed",
             /\ keys_file' \in IF step = "write_keys" THEN Torn(keys_file)
                                                      ELSE {keys_file}
             /\ account_file' \in IF step = "write_account"
                                     THEN Torn(account_file)
                                     ELSE {account_file}
             /\ UNCHANGED <<accounts, account_data_dir>>)

\* The process is killed, between two steps or in the middle of a write.
Kill(i) ==
    /\ pc[i] \notin Ended
    /\ pc' = [pc EXCEPT ![i] = "killed"]
    /\ keys_file' \in IF pc[i] = "write_keys" THEN Torn(keys_file)
                                              ELSE {keys_file}
    /\ account_file' \in IF pc[i] = "write_account" THEN Torn(account_file)
                                                    ELSE {account_file}
    /\ UNCHANGED <<accounts, account_data_dir>>

-----------------------------------------------------------------------------
Init ==
    /\ accounts = {}
    /\ account_data_dir = FALSE
    /\ keys_file = Absent
    /\ account_file = Absent
    /\ pc = [i \in Invocations |-> "idle"]

Next ==
    \E i \in Invocations :
        \/ Invoke(i)
        \/ CreateDir(i) \/ CreateAccount(i) \/ WriteKeys(i)
        \/ Serialize(i) \/ WriteAccount(i)
        \/ Fail(i)
        \/ Kill(i)

Spec == Init /\ [][Next]_vars

-----------------------------------------------------------------------------
TypeOK ==
    /\ accounts \subseteq Keys
    /\ account_data_dir \in BOOLEAN
    /\ keys_file \in Keys \cup {Absent, Partial}
    /\ account_file \in Keys \cup {Absent, Partial}
    /\ pc \in [Invocations ->
                 Ended \cup {"create_dir", "create_account", "write_keys",
                             "serialize", "write_account"}]
    /\ {keys_file, account_file} # {Absent} => account_data_dir

\* Nothing on disk runs ahead of the state (exec, lines 29-41): a keypair
\* or an account found in the alias' directory belongs to an account the
\* wallet's state has, whichever step an earlier run of the command failed
\* or was killed at.
OnDiskIsInState ==
    ({keys_file, account_file} \cap Keys) \subseteq accounts

\* Ok means the alias is usable (exec, lines 20-43): at the step at which
\* exec returns Ok the state has the account, and the two files hold its
\* keypair and its description -- not what an earlier run left there.
OkMeansComplete ==
    [][\A i \in Invocations :
          (pc[i] # "returned" /\ pc'[i] = "returned") =>
              /\ i \in accounts'
              /\ keys_file' = i
              /\ account_file' = i]_vars

=============================================================================
