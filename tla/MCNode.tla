------------------------------- MODULE MCNode -------------------------------
(***************************************************************************)
(* The node for model checking.  The sets of enabled and of faulty modules *)
(* and the configs the node is started with are given per run in the cfg;  *)
(* the 100-slot buffers of the high-volume topics are scaled down by       *)
(* BulkCapacity.                                                           *)
(***************************************************************************)
EXTENDS Node

\* The config `run` starts the node with: From<RunOpts> of the options, with
\* the keypair of the data directory.
Started(opts) == [FromRunOpts(opts) EXCEPT !.keypair = "keypair"]

FixedAddress == "127.0.0.1:8080"
TakenAddress == "127.0.0.1:80"

\* No option given: the gossip port is left to the system.
ByDefault == Started(ClapDefault)
\* --udp-gossip-address with an address that is free, and one that is not.
Fixed == Started([ClapDefault EXCEPT !.udp_gossip_address = FixedAddress])
Taken == Started([ClapDefault EXCEPT !.udp_gossip_address = TakenAddress])
\* --disable-networking
Offline == Started([ClapDefault EXCEPT !.disable_networking = TRUE])

DefaultConfig  == {ByDefault}
DefaultOrTaken == {ByDefault, Taken}
FixedOrOffline == {Fixed, Offline}
Free           == {FixedAddress}

=============================================================================
