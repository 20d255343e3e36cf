----------------------------- MODULE MCWalletNew -----------------------------
(* WalletNew for TLC: three runs of the command for one alias.              *)
EXTENDS WalletNew

=============================================================================
