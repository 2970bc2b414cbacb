------------------------------- MODULE MCPairing -------------------------------
(* Two or three phones, one of them able to pair only until the limit is reached. *)
EXTENDS PairingService, TLC

Symmetric == Permutations(Device) \cup Permutations(Nonce)
=================================================================================
