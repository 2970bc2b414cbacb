-------------------------------- MODULE MCAccess --------------------------------
(* The access state on small instances: phones that pair, connect, are revoked.   *)
EXTENDS LaptopAccess, TLC

Symmetric == Permutations(Device)
=================================================================================
