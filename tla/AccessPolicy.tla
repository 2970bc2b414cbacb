------------------------------ MODULE AccessPolicy ------------------------------
(*********************************************************************************)
(* What the laptop promises about access, whatever its protocols: a phone is     *)
(* inside only under the grant the laptop's user gave it last, and only as long  *)
(* as that grant stands.                                                         *)
(*********************************************************************************)
EXTENDS Maps

CONSTANTS Device, Grant

VARIABLES granted,  \* Map: phone -> the grant that stands
          inside    \* Map: phone with a session -> the grant it came in under

policyVars == <<granted, inside>>

PolicyInit == granted = EmptyMap /\ inside = EmptyMap

\* The user grants access, again or for the first time: whoever was inside is out.
GrantAccess(d, g) == /\ granted' = With(granted, d, g)
                     /\ inside' = Without(inside, {d})

\* The user revokes, or the phone forgets the laptop.
Withdraw(d) == /\ granted' = Without(granted, {d})
               /\ inside' = Without(inside, {d})

Enter(d) == /\ d \in DOMAIN granted
            /\ inside' = With(inside, d, granted[d])
            /\ UNCHANGED granted

\* Sessions end: by the phone, by expiry, or all of them with the process.
Leave(ds) == inside' = Without(inside, ds) /\ UNCHANGED granted

PolicyNext == \/ \E d \in Device : Withdraw(d) \/ Enter(d) \/ \E g \in Grant : GrantAccess(d, g)
              \/ \E ds \in SUBSET Device : Leave(ds)

Policy == PolicyInit /\ [][PolicyNext]_policyVars
=================================================================================
