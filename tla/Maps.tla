---------------------------------- MODULE Maps ----------------------------------
(*********************************************************************************)
(* JavaScript Maps as functions whose domain changes: the entries a Map holds    *)
(* are the function's domain.  And what filter makes of an array.                *)
(*********************************************************************************)
EXTENDS Integers, FiniteSets, Functions

EmptyMap == [k \in {} |-> k]

\* map.set(key, value)
With(map, key, value) ==
    [k \in DOMAIN map \cup {key} |-> IF k = key THEN value ELSE map[k]]

\* map.delete(key) for every key of a set
Without(map, keys) == Restrict(map, DOMAIN map \ keys)

\* map is a function from some of Keys to Values
IsMap(map, Keys, Values) == /\ DOMAIN map \subseteq Keys
                            /\ map \in [DOMAIN map -> Values]

\* list.filter: the entries of a list that are among some, in their order.  (SelectSeq
\* is this, by recursion, which no proof could follow.)
Only(list, kept) ==
    LET at == {i \in DOMAIN list : list[i] \in kept}
        nth(k) == CHOOSE i \in at : Cardinality({j \in at : j <= i}) = k
    IN  [k \in 1..Cardinality(at) |-> list[nth(k)]]
=================================================================================
