-------------------------------- MODULE Maps --------------------------------
(***************************************************************************)
(* A JavaScript Map is a function whose domain is its set of keys.  The    *)
(* server keeps nearly all of its state in such maps; these are the two    *)
(* updates they see.                                                       *)
(***************************************************************************)

\* map.set(k, v): adds k, or overwrites what was there.
Put(map, k, v) ==
    [x \in DOMAIN map \cup {k} |-> IF x = k THEN v ELSE map[x]]

\* map.delete(k) for every k in ks; deleting an absent key does nothing.
Without(map, ks) ==
    [x \in DOMAIN map \ ks |-> map[x]]

\* new Map()
EmptyMap == [x \in {} |-> x]

\* A map whose keys are in keys and whose values are in values.
IsMap(map, keys, values) ==
    DOMAIN map \subseteq keys /\ map \in [DOMAIN map -> values]
=============================================================================
