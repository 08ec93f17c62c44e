-------------------------------- MODULE MapOps --------------------------------
(***************************************************************************)
(* Maps as functions whose domain changes, and the two-argument bounds.    *)
(***************************************************************************)
EXTENDS Integers, Functions

Added(f, key, value) == [x \in DOMAIN f \cup {key} |-> IF x = key THEN value ELSE f[x]]
Without(f, keys) == Restrict(f, DOMAIN f \ keys)

\* The value of a key, or a default: what operator[] gives of a map.
Lookup(f, key, default) == IF key \in DOMAIN f THEN f[key] ELSE default

Lesser(a, b) == IF a < b THEN a ELSE b
Greater(a, b) == IF a > b THEN a ELSE b

=============================================================================
