-------------------------------- MODULE Maps --------------------------------
(***************************************************************************)
(* std::map as a function: insertion or overwriting of one key, erasure.   *)
(***************************************************************************)
Put(f, x, v) == [d \in DOMAIN f \cup {x} |-> IF d = x THEN v ELSE f[d]]

Without(f, x) == [d \in DOMAIN f \ {x} |-> f[d]]
=============================================================================
