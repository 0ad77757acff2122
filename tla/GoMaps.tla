------------------------------- MODULE GoMaps -------------------------------
(***************************************************************************)
(* Go maps as partial functions.  These are :> and @@ of module TLC, spelt *)
(* out so that the proofs can expand them.                                 *)
(***************************************************************************)

(* m[k] = v                                                                *)
Put(m, k, v) == [x \in DOMAIN m \cup {k} |-> IF x = k THEN v ELSE m[x]]

(* for k, v := range n { m[k] = v }                                        *)
Merge(m, n) ==
    [x \in DOMAIN m \cup DOMAIN n |-> IF x \in DOMAIN n THEN n[x] ELSE m[x]]

(* for k := range S { delete(m, k) }                                       *)
Without(m, S) == [x \in DOMAIN m \ S |-> m[x]]

(* The zero value Go returns for a key that is not there.                  *)
Lookup(m, k, zero) == IF k \in DOMAIN m THEN m[k] ELSE zero

(* m is a map from keys in D to values in R.                               *)
IsMap(m, D, R) == DOMAIN m \subseteq D /\ m \in [DOMAIN m -> R]

(* All maps from keys in D to values in R, for small D and R.              *)
Maps(D, R) == UNION {[S -> R] : S \in SUBSET D}

=============================================================================
