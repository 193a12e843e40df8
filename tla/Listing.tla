------------------------------ MODULE Listing ------------------------------
(***************************************************************************)
(* Python's sorted(), by which placement and the emitter of documents      *)
(* settle what comes first, and its comparison of tuples.                  *)
(***************************************************************************)
EXTENDS Naturals, FiniteSets

(* sorted(S), where before has the pairs <<earlier, later>>. *)
Listed(S, before) ==
    LET place == [x \in S |-> Cardinality({y \in S : <<y, x>> \in before})]
    IN  [i \in 1..Cardinality(S) |-> CHOOSE x \in S : place[x] = i - 1]

(* Tuples of numbers: the first difference decides. *)
Lower(a, b) == \E i \in DOMAIN a : a[i] < b[i] /\ \A j \in 1..(i - 1) : a[j] = b[j]

(* sorted with a key: the keys are tuples, and no two are the same. *)
ListedBy(key) ==
    LET S == DOMAIN key
    IN  Listed(S, {p \in S \X S : Lower(key[p[1]], key[p[2]])})
=============================================================================
