---------------------------- MODULE SliceLemmas ----------------------------
(***************************************************************************)
(* Facts about the arrays of block numbers in sw-src/dataplane/            *)
(* matcher_c.h, for exact and for ternary tables: a table of depth d and   *)
(* width w takes w * d blocks, and block j of slice s is number s + d * j. *)
(***************************************************************************)
EXTENDS Integers, TLAPS

(* The index computed by insert_sram_entry and get_match_res for chunk j   *)
(* of slice s stays inside the part of the array the configuration set.    *)
LEMMA IndexInRange ==
    ASSUME NEW w \in Nat \ {0}, NEW d \in Nat \ {0},
           NEW s \in 0 .. d - 1, NEW j \in 0 .. w - 1
    PROVE  s + d * j \in 0 .. w * d - 1
<1>1. d * j \in Nat /\ w * d \in Nat
  BY Z3
<1>2. d * j <= d * (w - 1)
  BY Z3
<1>3. d * (w - 1) = w * d - d
  BY Z3
<1> QED
  BY <1>1, <1>2, <1>3, Z3

(* Two chunks of two slices have different indices.                        *)
LEMMA IndexInjective ==
    ASSUME NEW d \in Nat \ {0}, NEW s \in 0 .. d - 1, NEW r \in 0 .. d - 1,
           NEW j \in Nat, NEW l \in Nat, s + d * j = r + d * l
    PROVE  s = r /\ j = l
<1>1. d * j \in Nat /\ d * l \in Nat
  BY Z3
<1>2. ASSUME j < l PROVE FALSE
  <2>1. d * (j + 1) <= d * l
    BY <1>2, Z3
  <2>2. d * (j + 1) = d * j + d
    BY Z3
  <2> QED
    BY <1>1, <2>1, <2>2, Z3
<1>3. ASSUME l < j PROVE FALSE
  <2>1. d * (l + 1) <= d * j
    BY <1>3, Z3
  <2>2. d * (l + 1) = d * l + d
    BY Z3
  <2> QED
    BY <1>1, <2>1, <2>2, Z3
<1>4. j = l
  BY <1>2, <1>3, Z3
<1> QED
  BY <1>1, <1>4, Z3

(* The byte sum of a key picks a slice of the table.                       *)
LEMMA SliceInRange ==
    ASSUME NEW n \in Nat, NEW d \in Nat \ {0}
    PROVE  n % d \in 0 .. d - 1
  BY Z3
=============================================================================
