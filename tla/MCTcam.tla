------------------------------- MODULE MCTcam -------------------------------
(***************************************************************************)
(* Two threads, two slots, words of two bits, keys of three bits in two    *)
(* words, values of two bits or of one.                                    *)
(***************************************************************************)
EXTENDS Tcam, TLC

Symmetry == Permutations(Thread)

MCKeyPart == [j \in Chunk |-> IF j = 0 THEN Bit ELSE {1}]
W(n, part) == IF n = 1 THEN part ELSE {}
K(a, b) == [j \in Chunk |-> IF j = 0 THEN W(a, MCKeyPart[0]) ELSE W(b, MCKeyPart[1])]
MCKeySum(k) == Cardinality({j \in Chunk : k[j] # {}})

(* A lookup that a handler met is in no property: it is not followed.      *)
Followed == quiet

MCEntry ==
    {[key |-> K(1, 0), mask |-> K(1, 0), value |-> Bit, part |-> Bit],
     [key |-> K(1, 1), mask |-> K(0, 1), value |-> {}, part |-> {1}]}
MCPacketKey == {K(0, 1)}

C(type, depth, key, value) ==
    [type |-> type, depth |-> depth,
     key |-> [j \in 0 .. KW * depth - 1 |-> key[j + 1]],
     value |-> [j \in 0 .. depth - 1 |-> value[j + 1]]]

(* A ternary table of two slices, one of a single slice beside it, and an  *)
(* exact table over the SRAM blocks of both; any of them may be sent to    *)
(* either thread, whatever the other has.                                  *)
MCRequest ==
    {C("TERNARY", 2, <<0, 1, 2, 3>>, <<0, 1>>),
     C("TERNARY", 1, <<5, 4>>, <<2>>),
     C("EXACT", 1, <<1, 2>>, <<0>>)}
=============================================================================
