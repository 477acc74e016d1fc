----------------------------- MODULE MCMatcher -----------------------------
(***************************************************************************)
(* A small cluster: six blocks of two slots, words of two bits, keys of    *)
(* one bit, values two words wide.  Both keys have an even sum and go to   *)
(* slot 0; in a table of one slice they have the same cell, in a table of  *)
(* two slices different ones.  The values fill both words, end with the    *)
(* first, or end before it, which kills the process.                       *)
(***************************************************************************)
EXTENDS MatcherTable, TLC

CONSTANTS t1, t2

(* A lookup that a handler met can do nothing any more but kill the        *)
(* process (the run matcher_crash): the others are followed.               *)
Followed == quiet

K(b) == [j \in 0 .. 0 |-> b]
MCKeySum == [k \in Key |-> IF k = K({}) THEN 0 ELSE 2]
MCTableKey == {K({0})}
MCPacketKey == {K({}), K({0})}
V(len) == [word |-> [j \in 0 .. 1 |-> Copied(len, j)], len |-> len]
MCTableValue == {V(len) : len \in {1, 2, 4}}

(* Thread t1 gets one table; t2 gets a table beside it, or one over the    *)
(* blocks of both with the roles of key and value blocks exchanged.        *)
R(t, d, key, value) ==
    [thread |-> t, depth |-> d, key_config |-> [j \in 0 .. d - 1 |-> key[j + 1]],
     value_config |-> [j \in 0 .. 2 * d - 1 |-> value[j + 1]], miss_act_id |-> 7]
MCRequest ==
    {R(t1, 1, <<0>>, <<1, 2>>), R(t2, 1, <<5>>, <<4, 3>>),
     R(t2, 2, <<2, 5>>, <<4, 0, 3, 1>>)}
=============================================================================
