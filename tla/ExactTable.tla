----------------------------- MODULE ExactTable -----------------------------
(***************************************************************************)
(* What the exact tables of a cluster promise, without blocks, slices and  *)
(* slots: each open table is a dictionary, and the open tables do not know *)
(* of each other.  A table is open as long as it has its memory to itself; *)
(* of the others nothing is promised.                                      *)
(*                                                                         *)
(* An insertion first evicts keys that collide with the new one and then   *)
(* adds it.  A table that is configured anew holds the all-zero key with   *)
(* the all-zero value, which cleared memory cannot be told from, and       *)
(* nothing else.                                                           *)
(***************************************************************************)
CONSTANTS
    Thread, Key, Value,
    Collide(_, _),      \* keys that may evict each other
    ZeroKey, ZeroValue,
    NoInsert

VARIABLES
    open,       \* the threads that have a table of their own
    table,      \* per thread: the entries, keys and values
    pending     \* the entry that is being inserted: thread, key and value

vars == <<open, table, pending>>

ZeroEntry == [key |-> ZeroKey, value |-> ZeroValue]

Init ==
    /\ open = {}
    /\ table = [t \in Thread |-> {}]
    /\ pending = NoInsert

(* Tables are taken down, or lose the exclusive use of their memory ...    *)
Close(S) ==
    /\ S # {} /\ pending = NoInsert
    /\ open' = open \ S /\ pending' = NoInsert
    /\ table' = [t \in Thread |-> IF t \in S THEN {} ELSE table[t]]

(* ... and set up, empty.                                                  *)
Open(t) ==
    /\ t \notin open /\ pending = NoInsert
    /\ open' = open \cup {t} /\ pending' = NoInsert
    /\ table' = [table EXCEPT ![t] = {ZeroEntry}]

(* An insertion evicts the entry of the same key, and perhaps entries      *)
(* whose keys collide with it ...                                          *)
Evict ==
    /\ pending = NoInsert
    /\ pending' \in [thread : open, key : Key, value : Value]
    /\ open' = open
    /\ LET t == pending'.thread
           k == pending'.key
       IN  \E S \in SUBSET table[t] :
             /\ \A e \in S : e.key # k
             /\ \A e \in table[t] \ S : Collide(e.key, k)
             /\ table' = [table EXCEPT ![t] = S]

(* ... and adds its own.                                                   *)
Add ==
    /\ pending # NoInsert
    /\ pending' = NoInsert
    /\ open' = open
    /\ table' = [table EXCEPT ![pending.thread] =
                   @ \cup {[key |-> pending.key, value |-> pending.value]}]

(* The process dies, and its memory with it.                               *)
Crash ==
    /\ open # {} \/ pending # NoInsert
    /\ open' = {} /\ pending' = NoInsert
    /\ table' = [t \in Thread |-> {}]

Next ==
    \/ \E S \in SUBSET open : Close(S)
    \/ \E t \in Thread : Open(t)
    \/ Evict
    \/ Add
    \/ Crash

Spec == Init /\ [][Next]_vars
=============================================================================
