------------------------------ MODULE MCParser ------------------------------
(***************************************************************************)
(* Two levels of eight slots, keys of two 2-bit digits.  The entries are   *)
(* those the compiler writes for a parser of two states (basic.json): the  *)
(* start entry, an entry for one key, the wildcard that accepts with       *)
(* header 0 and another action for it, and one that drops, whose slot is   *)
(* that of the entry for one key.                                          *)
(***************************************************************************)
EXTENDS Parser

MCByteSum == [k \in 0 .. 15 |-> (k \div 4) + (k % 4)]

(* Bitwise and of 4-bit numbers.                                           *)
Bit(a, n) == (a \div 2 ^ n) % 2
MCAnd(a, b) ==
    8 * Bit(a, 3) * Bit(b, 3) + 4 * Bit(a, 2) * Bit(b, 2)
      + 2 * Bit(a, 1) * Bit(b, 1) + Bit(a, 0) * Bit(b, 0)

Entry(l, s, k, m, h, n, t, f, a) ==
    [level |-> l, state |-> s, entry |-> k, mask |-> m, hdr_id |-> h,
     hdr_len |-> n, next_state |-> t, fds |-> f, miss_act |-> a]

Field(h, o) == [hdr |-> h, off |-> o, len |-> 2, valid |-> FALSE]
IsValid(h) == [hdr |-> h, off |-> 0, len |-> 1, valid |-> TRUE]

MCRequest ==
    {Entry(0, 0, 0, 0, 1, 2, 1, <<Field(1, 1)>>, 2),
     Entry(1, 1, 2, 15, 2, 5, 2, <<IsValid(2)>>, 2),
     Entry(1, 1, 8, 12, 2, 1, 2, <<>>, 1),
     Entry(1, 1, 0, 0, 0, 0, 0, <<>>, 0),
     Entry(1, 1, 0, 0, 2, 1, 2, <<>>, 2)}

(* An unwritten slot reads as zeros, or as something else.                 *)
MCStray ==
    {[hdr_id |-> 0, hdr_len |-> 0, next_state |-> 0, fds |-> <<>>, miss_act |-> 0],
     [hdr_id |-> 2, hdr_len |-> 3, next_state |-> 1, fds |-> <<Field(1, 1)>>, miss_act |-> 2]}

MCHdr == {0, 1, 2}
MetaOffset == 9

Bits(v) == [n \in 0 .. 9 |-> IF n = 1 THEN v ELSE 15]
First(v) ==
    [state |-> 0, key |-> 3, offset |-> 0, miss |-> 2, bits |-> Bits(v),
     hoff |-> [h \in MCHdr |-> IF h = 0 THEN MetaOffset ELSE 0],
     hlen |-> [h \in MCHdr |-> 0], valid |-> {}]

(* A packet whose first header an earlier processor has extracted.         *)
Second ==
    [First(2) EXCEPT !.state = 1, !.key = 2, !.offset = 2, !.valid = {1}]

MCArrival == {First(2), First(9), Second, [First(2) EXCEPT !.key = 15]}
=============================================================================
