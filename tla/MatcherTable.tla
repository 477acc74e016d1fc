---------------------------- MODULE MatcherTable ----------------------------
(***************************************************************************)
(* The matcher threads implement the dictionaries of module ExactTable:    *)
(* the content of a table is what its memory blocks hold now.              *)
(***************************************************************************)
EXTENDS Matcher

CONSTANT NoInsert   \* no insertion is in progress

ASSUME InsertAssumption ==
    NoInsert \notin [thread : Thread, key : Key, value : Value]

(* A table that is being configured has no content, a process that has     *)
(* died has nothing, and of a table that shares its blocks nothing is      *)
(* promised.                                                               *)
Usable(t) ==
    pc # "dead" /\ depth[t] # 0 /\ t \notin mixed /\ ~(th = t /\ pc \in ConfigPc)

Cell(t) == (0 .. depth[t] - 1) \X Slot

(* The key and the value in a cell; the value is read to the length it was *)
(* sent with, as its action does.                                          *)
KeyAt(t, c) == CutKey([j \in 0 .. KW - 1 |-> sram[KeyBlock(t, c[1], j)][c[2]]])
ValueAt(t, c) ==
    CutValue([j \in 0 .. VW - 1 |-> sram[ValueBlock(t, c[1], j)][c[2]]],
             LastValue(t, c[1], c[2]).len)

CellOf(t, k) == <<SliceOf(KeySum[k], depth[t]), SlotOf(KeySum[k])>>

(* A cell holds a key that is looked up there, and the insertion in        *)
(* progress is not writing it.                                             *)
Filled(t, c) ==
    /\ c = CellOf(t, KeyAt(t, c))
    /\ ~(th = t /\ pc \in InsertPc /\ c = CellOf(t, ent.key))

(* A table as a set of entries: no two have the same key.                  *)
Content ==
    [t \in Thread |->
        IF Usable(t)
        THEN {[key |-> KeyAt(t, c), value |-> ValueAt(t, c)] :
                c \in {d \in Cell(t) : Filled(t, d)}}
        ELSE {}]

Inserting ==
    IF pc \in InsertPc /\ th \notin mixed
    THEN [thread |-> th, key |-> ent.key, value |-> ent.value]
    ELSE NoInsert

SameSlot(k, l) == SlotOf(KeySum[k]) = SlotOf(KeySum[l])

InUse == {t \in Thread : Usable(t)}

Dictionary == INSTANCE ExactTable WITH
    Collide <- SameSlot, open <- InUse, table <- Content, pending <- Inserting

(* Whatever the handlers and the packets do, in whatever order, the tables *)
(* that have their blocks to themselves are dictionaries: such a table     *)
(* starts empty, whichever tables had its blocks before, an insertion adds *)
(* its entry and costs at most entries of the same slot of the same table, *)
(* and nothing else changes its content until another table is configured  *)
(* over one of its blocks or a ternary table writes one (clear_old_config, *)
(* set_mem_config, insert_sram_entry).                                     *)
ImplementsTable == Dictionary!Spec
=============================================================================
